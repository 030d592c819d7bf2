------------------------------ MODULE Workflow ------------------------------
(***************************************************************************)
(* The workflow plugin (plugins/workflow.cpp): repeat jobs of workshops    *)
(* are protected.  One that disappears is linked into the world again,     *)
(* under its old id and suspended, and constraints on the stock suspend    *)
(* and resume the jobs that make an item.                                  *)
(*                                                                         *)
(* A hook of Update, or a command that has suspended the game, works while *)
(* the game stands still.  Such an operation is a sequence of steps, todo; *)
(* the game, the player and other operations go on when it is empty.  The  *)
(* trouble is in what the game does between two operations to jobs the     *)
(* plugin has pointers to.                                                 *)
(*                                                                         *)
(* The console thread unloads and loads the plugin without suspending the  *)
(* game: plugin_shutdown deletes the plugin's lists, and plugin_init makes *)
(* them, beside whatever runs.  When that is an operation of the plugin,   *)
(* or the game at work on the list of jobs that plugin_init walks, what    *)
(* follows is undefined in the code.  The library is then "torn", and what *)
(* the plugin does until it is closed is not followed.                     *)
(*                                                                         *)
(* A ProtectedJob is called by its job's id.  A pointer to one that has    *)
(* been deleted, or to a deleted constraint, is Freed.                     *)
(***************************************************************************)
EXTENDS Integers, Sequences, SequencesExt, Sublists

CONSTANTS
    MaxId,          \* jobs are 1..MaxId: the game numbers them upward
    Shops,          \* workshops
    Items,          \* constraint specifications, one per kind of item
    Makes,          \* Makes[j]: the items job j makes (compute_job_outputs)
    Weight,         \* Weight[i]: how specific the constraint is
    Goals,          \* limits a player sets
    Freed,          \* a pointer to what was deleted
    MaxJobs,        \* jobs a workshop takes (10)
    DayTicks,       \* frames in a day (DAY_TICKS)
    MaxDelay,       \* the longest delay (a month)
    MaxStock        \* bound: the most items in stock

JobIds == 1..MaxId

ASSUME WorkflowAssumption ==
    /\ MaxId \in Nat /\ MaxJobs \in Nat \ {0} /\ MaxStock \in Nat
    /\ DayTicks \in Nat /\ DayTicks >= 2 /\ MaxDelay \in Nat
    /\ MaxDelay >= DayTicks
    /\ Makes \in [JobIds -> SUBSET Items] /\ Weight \in [Items -> Nat]
    /\ Goals \subseteq Nat \ {0} /\ Goals # {}
    /\ Freed \notin Items /\ Freed \notin JobIds

HalfDay == DayTicks \div 2

\* No delay is shortened by more, whatever the time since the last tick.
MaxTicks == MaxDelay - DayTicks

VARIABLES
    library,        \* of the plugin: "open", "torn" or "closed"
    loaded,         \* a world is loaded
    job_list,       \* world->job_list: ids, linked in ascending order
    job,            \* job[j]: the job of each id in job_list
    shop,           \* shop[w]: the workshop, its jobs
    job_next_id,
    stock,          \* stock[i]: what map_job_items counts
    saved,          \* the plugin's persistent data: enabled, limits
    enabled, known_jobs, pending_recover,
    constraints,    \* constraints[i].jobs, for each i that has a constraint
    last_rlen,      \* pending_recover.size() after the last recovery
    since_tick,     \* frames since last_tick_frame_count, up to MaxTicks
    since_day,      \* frames since last_frame_count, up to HalfDay
    todo            \* the steps of the operation under way

gameVars == <<loaded, job_next_id, stock>>
jobVars == <<job_list, job, shop>>
clockVars == <<last_rlen, since_tick, since_day>>
vars == <<library, loaded, job_list, job, shop, job_next_id, stock, saved, enabled,
          known_jobs, pending_recover, constraints, last_rlen, since_tick,
          since_day, todo>>

\* resume_time is kept as the frames left until then; it is zero in the code,
\* Unset here, when there is none.
Unset == -1

Jobs == [shop : Shops, repeat : BOOLEAN, suspend : BOOLEAN]

\* blocked: the first job is a DestroyBuilding or a strange mood, not counted
\* in jobs.  A workshop that is not standing is gone.
ShopStates == [standing : BOOLEAN, blocked : BOOLEAN, jobs : Seq(JobIds)]

ProtectedJobs ==
    [shop : Shops, live : BOOLEAN, want_resumed : BOOLEAN,
     resume_time : {Unset} \cup 0..MaxDelay, resume_delay : DayTicks..MaxDelay,
     constraints : SUBSET (Items \cup {Freed})]

Steps ==
    {<<"check">>, <<"count">>, <<"map">>, <<"update">>, <<"command">>}
        \cup ({"job"} \X JobIds) \cup ({"print"} \X Items)
        \cup ({"limit"} \X Items \X Goals)

IsPartialFunction(f, S, T) ==
    DOMAIN f \subseteq S /\ \A x \in DOMAIN f : f[x] \in T

TypeOK ==
    /\ library \in {"open", "torn", "closed"}
    /\ loaded \in BOOLEAN
    /\ job_list \in Seq(JobIds)
    /\ IsPartialFunction(job, JobIds, Jobs)
    /\ shop \in [Shops -> ShopStates]
    /\ job_next_id \in 1..(MaxId + 1)
    /\ stock \in [Items -> 0..MaxStock]
    /\ saved.enabled \in BOOLEAN
    /\ IsPartialFunction(saved.limits, Items, Goals)
    /\ enabled \in BOOLEAN
    /\ IsPartialFunction(known_jobs, JobIds, ProtectedJobs)
    /\ pending_recover \in Seq(JobIds)
    /\ IsPartialFunction(constraints, Items, SUBSET (JobIds \cup {Freed}))
    /\ last_rlen \in Nat
    /\ since_tick \in 0..MaxTicks
    /\ since_day \in 0..HalfDay
    /\ todo \in Seq(Steps)

\* The library is opened before there is a world.
Init ==
    /\ library = "open"
    /\ loaded = FALSE
    /\ job_list = <<>> /\ job = <<>>
    /\ shop = [w \in Shops |->
                 [standing |-> FALSE, blocked |-> FALSE, jobs |-> <<>>]]
    /\ job_next_id = 1
    /\ stock = [i \in Items |-> 0]
    /\ saved = [enabled |-> FALSE, limits |-> <<>>]
    /\ enabled = FALSE
    /\ known_jobs = <<>> /\ pending_recover = <<>> /\ constraints = <<>>
    /\ last_rlen = 0 /\ since_tick = 0 /\ since_day = 0
    /\ todo = <<>>

-----------------------------------------------------------------------------
(* Pointers.                                                               *)

Listed == ToSet(job_list)

Without(f, S) == Restrict(f, DOMAIN f \ S)

\* Deleting what S stands for leaves pointers to it behind.
Dangle(ptrs, S) == IF ptrs \cap S = {} THEN ptrs ELSE (ptrs \ S) \cup {Freed}

\* constraints once the ProtectedJobs of S have been deleted.
ForgetIn(cs, S) == [i \in DOMAIN cs |-> Dangle(cs[i], S)]

-----------------------------------------------------------------------------
(* The game and the player, between two operations.                        *)

Playing == loaded /\ todo = <<>>

GameStep == Playing /\ UNCHANGED <<library, saved, enabled,
                known_jobs, pending_recover, constraints, last_rlen, todo>>

Load(w) == Len(shop[w].jobs) + (IF shop[w].blocked THEN 1 ELSE 0)

\* The world without the jobs of S: linked list, jobs and workshops agree.
EndJobs(S) ==
    /\ job_list' = Drop(job_list, S)
    /\ job' = Without(job, S)

\* A job is added to a workshop; it gets the next id and goes last.
NewJob(w, repeat) ==
    /\ GameStep
    /\ job_next_id <= MaxId
    /\ shop[w].standing /\ ~shop[w].blocked
    /\ Len(shop[w].jobs) < MaxJobs
    /\ job_next_id' = job_next_id + 1
    /\ job_list' = Append(job_list, job_next_id)
    /\ job' = [j \in Listed \cup {job_next_id} |->
                 IF j \in Listed THEN job[j]
                 ELSE [shop |-> w, repeat |-> repeat, suspend |-> FALSE]]
    /\ shop' = [shop EXCEPT ![w].jobs = Append(@, job_next_id)]
    /\ UNCHANGED <<loaded, stock, since_tick, since_day>>

\* A job is done, or cancelled by the game or by the player.
JobEnds(j) ==
    /\ GameStep
    /\ j \in Listed
    /\ EndJobs({j})
    /\ shop' = [shop EXCEPT ![job[j].shop].jobs = Drop(@, {j})]
    /\ UNCHANGED <<gameVars, since_tick, since_day>>

\* The player sets a job to repeat or not, suspends or resumes it.
SetJob(j) ==
    /\ GameStep
    /\ j \in Listed
    /\ \/ job' = [job EXCEPT ![j].repeat = ~@]
       \/ job' = [job EXCEPT ![j].suspend = ~@]
    /\ UNCHANGED <<gameVars, job_list, shop, since_tick, since_day>>

\* A workshop is to be destroyed, or claimed in a strange mood: jobs of it are
\* cancelled.
Block(w, cancelled) ==
    /\ GameStep
    /\ shop[w].standing /\ ~shop[w].blocked
    /\ Load(w) - Cardinality(cancelled) < MaxJobs
    /\ EndJobs(cancelled)
    /\ shop' = [shop EXCEPT ![w].blocked = TRUE,
                  ![w].jobs = Drop(@, cancelled)]
    /\ UNCHANGED <<gameVars, since_tick, since_day>>

\* The mood ends, or the workshop is not to be destroyed after all.
Unblock(w) ==
    /\ GameStep
    /\ shop[w].blocked
    /\ shop' = [shop EXCEPT ![w].blocked = FALSE]
    /\ UNCHANGED <<gameVars, job_list, job, since_tick, since_day>>

Destroy(w) ==
    /\ GameStep
    /\ shop[w].blocked
    /\ EndJobs(ToSet(shop[w].jobs))
    /\ shop' = [shop EXCEPT ![w] =
                  [standing |-> FALSE, blocked |-> FALSE, jobs |-> <<>>]]
    /\ UNCHANGED <<gameVars, since_tick, since_day>>

StockChanges(i, n) ==
    /\ GameStep
    /\ n # stock[i]
    /\ stock' = [stock EXCEPT ![i] = n]
    /\ UNCHANGED <<loaded, job_next_id, jobVars, since_tick, since_day>>

Minimum(a, b) == IF a <= b THEN a ELSE b
Maximum(a, b) == IF a >= b THEN a ELSE b

\* A frame passes: frame_counter goes on, resume times come nearer.
Frame ==
    /\ Playing
    /\ known_jobs' = [j \in DOMAIN known_jobs |->
         [known_jobs[j] EXCEPT !.resume_time = IF @ > 0 THEN @ - 1 ELSE @]]
    /\ since_tick' = Minimum(since_tick + 1, MaxTicks)
    /\ since_day' = Minimum(since_day + 1, HalfDay)
    /\ UNCHANGED <<library, gameVars, jobVars, saved, enabled, pending_recover,
                   constraints, last_rlen, todo>>

-----------------------------------------------------------------------------
(* The steps of an operation.                                              *)

Step(s) == library = "open" /\ todo # <<>> /\ Head(todo) = s
Then(steps) == todo' = steps \o Tail(todo)

\* tick_job, for a job in the list.
ResumedByTick(j) ==
    LET pj == known_jobs[j] IN
    job[j].suspend /\ pj.want_resumed /\ pj.resume_time = 0

TickJob(j, ticks) ==
    LET pj == [known_jobs[j] EXCEPT !.live = TRUE] IN
    IF ~job[j].suspend
    THEN [pj EXCEPT !.resume_time = Unset,
                    !.resume_delay = Maximum(DayTicks, @ - ticks)]
    ELSE [pj EXCEPT !.want_resumed = @ /\ pj.resume_time # Unset]

ProtectedJob(j) ==
    [shop |-> job[j].shop, live |-> TRUE, want_resumed |-> FALSE,
     resume_time |-> Unset, resume_delay |-> DayTicks, constraints |-> {}]

\* check_lost_jobs: one walk over the list, which forgets, ticks and protects,
\* and one over known_jobs, in the order of their ids, for what was not met.
CheckLostJobs(ticks) ==
    LET known == DOMAIN known_jobs
        forgotten == {j \in known \cap Listed : ~job[j].repeat}
        fresh == {j \in Listed \ known : job[j].repeat}
        lost == {j \in known \ Listed : known_jobs[j].live}
    IN  /\ known_jobs' = [j \in (known \ forgotten) \cup fresh |->
             IF j \in fresh THEN ProtectedJob(j)
             ELSE IF j \in Listed THEN TickJob(j, ticks)
             ELSE [known_jobs[j] EXCEPT !.live = FALSE]]
        /\ job' = [j \in Listed |->
             IF j \in known \ forgotten /\ ResumedByTick(j)
             THEN [job[j] EXCEPT !.suspend = FALSE] ELSE job[j]]
        /\ pending_recover' = pending_recover \o Ascending(lost)
        /\ constraints' = ForgetIn(constraints, forgotten)

\* check_lost_jobs in start_protect: no time has passed.
Check ==
    /\ Step(<<"check">>)
    /\ CheckLostJobs(0)
    /\ Then(<<>>)
    /\ UNCHANGED <<library, gameVars, job_list, shop, saved, enabled, clockVars>>

\* recover_jobs: from the last to the first.
RecoverJobs(pending) ==
    [k \in 1..Len(pending) |-> <<"job", Len(pending) + 1 - k>>]

\* Jobs are recovered when their number changes, and at no other time.
BugOnUpdate ==
    /\ library = "open" /\ todo = <<>>
    /\ enabled
    /\ CheckLostJobs(since_tick)
    /\ since_tick' = 0
    /\ todo' = IF Len(pending_recover') # last_rlen
               THEN RecoverJobs(pending_recover') \o << <<"count">> >> ELSE <<>>
    /\ UNCHANGED <<library, gameVars, job_list, shop, saved, enabled, last_rlen, since_day>>

\* plugin_onupdate, every fifth frame, also while no world is loaded:
\* check_lost_jobs, and what follows from it.  "Proceed every in-game half-day,
\* or when jobs to recover changed".
OnUpdate ==
    /\ library = "open" /\ todo = <<>>
    /\ enabled
    /\ CheckLostJobs(since_tick)
    /\ since_tick' = 0
    /\ todo' = IF Len(pending_recover') # last_rlen \/ since_day >= HalfDay
               THEN RecoverJobs(pending_recover') \o << <<"count">> >> ELSE <<>>
    /\ UNCHANGED <<library, gameVars, job_list, shop, saved, enabled, last_rlen, since_day>>

\* The command relies on the last plugin_onupdate.
BugWorkflowCmd ==
    /\ library = "open" /\ Playing
    /\ todo' = (IF enabled THEN << <<"map">>, <<"command">> >>
                           ELSE << <<"command">> >>)
    /\ UNCHANGED <<library, gameVars, jobVars, saved, enabled, known_jobs,
                   pending_recover, constraints, clockVars>>

\* workflow_cmd, up to the command's name.
WorkflowCmd ==
    /\ library = "open" /\ Playing
    /\ IF enabled
       THEN /\ CheckLostJobs(0)
            /\ todo' = RecoverJobs(pending_recover')
                         \o << <<"map">>, <<"command">> >>
       ELSE /\ todo' = << <<"command">> >>
            /\ UNCHANGED <<known_jobs, job, pending_recover, constraints>>
    /\ UNCHANGED <<library, gameVars, job_list, shop, saved, enabled, clockVars>>

BugLinkJob(j) == Append(job_list, j)

\* linkJobIntoWorld(job, false): behind the last smaller id of the list.
LinkJob(j) ==
    LET at == Cardinality({k \in 1..Len(job_list) :
                             \A l \in 1..k : job_list[l] < j})
    IN  InsertAt(job_list, at + 1, j)

JobStep(i) == Step(<<"job", i>>) /\ Then(<<>>)

\* A job of a workshop that is blocked is forgotten as well.
BugForgetBlocked(i) ==
    LET j == pending_recover[i]
        w == known_jobs[j].shop
    IN  /\ JobStep(i)
        /\ ~known_jobs[j].live
        /\ ~shop[w].standing \/ Load(w) >= MaxJobs \/ shop[w].blocked
        /\ known_jobs' = Without(known_jobs, {j})
        /\ constraints' = ForgetIn(constraints, {j})
        /\ pending_recover' = RemoveAt(pending_recover, i)
        /\ UNCHANGED <<library, gameVars, jobVars, saved, enabled, clockVars>>

\* The job is deleted and its pointer stays in pending_recover.
BugForgetJob(i) ==
    LET j == pending_recover[i]
        w == known_jobs[j].shop
    IN  /\ JobStep(i)
        /\ ~known_jobs[j].live
        /\ ~shop[w].standing \/ Load(w) >= MaxJobs
        /\ known_jobs' = Without(known_jobs, {j})
        /\ constraints' = ForgetIn(constraints, {j})
        /\ UNCHANGED <<library, gameVars, jobVars, saved, enabled, pending_recover,
                       clockVars>>

\* recover_job, when the workshop is gone or full: the job is forgotten.
ForgetJob(i) ==
    LET j == pending_recover[i]
        w == known_jobs[j].shop
    IN  /\ JobStep(i)
        /\ ~known_jobs[j].live
        /\ ~shop[w].standing \/ Load(w) >= MaxJobs
        /\ known_jobs' = Without(known_jobs, {j})
        /\ constraints' = ForgetIn(constraints, {j})
        /\ pending_recover' = RemoveAt(pending_recover, i)
        /\ UNCHANGED <<library, gameVars, jobVars, saved, enabled, clockVars>>

\* recover_job, postponed.
PostponeJob(i) ==
    LET w == known_jobs[pending_recover[i]].shop
    IN  /\ JobStep(i)
        /\ ~known_jobs[pending_recover[i]].live
        /\ shop[w].standing /\ Load(w) < MaxJobs /\ shop[w].blocked
        /\ UNCHANGED <<library, gameVars, jobVars, saved, enabled, known_jobs,
                       pending_recover, constraints, clockVars>>

BugRecoveryDelay(delay) == (5 * delay) \div 3

RecoveryDelay(delay) == Minimum(MaxDelay, (5 * delay) \div 3)

\* recover_job: a copy of the job is linked into the world and the workshop,
\* suspended, and the delay until it may be resumed grows.
RecoverJob(i) ==
    LET j == pending_recover[i]
        pj == known_jobs[j]
        delay == RecoveryDelay(pj.resume_delay)
    IN  /\ JobStep(i)
        /\ ~pj.live
        /\ shop[pj.shop].standing /\ Load(pj.shop) < MaxJobs
        /\ ~shop[pj.shop].blocked
        /\ j \notin Listed
        /\ job_list' = LinkJob(j)
        /\ job' = [k \in Listed \cup {j} |->
                     IF k \in Listed THEN job[k]
                     ELSE [shop |-> pj.shop, repeat |-> TRUE, suspend |-> TRUE]]
        /\ shop' = [shop EXCEPT ![pj.shop].jobs = Append(@, j)]
        /\ known_jobs' = [known_jobs EXCEPT ![j].live = TRUE,
                            ![j].resume_delay = delay, ![j].resume_time = delay]
        /\ pending_recover' = RemoveAt(pending_recover, i)
        /\ UNCHANGED <<library, gameVars, saved, enabled, constraints, clockVars>>

\* recover_job of a live job, and of one whose id is in the list again
\* ("Inconsistency"): no longer pending.
NothingToRecover(i) ==
    LET j == pending_recover[i]
        pj == known_jobs[j]
    IN  /\ JobStep(i)
        /\ \/ pj.live
           \/ /\ shop[pj.shop].standing /\ Load(pj.shop) < MaxJobs
              /\ ~shop[pj.shop].blocked
              /\ j \in Listed
        /\ pending_recover' = RemoveAt(pending_recover, i)
        /\ UNCHANGED <<library, gameVars, jobVars, saved, enabled, known_jobs,
                       constraints, clockVars>>

\* process_constraints does nothing when there are none.
ProcessConstraints(cs) == IF cs = {} THEN <<>> ELSE << <<"map">>, <<"update">> >>

\* The end of plugin_onupdate.
CountPending ==
    /\ Step(<<"count">>)
    /\ last_rlen' = Len(pending_recover)
    /\ IF since_day >= HalfDay
       THEN /\ since_day' = 0
            /\ Then(ProcessConstraints(DOMAIN constraints))
       ELSE /\ UNCHANGED since_day
            /\ Then(<<>>)
    /\ UNCHANGED <<library, gameVars, jobVars, saved, enabled, known_jobs,
                   pending_recover, constraints, since_tick>>

\* map_job_constraints: live jobs and the constraints on what they make.
MapJobConstraints ==
    /\ Step(<<"map">>)
    /\ constraints' = [i \in DOMAIN constraints |->
         {j \in DOMAIN known_jobs : known_jobs[j].live /\ i \in Makes[j]}]
    /\ known_jobs' = [j \in DOMAIN known_jobs |->
         [known_jobs[j] EXCEPT !.constraints =
            IF known_jobs[j].live THEN DOMAIN constraints \cap Makes[j] ELSE {}]]
    /\ Then(<<>>)
    /\ UNCHANGED <<library, gameVars, jobVars, saved, enabled, pending_recover, clockVars>>

\* computeRequest, with the default gap of 5.
Gap(goal) == Minimum(Maximum(1, goal \div 2), 5)
RequestResume(i) == stock[i] <= saved.limits[i] - Gap(saved.limits[i])
BugRequestSuspend(i) == stock[i] > saved.limits[i]

RequestSuspend(i) == stock[i] >= saved.limits[i]

Heaviest(is) == IF is = {} THEN -1 ELSE Max({Weight[i] : i \in is})

\* What update_jobs_by_constraints wants of job j.
Goal(j) ==
    LET cs == known_jobs[j].constraints
        resume == Heaviest({i \in cs : RequestResume(i)})
        suspend == Heaviest({i \in cs : RequestSuspend(i)})
    IN  IF resume >= 0 /\ resume >= suspend THEN TRUE
        ELSE IF suspend >= 0 THEN FALSE
        ELSE known_jobs[j].want_resumed \/ ~job[j].suspend

\* update_jobs_by_constraints: set_resumed for every live job under a constraint.
UpdateJobs ==
    LET due == {j \in DOMAIN known_jobs :
                  known_jobs[j].live /\ known_jobs[j].constraints # {}}
    IN  /\ Step(<<"update">>)
        /\ known_jobs' = [j \in DOMAIN known_jobs |->
             LET pj == known_jobs[j] IN
             IF j \notin due THEN pj
             ELSE IF Goal(j) THEN [pj EXCEPT !.want_resumed = TRUE]
             ELSE [pj EXCEPT !.want_resumed = FALSE, !.resume_time = Unset,
                     !.resume_delay = IF job[j].suspend THEN @ ELSE DayTicks]]
        /\ job' = [j \in Listed |->
             IF j \notin due THEN job[j]
             ELSE [job[j] EXCEPT !.suspend =
                     IF Goal(j) THEN @ /\ known_jobs[j].resume_time > 0 ELSE TRUE]]
        /\ Then(<<>>)
        /\ UNCHANGED <<library, gameVars, job_list, shop, saved, enabled,
                       pending_recover, constraints, clockVars>>

-----------------------------------------------------------------------------
(* The hooks for a world that comes or goes.                               *)

CleanupState ==
    known_jobs' = <<>> /\ pending_recover' = <<>> /\ constraints' = <<>>

\* The world goes, and with it what cleanup_state deletes.  enabled stays.
OnUnloaded ==
    /\ Playing
    /\ loaded' = FALSE
    /\ EndJobs(Listed)
    /\ shop' = [w \in Shops |->
                  [standing |-> FALSE, blocked |-> FALSE, jobs |-> <<>>]]
    /\ CleanupState
    /\ UNCHANGED <<library, job_next_id, stock, saved, enabled, clockVars, todo>>

\* A world comes, this one again or a new one without persistent data of the
\* plugin: cleanup_state, init_state, if the plugin is there.
OnLoaded(new) ==
    /\ ~loaded /\ todo = <<>>
    /\ loaded' = TRUE
    /\ shop' = [w \in Shops |-> [shop[w] EXCEPT !.standing = TRUE]]
    /\ saved' = IF new THEN [enabled |-> FALSE, limits |-> <<>>] ELSE saved
    /\ enabled' = IF library = "open" THEN saved'.enabled ELSE enabled
    /\ known_jobs' = <<>> /\ pending_recover' = <<>>
    /\ constraints' = [i \in IF library = "open" THEN DOMAIN saved'.limits ELSE {}
                          |-> {}]
    /\ since_tick' = 0 /\ since_day' = 0
    /\ todo' = IF library = "open" /\ enabled' THEN << <<"check">> >> ELSE <<>>
    /\ UNCHANGED <<library, job_list, job, job_next_id, stock, last_rlen>>

-----------------------------------------------------------------------------
(* Plugin::unload and Plugin::load, on the console thread, at any time.    *)

\* plugin_shutdown: cleanup_state.  With no thread in the plugin none comes in
\* until the library is closed, and its variables with it; or threads are in
\* it, in an operation or waiting for the game to begin one, unload waits for
\* them, and lets others in as well.
PluginShutdown ==
    /\ library = "open"
    /\ CleanupState
    /\ \/ /\ todo = <<>>
          /\ library' = "closed"
          /\ enabled' = FALSE
       \/ /\ library' = "torn"
          /\ UNCHANGED enabled
    /\ UNCHANGED <<gameVars, jobVars, saved, clockVars, todo>>

\* The threads have left: ClosePlugin.
PluginClose ==
    /\ library = "torn"
    /\ library' = "closed"
    /\ enabled' = FALSE
    /\ todo' = <<>>
    /\ UNCHANGED <<gameVars, jobVars, saved, known_jobs, pending_recover,
                   constraints, clockVars>>

\* plugin_init: init_state, with check_lost_jobs of an empty known_jobs.  The
\* game may work on the job list meanwhile.
PluginInit ==
    /\ library = "closed"
    /\ \/ /\ library' = "open"
          /\ enabled' = (loaded /\ saved.enabled)
          /\ constraints' = [i \in IF loaded THEN DOMAIN saved.limits ELSE {} |-> {}]
          /\ known_jobs' = [j \in IF enabled' THEN {k \in Listed : job[k].repeat}
                                             ELSE {} |-> ProtectedJob(j)]
       \/ /\ library' = "torn"
          /\ loaded /\ saved.enabled
          /\ UNCHANGED <<enabled, constraints, known_jobs>>
    /\ last_rlen' = 0 /\ since_tick' = 0 /\ since_day' = 0
    /\ UNCHANGED <<gameVars, jobVars, saved, pending_recover, todo>>

-----------------------------------------------------------------------------
(* The commands.                                                           *)

\* enable_plugin, and start_protect.
EnablePlugin ==
    /\ enabled' = TRUE
    /\ saved' = [saved EXCEPT !.enabled = TRUE]

\* workflow enable.
Enable ==
    /\ Step(<<"command">>)
    /\ IF enabled THEN UNCHANGED <<enabled, saved>> ELSE EnablePlugin
    /\ Then(IF enabled THEN <<>> ELSE << <<"check">> >>)
    /\ UNCHANGED <<library, gameVars, jobVars, known_jobs, pending_recover,
                   constraints, clockVars>>

\* workflow disable: stop_protect deletes the protected jobs, and leaves the
\* constraints as they are.
Disable ==
    /\ Step(<<"command">>)
    /\ enabled' = FALSE
    /\ IF enabled
       THEN /\ saved' = [saved EXCEPT !.enabled = FALSE]
            /\ constraints' = ForgetIn(constraints, DOMAIN known_jobs)
            /\ known_jobs' = <<>> /\ pending_recover' = <<>>
       ELSE UNCHANGED <<saved, constraints, known_jobs, pending_recover>>
    /\ Then(<<>>)
    /\ UNCHANGED <<library, gameVars, jobVars, clockVars>>

\* workflow count and amount: the constraint, found or made, gets its limit, and
\* all are processed.
SetLimit(i, goal) ==
    /\ \/ enabled /\ Step(<<"command">>)
       \/ Step(<<"limit", i, goal>>)
    /\ saved' = [saved EXCEPT !.limits =
                    [k \in DOMAIN @ \cup {i} |-> IF k = i THEN goal ELSE @[k]]]
    /\ constraints' = [k \in DOMAIN constraints \cup {i} |->
                         IF k \in DOMAIN constraints THEN constraints[k] ELSE {}]
    /\ Then(<< <<"map">>, <<"update">>, <<"print", i>> >>)
    /\ UNCHANGED <<library, gameVars, jobVars, enabled, known_jobs, pending_recover,
                   clockVars>>

\* The same, and "enable" comes first.
EnableAndLimit(i, goal) ==
    /\ Step(<<"command">>)
    /\ ~enabled
    /\ EnablePlugin
    /\ Then(<< <<"check">>, <<"limit", i, goal>> >>)
    /\ UNCHANGED <<library, gameVars, jobVars, known_jobs, pending_recover,
                   constraints, clockVars>>

\* workflow unlimit: delete_constraint, which is not taken out of the jobs.
Unlimit(i) ==
    /\ Step(<<"command">>)
    /\ IF i \in DOMAIN constraints
       THEN /\ constraints' = Without(constraints, {i})
            /\ saved' = [saved EXCEPT !.limits = Without(@, {i})]
            /\ known_jobs' = [j \in DOMAIN known_jobs |->
                 [known_jobs[j] EXCEPT !.constraints = Dangle(@, {i})]]
       ELSE UNCHANGED <<constraints, saved, known_jobs>>
    /\ Then(<<>>)
    /\ UNCHANGED <<library, gameVars, jobVars, enabled, pending_recover, clockVars>>

\* workflow list and jobs, and the end of count and amount: print_constraint and
\* print_job only look.
PrintStep ==
    /\ \/ Step(<<"command">>)
       \/ \E i \in Items : Step(<<"print", i>>)
    /\ Then(<<>>)
    /\ UNCHANGED <<library, gameVars, jobVars, saved, enabled, known_jobs,
                   pending_recover, constraints, clockVars>>

-----------------------------------------------------------------------------
GameNext ==
    \/ \E w \in Shops : \/ \E repeat \in BOOLEAN : NewJob(w, repeat)
                       \/ \E S \in SUBSET ToSet(shop[w].jobs) : Block(w, S)
                       \/ Unblock(w) \/ Destroy(w)
    \/ \E j \in JobIds : JobEnds(j) \/ SetJob(j)
    \/ \E i \in Items, n \in 0..MaxStock : StockChanges(i, n)
    \/ Frame
    \/ OnUnloaded \/ \E new \in BOOLEAN : OnLoaded(new)

StepNext ==
    \/ Check \/ CountPending
    \/ \E i \in 1..Len(pending_recover) :
         ForgetJob(i) \/ PostponeJob(i) \/ RecoverJob(i) \/ NothingToRecover(i)
    \/ MapJobConstraints \/ UpdateJobs
    \/ Enable \/ Disable
    \/ \E i \in Items :
         Unlimit(i) \/ \E goal \in Goals : SetLimit(i, goal) \/ EnableAndLimit(i, goal)
    \/ PrintStep

PluginNext == PluginShutdown \/ PluginClose \/ PluginInit

Next == GameNext \/ OnUpdate \/ WorkflowCmd \/ StepNext \/ PluginNext

SafeSpec == Init /\ [][Next]_vars

\* Operations end, the game calls the hook and is not paused for ever: commands
\* come in between, but not only commands.
Fairness == WF_vars(StepNext) /\ SF_vars(OnUpdate) /\ SF_vars(Frame)

Spec == SafeSpec /\ Fairness

-----------------------------------------------------------------------------
(* Properties.                                                             *)

\* recover_jobs walks a vector of pointers, forget_job deletes what they point
\* to, and a job dropped from the vector is never looked for again: what waits
\* to be recovered is exactly what is protected and lost, each job once.
PendingExact ==
    /\ IsInjective(pending_recover)
    /\ ToSet(pending_recover) =
         {j \in DOMAIN known_jobs : ~known_jobs[j].live}

\* The game finds jobs in job_list by their ids, ascending, and from the
\* workshops: a job linked in again stands where it was in the one, is in the
\* other, and no workshop has more than it takes.
WorldConsistent ==
    /\ \A k \in 1..(Len(job_list) - 1) : job_list[k] < job_list[k + 1]
    /\ DOMAIN job = Listed
    /\ \A w \in Shops :
         /\ IsInjective(shop[w].jobs)
         /\ ToSet(shop[w].jobs) = {j \in Listed : job[j].shop = w}
         /\ Load(w) <= MaxJobs

\* Pointers to jobs of the plugin that can be followed to the game's job.
SoundJobs(ptrs) ==
    \A j \in ptrs : j \in DOMAIN known_jobs /\ known_jobs[j].live /\ j \in Listed

\* What the next step follows: constraints to their jobs, jobs to the game's
\* and to their constraints.  None of it was deleted under the operation.
PointersSound ==
    LET prints == Step(<<"command">>) \/ \E i \in Items : Step(<<"print", i>>)
        maps == Step(<<"map">>)
        updates == Step(<<"update">>)
    IN  /\ todo # <<>> => library = "open"
        /\ prints \/ updates =>
             /\ \A i \in DOMAIN constraints : SoundJobs(constraints[i])
             /\ \A j \in DOMAIN known_jobs : Freed \notin known_jobs[j].constraints
        /\ prints \/ updates \/ maps =>
             \A j \in DOMAIN known_jobs : known_jobs[j].live => j \in Listed

\* The game deletes jobs, the plugin protected jobs and constraints, and either
\* leaves pointers to them behind; no operation of the enabled plugin follows
\* one.  Two exceptions: disabled, workflow list does; and so may an operation
\* under which the console thread unloads the plugin (workflow.cpp:131, before
\* the wait of PluginManager.cpp:232), for plugin_shutdown does not suspend the
\* game.
NoStalePointerFollowed == enabled => PointersSound \/ library = "torn"

Pending(j) == j \in ToSet(pending_recover)

\* "It protects all repeat jobs from removal": a job is protected until the
\* player stops repeating it, the plugin is disabled or unloaded, the world is
\* left, or its workshop, when it is to go back there, is gone or full; and a
\* lost job is waited for until it is back, in its workshop and suspended.
ProtectionLasts ==
    [][\A j \in DOMAIN known_jobs :
         LET w == known_jobs[j].shop IN
         /\ j \notin DOMAIN known_jobs' =>
              \/ j \in Listed /\ ~job[j].repeat
              \/ ~enabled' \/ ~loaded' \/ library' # "open"
              \/ Pending(j) /\ (~shop[w].standing \/ Load(w) >= MaxJobs)
         /\ Pending(j) /\ ~Pending(j)' /\ j \in DOMAIN known_jobs' =>
              /\ j \in ToSet(shop'[w].jobs)
              /\ job'[j] = [shop |-> w, repeat |-> TRUE, suspend |-> TRUE]]_vars

\* A lost job does not wait for ever: it is recovered or forgotten, if
\* workshops are not blocked time and again, or the plugin stops protecting.
LostJobSettled ==
    (\A w \in Shops : <>[]~shop[w].blocked)
        => \A j \in JobIds : Pending(j) ~> ~Pending(j)

Enough(i) == stock[i] >= saved.limits[i]

\* There is enough of something job j makes, and what it makes that is lacking
\* is less specific.
Superfluous(j) ==
    LET is == Makes[j] \cap DOMAIN constraints
    IN  \E i \in is : Enough(i) /\ \A k \in is : Enough(k) \/ Weight[k] < Weight[i]

Running(j) ==
    library = "open" /\ enabled /\ j \in Listed /\ job[j].repeat /\ ~job[j].suspend

\* "Repeat jobs that produce that kind of item are automatically suspended [...]
\* as the item amount goes above [...] the limit": a job does not run on for
\* good while there is enough, whatever recovers, delays or resumes it.
GoalStopsJobs ==
    \A j \in JobIds : <>[]Superfluous(j) => []<>~Running(j)
=============================================================================
