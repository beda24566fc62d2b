---------------------------- MODULE ProjectIdentity ----------------------------
(***************************************************************************)
(* The identity of a project (src/src/reviewctl/identity.py,               *)
(* ProjectIdentityStore) and the two ways to reach it: `reviewctl init`    *)
(* (project_cli.py, init_project) and any command that opens the project   *)
(* (api.py, ReviewClient.from_project).                                    *)
(*                                                                         *)
(* reviewctl.toml names the portable project id; .reviewctl/identity.json  *)
(* binds it to the origin id that every journal event and receipt carries. *)
(* The identity is made once, under identity.lock; the configuration is    *)
(* replaced by init under no lock at all.                                  *)
(*                                                                         *)
(* Both files are replaced atomically, so what is read is whole.           *)
(***************************************************************************)
EXTENDS Naturals, Sequences

CONSTANTS
    Processes,      \* the commands that are run, each once
    UserIds,        \* the project ids the user writes, which may be ids met before
    OneInit,        \* whether an init starts only when no other is under way
    MaxChanges      \* bound: how often the user removes or edits reviewctl.toml

ASSUME IdentityAssumption == OneInit \in BOOLEAN /\ MaxChanges \in Nat

VARIABLES
    root,       \* whether .reviewctl exists
    config,     \* reviewctl.toml
    identity,   \* .reviewctl/identity.json
    lock,       \* who holds identity.lock: at most one process
    steps,      \* process -> what it still has to do, the next step first
    job,        \* process -> its local variables
    result,     \* process -> how it ended
    changes,    \* what the user did to reviewctl.toml so far
    meddled     \* history: reviewctl.toml changed while the first identity was being made

vars == <<root, config, identity, lock, steps, job, result, changes, meddled>>

-----------------------------------------------------------------------------
\* Fresh ids are random: each is told from all others by who made it.
NoConfig   == [exists |-> FALSE]
NoIdentity == [exists |-> FALSE]
Ids == Processes \cup UserIds

Config(p, project)   == [exists |-> TRUE, project |-> project, by |-> p]
Identity(p, project) == [exists |-> TRUE, project |-> project, origin |-> p]

NoJob == [init |-> FALSE, force |-> FALSE, project |-> {}, origin |-> {}]

\* project, origin: the ids the process goes by, none or one.

Init ==
    /\ root = FALSE
    /\ config = NoConfig
    /\ identity = NoIdentity
    /\ lock = {}
    /\ steps = [p \in Processes |-> << >>]
    /\ job = [p \in Processes |-> NoJob]
    /\ result = [p \in Processes |-> "none"]
    /\ changes = 0
    /\ meddled = FALSE

Idle(p)    == steps[p] = << >> /\ result[p] = "none"
Running(p) == steps[p] # << >>

Doing(p, step) == Running(p) /\ Head(steps[p]) = step

\* p goes on with these steps; without any it is done.
Continue(p, rest) ==
    /\ steps' = [steps EXCEPT ![p] = rest]
    /\ result' = IF rest = << >> THEN [result EXCEPT ![p] = "ok"] ELSE result

Proceed(p) == Continue(p, Tail(steps[p]))

\* The step it is at takes this one more.
Instead(p, step) == Continue(p, [steps[p] EXCEPT ![1] = step])

\* Seeded fault: the lock is a file that stays when its owner fails.
FailWithLock(p, diagnostic) ==
    /\ steps' = [steps EXCEPT ![p] = << >>]
    /\ result' = [result EXCEPT ![p] = diagnostic]
    /\ UNCHANGED lock

\* p ends with a diagnostic; a lock it holds is released.
Fail(p, diagnostic) ==
    /\ steps' = [steps EXCEPT ![p] = << >>]
    /\ result' = [result EXCEPT ![p] = diagnostic]
    /\ lock' = lock \ {p}

\* ensure is "root", "lock", "read".  A command opens the project; init writes the
\* configuration and opens the project, or opens what is there and writes it anew.
OpenSteps  == <<"load", "root", "lock", "read">>
InitSteps  == <<"root", "config", "load", "root", "lock", "read">>
ForceSteps == <<"root", "lock", "read", "root", "config">>

-----------------------------------------------------------------------------
(* `reviewctl init`.                                                       *)

\* It refuses a configuration that exists, unless forced.
BeginInit(p) ==
    /\ Idle(p)
    /\ OneInit => ~ \E q \in Processes : Running(q) /\ job[q].init
    /\ \E force \in BOOLEAN :
           /\ job' = [job EXCEPT ![p] = [NoJob EXCEPT !.init = TRUE, !.force = force]]
           /\ IF config.exists /\ ~force
              THEN Fail(p, "invalid_request")
              ELSE Continue(p, <<"look">>) /\ UNCHANGED lock
    /\ UNCHANGED <<root, config, identity, changes, meddled>>

\* It looks a second time: the project id of a configuration is kept, once the
\* identity agrees with it.
Look(p) ==
    /\ Doing(p, "look")
    /\ IF config.exists
       THEN /\ Continue(p, ForceSteps)
            /\ job' = [job EXCEPT ![p].project = {config.project}]
       ELSE Continue(p, <<"peek">>) /\ UNCHANGED job
    /\ UNCHANGED <<root, config, identity, lock, changes, meddled>>

\* Seeded fault: an identity without a configuration is not looked for.
PeekNowhere(p) ==
    /\ Doing(p, "peek")
    /\ Continue(p, InitSteps)
    /\ job' = [job EXCEPT ![p].project = {p}]
    /\ UNCHANGED <<root, config, identity, lock, changes, meddled>>

\* read_existing, under no lock: the project id of the identity, else a fresh one.
Peek(p) ==
    /\ Doing(p, "peek")
    /\ Continue(p, InitSteps)
    /\ job' = [job EXCEPT ![p].project = {IF identity.exists THEN identity.project ELSE p}]
    /\ UNCHANGED <<root, config, identity, lock, changes, meddled>>

\* _replace_private_file puts the template with this project id in place, or fails.
WriteConfig(p) ==
    /\ Doing(p, "config")
    /\ \/ /\ \E project \in job[p].project : config' = Config(p, project)
          /\ Proceed(p)
          /\ UNCHANGED lock
       \/ Fail(p, "raised") /\ UNCHANGED config
    /\ UNCHANGED <<root, identity, job, changes, meddled>>

-----------------------------------------------------------------------------
(* Opening the project.                                                    *)

BeginOpen(p) ==
    /\ Idle(p)
    /\ Continue(p, OpenSteps)
    /\ UNCHANGED <<root, config, identity, lock, job, changes, meddled>>

\* load_config: whatever is in reviewctl.toml now.
Load(p) ==
    /\ Doing(p, "load")
    /\ IF config.exists
       THEN /\ Proceed(p)
            /\ job' = [job EXCEPT ![p].project = {config.project}]
            /\ UNCHANGED lock
       ELSE Fail(p, "config_invalid") /\ UNCHANGED job
    /\ UNCHANGED <<root, config, identity, changes, meddled>>

\* The state root is opened; one that is missing is made next.
OpenRoot(p) ==
    /\ Doing(p, "root")
    /\ IF root THEN Proceed(p) ELSE Instead(p, "mkdir")
    /\ UNCHANGED <<root, config, identity, lock, job, changes, meddled>>

\* One that another process made in between is reported as unsafe.
MakeRoot(p) ==
    /\ Doing(p, "mkdir")
    /\ root' = TRUE
    /\ IF root THEN Fail(p, "journal_corrupt") ELSE Proceed(p) /\ UNCHANGED lock
    /\ UNCHANGED <<config, identity, job, changes, meddled>>

\* Seeded fault: the lock does not exclude.
LockShared(p) ==
    /\ Doing(p, "lock")
    /\ lock' = lock \cup {p}
    /\ Proceed(p)
    /\ UNCHANGED <<root, config, identity, job, changes, meddled>>

\* _identity_lock.
Lock(p) ==
    /\ Doing(p, "lock")
    /\ lock = {}
    /\ lock' = {p}
    /\ Proceed(p)
    /\ UNCHANGED <<root, config, identity, job, changes, meddled>>

\* Seeded fault: an identity of another project is taken.
ReadAny(p) ==
    /\ Doing(p, "read")
    /\ IF identity.exists
       THEN /\ Proceed(p)
            /\ job' = [job EXCEPT ![p].origin = {identity.origin}]
            /\ lock' = lock \ {p}
       ELSE Instead(p, "write") /\ UNCHANGED <<lock, job>>
    /\ UNCHANGED <<root, config, identity, changes, meddled>>

\* ensure reads the identity: it agrees with the project id, or it does not, or there
\* is none and it is written next.
Read(p) ==
    /\ Doing(p, "read")
    /\ IF ~identity.exists
       THEN Instead(p, "write") /\ UNCHANGED <<lock, job>>
       ELSE IF identity.project \in job[p].project
            THEN /\ Proceed(p)
                 /\ job' = [job EXCEPT ![p].origin = {identity.origin}]
                 /\ lock' = lock \ {p}
            ELSE Fail(p, "journal_corrupt") /\ UNCHANGED job
    /\ UNCHANGED <<root, config, identity, changes, meddled>>

\* _write: a temporary file is filled, synced and renamed, or removed again.
WriteIdentity(p) ==
    /\ Doing(p, "write")
    /\ \/ /\ \E project \in job[p].project : identity' = Identity(p, project)
          /\ job' = [job EXCEPT ![p].origin = {p}]
          /\ Proceed(p)
          /\ lock' = lock \ {p}
       \/ Fail(p, "raised") /\ UNCHANGED <<identity, job>>
    /\ UNCHANGED <<root, config, changes, meddled>>

-----------------------------------------------------------------------------
\* The process is killed; its variables are gone, the kernel drops its lock.
Crash(p) ==
    /\ Running(p)
    /\ Fail(p, "killed")
    /\ job' = [job EXCEPT ![p] = NoJob]
    /\ UNCHANGED <<root, config, identity, changes, meddled>>

\* p has looked at reviewctl.toml, goes on with what it saw, and knows no origin yet.
Unsettled(p) ==
    Running(p) /\ job[p].origin = {} /\ (job[p].project # {} \/ Doing(p, "peek"))

\* The user removes reviewctl.toml, edits its project id or brings a file of their own,
\* at any time.  It counts as meddling while some command may still make the first
\* identity out of what it saw before.
ChangeConfig ==
    /\ changes < MaxChanges
    /\ config' \in ({NoConfig} \cup {Config("user", project) : project \in UserIds}) \ {config}
    /\ changes' = changes + 1
    /\ meddled' = (meddled \/ (~identity.exists /\ \E p \in Processes : Unsettled(p)))
    /\ UNCHANGED <<root, identity, lock, steps, job, result>>

Step(p) ==
    \/ Look(p) \/ Peek(p) \/ WriteConfig(p) \/ Load(p) \/ OpenRoot(p) \/ MakeRoot(p)
    \/ Lock(p) \/ Read(p) \/ WriteIdentity(p)

\* Every command was run.
Finished ==
    /\ \A p \in Processes : result[p] # "none"
    /\ UNCHANGED vars

Next ==
    \/ \E p \in Processes : BeginInit(p) \/ BeginOpen(p) \/ Step(p) \/ Crash(p)
    \/ ChangeConfig
    \/ Finished

Spec == Init /\ [][Next]_vars

\* A command that began keeps running, and the lock it waits for is granted when its
\* holder is done.
FairSpec == Spec /\ \A p \in Processes : WF_vars(Step(p))
-----------------------------------------------------------------------------
(* Properties.                                                             *)

StepNames == {"look", "peek", "config", "load", "root", "mkdir", "lock", "read", "write"}

Configs ==
    {NoConfig} \cup {Config(by, project) : by \in Processes \cup {"user"}, project \in Ids}

Identities == {NoIdentity} \cup {Identity(p, project) : p \in Processes, project \in Ids}

Locks == {{}} \cup {{p} : p \in Processes}

Jobs == [init : BOOLEAN, force : BOOLEAN, project : SUBSET Ids, origin : SUBSET Processes]

Diagnostics == {"invalid_request", "config_invalid", "journal_corrupt", "raised", "killed"}

\* Every variable has the type its comment says.
TypeOK ==
    /\ root \in BOOLEAN
    /\ config \in Configs
    /\ identity \in Identities
    /\ lock \in Locks
    /\ steps \in [Processes -> Seq(StepNames)]
    /\ job \in [Processes -> Jobs]
    /\ result \in [Processes -> {"none", "ok"} \cup Diagnostics]
    /\ changes \in 0..MaxChanges
    /\ meddled \in BOOLEAN

\* The identity, once made, never changes and never goes: not by a race of two
\* commands that find none, not by init --force, not by a new reviewctl.toml.
IdentityIsForever == [][identity.exists => identity' = identity]_vars

\* Every command that opened the project goes by the origin of the identity on disk,
\* under the project id of the configuration it had loaded.
OpenedAgree ==
    \A p \in Processes : job[p].origin # {} =>
        /\ identity.exists
        /\ job[p].origin = {identity.origin}
        /\ job[p].project = {identity.project}

\* The configuration that a command wrote names the project of the identity.
FilesAgree ==
    config.exists /\ identity.exists /\ config.by # "user" => config.project = identity.project

\* With one init at a time the configuration and the identity never come to name
\* different projects, which would stop every later command with journal_corrupt: not
\* when init is killed half way, not by --force, not when reviewctl.toml was removed or
\* edited while commands run.  Only what the user writes can do that, and a change to
\* reviewctl.toml while the first identity is being made from what it said before
\* (init_project and from_project read the two files at different times).
StaysUsable == ~meddled => FilesAgree

\* It is p whose step this is.
MadeBy(p) == steps'[p] # steps[p]

\* Init refuses to overwrite an existing configuration unless --force is given.
OverwritesOnlyByForce ==
    [][\A p \in Processes : MadeBy(p) /\ config.exists /\ config' # config => job[p].force]_vars

\* A command that began ends.
EveryCommandEnds == \A p \in Processes : Running(p) ~> result[p] # "none"
=============================================================================
