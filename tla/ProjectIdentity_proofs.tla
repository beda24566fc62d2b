------------------------- MODULE ProjectIdentity_proofs -------------------------
(***************************************************************************)
(* ProjectIdentity for any set of processes: the identity is made once and *)
(* everybody who opened the project goes by it.                            *)
(*                                                                         *)
(* The lock gives mutual exclusion between "read" and "write"; a process   *)
(* at "write" has read, under the lock it still holds, that there is no    *)
(* identity; so the write makes the first one.  That a process that goes   *)
(* by an origin never loads another project id depends on the order of the *)
(* steps it has left, which is what Shape is about.                        *)
(*                                                                         *)
(* With one init at a time the configuration stays usable: whoever is      *)
(* about to write the configuration or the identity knows what the other   *)
(* file says, or that nobody has used it yet (Knows); unless the user      *)
(* meddled.                                                                *)
(***************************************************************************)
EXTENDS ProjectIdentity, TLAPS

\* After a process has read or written the identity, only these are left to it.
AfterIdentity == {"root", "mkdir", "config"}

\* How the steps a process has left are ordered: the identity is read right after the
\* lock is taken, and written only in place of that very step.
Ordered(s) ==
    /\ \A i \in 2..Len(s) :
           /\ s[i] # "write"
           /\ s[i] = "read" => s[i - 1] = "lock"
    /\ \A i \in 1..Len(s), j \in 1..Len(s) :
           i < j /\ s[i] \in {"read", "write"} => s[j] \in AfterIdentity

Shape == \A p \in Processes : Ordered(steps[p])

\* The process at "read" or "write" holds the lock.
HoldsLock == \A p \in Processes : Doing(p, "read") \/ Doing(p, "write") => p \in lock

\* The identity that is about to be written is the first one.
WritesFirst == \A p \in Processes : Doing(p, "write") => ~identity.exists

\* A process goes by one project id, and by no origin before it begins; once it does
\* it looks no more.
Settled ==
    \A p \in Processes :
        /\ Idle(p) => job[p].origin = {}
        /\ job[p].project \in {{}} \cup {{id} : id \in Ids}
        /\ job[p].origin # {} => \A i \in 1..Len(steps[p]) : steps[p][i] \in AfterIdentity

IInv == TypeOK /\ Shape /\ HoldsLock /\ WritesFirst /\ Settled /\ OpenedAgree

-----------------------------------------------------------------------------
(* Sequences of steps.                                                     *)

\* Taking the first step away keeps the order.
LEMMA TailOrdered ==
    ASSUME NEW s \in Seq(StepNames), s # << >>, Ordered(s)
    PROVE  /\ Tail(s) \in Seq(StepNames)
           /\ Ordered(Tail(s))
           /\ Len(Tail(s)) = Len(s) - 1
           /\ \A i \in 1..Len(Tail(s)) : Tail(s)[i] = s[i + 1]
<1>1. /\ Tail(s) \in Seq(StepNames)
      /\ Len(s) \in Nat \ {0}
      /\ Len(Tail(s)) = Len(s) - 1
      /\ \A i \in 1..Len(Tail(s)) : Tail(s)[i] = s[i + 1]
  OBVIOUS
<1>2. ASSUME NEW i \in 2..Len(Tail(s))
      PROVE  Tail(s)[i] # "write" /\ (Tail(s)[i] = "read" => Tail(s)[i - 1] = "lock")
  <2>1. /\ i + 1 \in 2..Len(s) /\ i \in 1..Len(Tail(s)) /\ i - 1 \in 1..Len(Tail(s))
        /\ (i + 1) - 1 = i /\ (i - 1) + 1 = i
    BY <1>1
  <2>2. Tail(s)[i] = s[i + 1] /\ Tail(s)[i - 1] = s[i]
    BY <1>1, <2>1
  <2> QED BY <2>1, <2>2 DEF Ordered
<1>3. ASSUME NEW i \in 1..Len(Tail(s)), NEW j \in 1..Len(Tail(s)), i < j,
             Tail(s)[i] \in {"read", "write"}
      PROVE  Tail(s)[j] \in AfterIdentity
  <2>1. i + 1 \in 1..Len(s) /\ j + 1 \in 1..Len(s) /\ i + 1 < j + 1
    BY <1>1, <1>3
  <2> QED BY <1>1, <1>3, <2>1 DEF Ordered
<1> QED BY <1>1, <1>2, <1>3 DEF Ordered

\* So does putting "write" in the place of "read", or "mkdir" in that of "root".
LEMMA InsteadOrdered ==
    ASSUME NEW s \in Seq(StepNames), s # << >>, Ordered(s), NEW step,
           \/ s[1] = "read" /\ step = "write"
           \/ s[1] = "root" /\ step = "mkdir"
    PROVE  LET t == [s EXCEPT ![1] = step]
           IN  /\ t \in Seq(StepNames) /\ Ordered(t) /\ Len(t) = Len(s) /\ t[1] = step
               /\ \A i \in 2..Len(s) : t[i] = s[i]
<1> DEFINE t == [s EXCEPT ![1] = step]
<1>1. Len(s) \in Nat \ {0} /\ 1 \in 1..Len(s) /\ DOMAIN s = 1..Len(s)
  OBVIOUS
<1>2. step \in StepNames
  BY DEF StepNames
<1>3. t \in Seq(StepNames) /\ Len(t) = Len(s)
  BY <1>1, <1>2
<1>4. t[1] = step /\ \A i \in 2..Len(s) : t[i] = s[i]
  BY <1>1
<1>5. ASSUME NEW i \in 2..Len(t)
      PROVE  t[i] # "write" /\ (t[i] = "read" => t[i - 1] = "lock")
  <2>1. t[i] = s[i] /\ i \in 2..Len(s)
    BY <1>3, <1>4
  <2>2. CASE i = 2
    <3>1. s[1] # "lock" /\ s[2 - 1] = s[1]
      OBVIOUS
    <3> QED BY <2>1, <2>2, <3>1 DEF Ordered
  <2>3. CASE i # 2
    <3>1. i - 1 \in 2..Len(s)
      BY <2>1, <2>3, <1>1
    <3> QED BY <2>1, <3>1, <1>4 DEF Ordered
  <2> QED BY <2>2, <2>3
<1>6. ASSUME NEW i \in 1..Len(t), NEW j \in 1..Len(t), i < j, t[i] \in {"read", "write"}
      PROVE  t[j] \in AfterIdentity
  <2>1. j \in 2..Len(s) /\ t[j] = s[j] /\ i \in 1..Len(s) /\ j \in 1..Len(s)
    BY <1>1, <1>3, <1>4, <1>6
  <2>2. s[i] \in {"read", "write"}
    BY <1>1, <1>3, <1>4, <1>6
  <2> QED BY <1>6, <2>1, <2>2 DEF Ordered
<1> QED BY <1>3, <1>4, <1>5, <1>6 DEF Ordered

\* Nothing but these steps is left after the identity.
LEMMA AfterFirst ==
    ASSUME NEW s \in Seq(StepNames), s # << >>, Ordered(s), s[1] \in {"read", "write"}
    PROVE  \A i \in 1..Len(Tail(s)) : Tail(s)[i] \in AfterIdentity
<1> SUFFICES ASSUME NEW i \in 1..Len(Tail(s)) PROVE Tail(s)[i] \in AfterIdentity
  OBVIOUS
<1>1. 1 \in 1..Len(s) /\ i + 1 \in 1..Len(s) /\ 1 < i + 1 /\ Tail(s)[i] = s[i + 1]
  OBVIOUS
<1> QED BY <1>1 DEF Ordered

\* The three sequences of steps a command may begin with, and what look leads to.
LEMMA PlansOrdered ==
    /\ OpenSteps \in Seq(StepNames) /\ Ordered(OpenSteps)
    /\ InitSteps \in Seq(StepNames) /\ Ordered(InitSteps)
    /\ ForceSteps \in Seq(StepNames) /\ Ordered(ForceSteps)
    /\ <<"look">> \in Seq(StepNames) /\ Ordered(<<"look">>)
    /\ <<"peek">> \in Seq(StepNames) /\ Ordered(<<"peek">>)
    /\ << >> \in Seq(StepNames) /\ Ordered(<< >>)
<1>1. OpenSteps \in Seq(StepNames) /\ Ordered(OpenSteps)
  BY DEF OpenSteps, StepNames, Ordered, AfterIdentity
<1>2. InitSteps \in Seq(StepNames) /\ Ordered(InitSteps)
  BY DEF InitSteps, StepNames, Ordered, AfterIdentity
<1>3. ForceSteps \in Seq(StepNames) /\ Ordered(ForceSteps)
  BY DEF ForceSteps, StepNames, Ordered, AfterIdentity
<1>4. /\ <<"look">> \in Seq(StepNames) /\ Ordered(<<"look">>)
      /\ <<"peek">> \in Seq(StepNames) /\ Ordered(<<"peek">>)
      /\ << >> \in Seq(StepNames) /\ Ordered(<< >>)
  BY DEF StepNames, Ordered, AfterIdentity
<1> QED BY <1>1, <1>2, <1>3, <1>4

-----------------------------------------------------------------------------
(* The invariant.                                                          *)

\* What a step that gives p these steps does to everybody's.
LEMMA NewSteps ==
    ASSUME TypeOK, Shape, NEW p \in Processes,
           NEW rest \in Seq(StepNames), Ordered(rest), Continue(p, rest)
    PROVE  /\ steps' \in [Processes -> Seq(StepNames)] /\ Shape'
           /\ result' \in [Processes -> {"none", "ok"} \cup Diagnostics]
           /\ steps'[p] = rest
           /\ \A q \in Processes \ {p} : steps'[q] = steps[q] /\ result'[q] = result[q]
           /\ rest = << >> => result'[p] = "ok"
BY DEF TypeOK, Shape, Continue

LEMMA Failing ==
    ASSUME TypeOK, Shape, NEW p \in Processes, NEW d \in Diagnostics, Fail(p, d)
    PROVE  /\ steps' \in [Processes -> Seq(StepNames)] /\ Shape'
           /\ result' \in [Processes -> {"none", "ok"} \cup Diagnostics]
           /\ steps'[p] = << >>
           /\ \A q \in Processes \ {p} : steps'[q] = steps[q] /\ result'[q] = result[q]
           /\ lock' = lock \ {p}
           /\ result'[p] = d
BY PlansOrdered DEF TypeOK, Shape, Fail

\* What p does to its local variables: an origin it goes by is that of the identity.
SaneJob(p) ==
    /\ job' \in [Processes -> Jobs]
    /\ \A q \in Processes \ {p} : job'[q] = job[q]
    /\ job'[p].project \in {{}} \cup {{id} : id \in Ids}
    /\ job'[p].origin # {} =>
           /\ identity.exists
           /\ job'[p].origin = {identity.origin}
           /\ job'[p].project = {identity.project}

LEMMA SameJob ==
    ASSUME IInv, NEW p \in Processes, UNCHANGED job
    PROVE  SaneJob(p)
BY DEF IInv, TypeOK, Settled, OpenedAgree, SaneJob

\* Before it has an origin it may take any project id.
LEMMA NewProject ==
    ASSUME IInv, NEW p \in Processes, NEW id \in Ids, job[p].origin = {},
           job' = [job EXCEPT ![p].project = {id}]
    PROVE  SaneJob(p) /\ job'[p].origin = {}
<1>1. job \in [Processes -> Jobs]
  BY DEF IInv, TypeOK
<1>2. job[p] \in Jobs
  BY <1>1
<1>3. [job[p] EXCEPT !.project = {id}] \in Jobs
  BY <1>2 DEF Jobs
<1>4. job'[p] = [job[p] EXCEPT !.project = {id}]
  BY <1>1
<1>5. job' \in [Processes -> Jobs] /\ \A q \in Processes \ {p} : job'[q] = job[q]
  BY <1>1, <1>3
<1>6. job'[p].project = {id} /\ job'[p].origin = {}
  BY <1>2, <1>4 DEF Jobs
<1> QED BY <1>5, <1>6 DEF SaneJob

\* It takes an origin.
LEMMA NewOrigin ==
    ASSUME TypeOK, NEW p \in Processes, NEW o \in Processes,
           job' = [job EXCEPT ![p].origin = {o}]
    PROVE  /\ job' \in [Processes -> Jobs]
           /\ \A q \in Processes \ {p} : job'[q] = job[q]
           /\ job'[p].origin = {o} /\ job'[p].project = job[p].project
<1>1. job \in [Processes -> Jobs]
  BY DEF TypeOK
<1>2. job[p] \in Jobs
  BY <1>1
<1>3. [job[p] EXCEPT !.origin = {o}] \in Jobs
  BY <1>2 DEF Jobs
<1>4. job'[p] = [job[p] EXCEPT !.origin = {o}]
  BY <1>1
<1>5. job' \in [Processes -> Jobs] /\ \A q \in Processes \ {p} : job'[q] = job[q]
  BY <1>1, <1>3
<1>6. job'[p].origin = {o} /\ job'[p].project = job[p].project
  BY <1>2, <1>4 DEF Jobs
<1> QED BY <1>5, <1>6

\* Nobody else loses the lock when p gives it up.
LEMMA Released ==
    ASSUME TypeOK, NEW p \in Processes, lock' = lock \ {p}
    PROVE  lock' \in Locks /\ \A q \in Processes \ {p} : q \in lock => q \in lock'
<1>1. lock = {} \/ \E q \in Processes : lock = {q}
  BY DEF TypeOK, Locks
<1>2. CASE lock = {}
  <2>1. lock' = {}
    BY <1>2
  <2> QED BY <1>2, <2>1 DEF Locks
<1>3. ASSUME NEW q \in Processes, lock = {q}
      PROVE  lock' \in Locks
  <2>1. lock' = {} \/ lock' = {q}
    BY <1>3
  <2> QED BY <2>1 DEF Locks
<1> QED BY <1>1, <1>2, <1>3

\* A step that makes no identity.
LEMMA StepKeeps ==
    ASSUME IInv, NEW p \in Processes, NEW rest \in Seq(StepNames), Ordered(rest),
           Continue(p, rest),
           root' \in BOOLEAN, config' \in Configs,
           lock' \in Locks, \A q \in Processes \ {p} : q \in lock => q \in lock',
           rest # << >> => /\ rest[1] \in {"read", "write"} => p \in lock'
                           /\ rest[1] = "write" => ~identity.exists,
           UNCHANGED <<identity, changes, meddled>>,
           SaneJob(p),
           job'[p].origin # {} => \A i \in 1..Len(rest) : rest[i] \in AfterIdentity
    PROVE  IInv'
<1>1. /\ steps' \in [Processes -> Seq(StepNames)] /\ Shape'
      /\ result' \in [Processes -> {"none", "ok"} \cup Diagnostics]
      /\ steps'[p] = rest
      /\ \A q \in Processes \ {p} : steps'[q] = steps[q] /\ result'[q] = result[q]
      /\ rest = << >> => result'[p] = "ok"
  BY NewSteps DEF IInv
<1>2. TypeOK'
  BY <1>1 DEF IInv, TypeOK, SaneJob
<1>3. \A q \in Processes \ {p} : \A step \in StepNames : Doing(q, step)' <=> Doing(q, step)
  BY <1>1 DEF Doing, Running
<1>4. \A step \in StepNames : Doing(p, step)' => rest # << >> /\ rest[1] = step
  BY <1>1 DEF Doing, Running
<1>5. "read" \in StepNames /\ "write" \in StepNames
  BY DEF StepNames
<1>6. HoldsLock'
  BY <1>3, <1>4, <1>5 DEF IInv, HoldsLock
<1>7. WritesFirst'
  BY <1>3, <1>4, <1>5 DEF IInv, WritesFirst
<1>8. Settled'
  <2>1. ASSUME NEW q \in Processes, q # p
        PROVE  /\ Idle(q)' => job'[q].origin = {}
               /\ job'[q].project \in {{}} \cup {{id} : id \in Ids}
               /\ job'[q].origin # {} => \A i \in 1..Len(steps'[q]) : steps'[q][i] \in AfterIdentity
    BY <1>1, <2>1 DEF IInv, Settled, Idle, SaneJob
  <2>2. /\ Idle(p)' => job'[p].origin = {}
        /\ job'[p].project \in {{}} \cup {{id} : id \in Ids}
        /\ job'[p].origin # {} => \A i \in 1..Len(steps'[p]) : steps'[p][i] \in AfterIdentity
    BY <1>1 DEF Idle, SaneJob
  <2> QED BY <2>1, <2>2 DEF Settled
<1>9. OpenedAgree'
  BY DEF IInv, OpenedAgree, SaneJob
<1> QED BY <1>1, <1>2, <1>6, <1>7, <1>8, <1>9 DEF IInv

\* A process that fails disturbs nothing else.
LEMMA FailKeeps ==
    ASSUME IInv, NEW p \in Processes, NEW d \in Diagnostics,
           Fail(p, d), SaneJob(p),
           root' \in BOOLEAN, config' \in Configs, UNCHANGED <<identity, changes, meddled>>
    PROVE  IInv'
<1>1. /\ steps' \in [Processes -> Seq(StepNames)] /\ Shape'
      /\ result' \in [Processes -> {"none", "ok"} \cup Diagnostics]
      /\ steps'[p] = << >>
      /\ \A q \in Processes \ {p} : steps'[q] = steps[q] /\ result'[q] = result[q]
      /\ lock' = lock \ {p}
      /\ result'[p] = d
  BY Failing DEF IInv
<1>2. lock' \in Locks /\ \A q \in Processes \ {p} : q \in lock => q \in lock'
  BY <1>1, Released DEF IInv
<1>3. TypeOK'
  BY <1>1, <1>2 DEF IInv, TypeOK, SaneJob
<1>4. HoldsLock' /\ WritesFirst'
  BY <1>1, <1>2 DEF IInv, HoldsLock, WritesFirst, Doing, Running
<1>5. Settled'
  <2>1. ASSUME NEW q \in Processes, q # p
        PROVE  /\ Idle(q)' => job'[q].origin = {}
               /\ job'[q].project \in {{}} \cup {{id} : id \in Ids}
               /\ job'[q].origin # {} => \A i \in 1..Len(steps'[q]) : steps'[q][i] \in AfterIdentity
    BY <1>1, <2>1 DEF IInv, Settled, Idle, SaneJob
  <2>2. /\ Idle(p)' => job'[p].origin = {}
        /\ job'[p].project \in {{}} \cup {{id} : id \in Ids}
        /\ job'[p].origin # {} => \A i \in 1..Len(steps'[p]) : steps'[p][i] \in AfterIdentity
    <3>1. d # "none"
      BY DEF Diagnostics
    <3>2. 1..Len(steps'[p]) = {}
      BY <1>1
    <3> QED BY <1>1, <3>1, <3>2 DEF Idle, SaneJob
  <2> QED BY <2>1, <2>2 DEF Settled
<1>6. OpenedAgree'
  BY DEF IInv, OpenedAgree, SaneJob
<1> QED BY <1>1, <1>3, <1>4, <1>5, <1>6 DEF IInv

\* Nobody has begun.
LEMMA InitInv == Init => IInv
<1> SUFFICES ASSUME Init PROVE IInv
  OBVIOUS
<1>1. \A p \in Processes : steps[p] = << >> /\ job[p].origin = {} /\ job[p].project = {}
  BY DEF Init, NoJob
<1>2. TypeOK
  <2>1. steps \in [Processes -> Seq(StepNames)]
    BY PlansOrdered DEF Init
  <2>2. NoJob \in Jobs
    BY DEF NoJob, Jobs
  <2>3. job \in [Processes -> Jobs]
    BY <2>2 DEF Init
  <2>4. lock \in Locks /\ config \in Configs /\ identity \in Identities
    BY DEF Init, Locks, Configs, Identities
  <2>5. root \in BOOLEAN /\ result \in [Processes -> {"none", "ok"} \cup Diagnostics]
    BY DEF Init
  <2>6. changes \in 0..MaxChanges
    BY IdentityAssumption DEF Init
  <2>7. meddled \in BOOLEAN
    BY DEF Init
  <2> QED BY <2>1, <2>3, <2>4, <2>5, <2>6, <2>7 DEF TypeOK
<1>3. Shape /\ HoldsLock /\ WritesFirst
  BY <1>1, PlansOrdered DEF Shape, HoldsLock, WritesFirst, Doing, Running
<1>4. Settled /\ OpenedAgree
  BY <1>1 DEF Settled, OpenedAgree
<1> QED BY <1>2, <1>3, <1>4 DEF IInv

\* The first step goes, and what is left begins with no read and no write unless the
\* step was to take the lock.
LEMMA Proceeding ==
    ASSUME IInv, NEW p \in Processes, Running(p)
    PROVE  /\ steps[p] \in Seq(StepNames) /\ steps[p] # << >> /\ Ordered(steps[p])
           /\ steps[p][1] = Head(steps[p])
           /\ Tail(steps[p]) \in Seq(StepNames) /\ Ordered(Tail(steps[p]))
           /\ Tail(steps[p]) # << >> =>
                  /\ Tail(steps[p])[1] # "write"
                  /\ Head(steps[p]) # "lock" => Tail(steps[p])[1] # "read"
           /\ job[p].origin # {} =>
                  /\ \A i \in 1..Len(Tail(steps[p])) : Tail(steps[p])[i] \in AfterIdentity
                  /\ Head(steps[p]) \in AfterIdentity
<1>1. steps[p] \in Seq(StepNames) /\ steps[p] # << >> /\ Ordered(steps[p])
  BY DEF IInv, TypeOK, Shape, Running
<1>2. /\ Tail(steps[p]) \in Seq(StepNames)
      /\ Ordered(Tail(steps[p]))
      /\ Len(Tail(steps[p])) = Len(steps[p]) - 1
      /\ \A i \in 1..Len(Tail(steps[p])) : Tail(steps[p])[i] = steps[p][i + 1]
  BY <1>1, TailOrdered
<1>3. steps[p][1] = Head(steps[p])
  BY <1>1
<1>4. ASSUME Tail(steps[p]) # << >>
      PROVE  /\ Tail(steps[p])[1] # "write"
             /\ Head(steps[p]) # "lock" => Tail(steps[p])[1] # "read"
  <2>1. 1 \in 1..Len(Tail(steps[p])) /\ 2 \in 2..Len(steps[p])
    BY <1>1, <1>2, <1>4
  <2>2. Tail(steps[p])[1] = steps[p][2] /\ 2 - 1 = 1
    BY <1>2, <2>1
  <2> QED BY <1>1, <1>3, <2>1, <2>2 DEF Ordered
<1>5. ASSUME job[p].origin # {}
      PROVE  /\ \A i \in 1..Len(Tail(steps[p])) : Tail(steps[p])[i] \in AfterIdentity
             /\ Head(steps[p]) \in AfterIdentity
  <2>1. \A i \in 1..Len(steps[p]) : steps[p][i] \in AfterIdentity
    BY <1>5 DEF IInv, Settled
  <2>2. Len(steps[p]) \in Nat \ {0}
    BY <1>1
  <2> QED BY <1>2, <1>3, <2>1, <2>2
<1> QED BY <1>1, <1>2, <1>3, <1>4, <1>5

\* Each action keeps the invariant.
LEMMA BeginInitInv == ASSUME IInv, NEW p \in Processes, BeginInit(p) PROVE IInv'
<1>1. PICK force \in BOOLEAN :
          /\ job' = [job EXCEPT ![p] = [NoJob EXCEPT !.init = TRUE, !.force = force]]
          /\ \/ Fail(p, "invalid_request")
             \/ Continue(p, <<"look">>) /\ UNCHANGED lock
  BY DEF BeginInit
<1>2. UNCHANGED <<root, config, identity, changes, meddled>>
  BY DEF BeginInit
<1>3. SaneJob(p) /\ job'[p].origin = {}
  <2> DEFINE new == [NoJob EXCEPT !.init = TRUE, !.force = force]
  <2>1. new \in Jobs /\ new.origin = {} /\ new.project = {}
    BY DEF NoJob, Jobs
  <2>2. job \in [Processes -> Jobs] /\ job' = [job EXCEPT ![p] = new]
    BY <1>1 DEF IInv, TypeOK
  <2> HIDE DEF new
  <2> QED BY <2>1, <2>2 DEF SaneJob
<1>4. root \in BOOLEAN /\ config \in Configs /\ lock \in Locks
  BY DEF IInv, TypeOK
<1>5. CASE Continue(p, <<"look">>) /\ UNCHANGED lock
  <2>1. <<"look">> # << >> /\ <<"look">>[1] \notin {"read", "write"}
    OBVIOUS
  <2> QED BY <1>2, <1>3, <1>4, <1>5, <2>1, PlansOrdered, StepKeeps
<1>6. CASE Fail(p, "invalid_request")
  BY <1>2, <1>3, <1>4, <1>6, FailKeeps DEF Diagnostics
<1> QED BY <1>1, <1>5, <1>6

LEMMA BeginOpenInv == ASSUME IInv, NEW p \in Processes, BeginOpen(p) PROVE IInv'
<1>1. job[p].origin = {}
  BY DEF BeginOpen, IInv, Settled
<1>2. Continue(p, OpenSteps) /\ UNCHANGED <<root, config, identity, lock, job, changes, meddled>>
  BY DEF BeginOpen
<1>3. OpenSteps[1] \notin {"read", "write"}
  BY DEF OpenSteps
<1>4. root \in BOOLEAN /\ config \in Configs /\ lock \in Locks
  BY DEF IInv, TypeOK
<1> QED BY <1>1, <1>2, <1>3, <1>4, PlansOrdered, SameJob, StepKeeps

LEMMA LookInv == ASSUME IInv, NEW p \in Processes, Look(p) PROVE IInv'
<1>1. Running(p) /\ Head(steps[p]) = "look"
  BY DEF Look, Doing
<1>2. job[p].origin = {}
  BY <1>1, Proceeding DEF AfterIdentity
<1>3. UNCHANGED <<root, config, identity, lock, changes, meddled>>
  BY DEF Look
<1>4. root \in BOOLEAN /\ config \in Configs /\ lock \in Locks
  BY DEF IInv, TypeOK
<1>5. CASE config.exists
  <2>1. config.project \in Ids
    BY <1>4, <1>5 DEF Configs, NoConfig, Config
  <2>2. /\ Continue(p, ForceSteps)
        /\ job' = [job EXCEPT ![p].project = {config.project}]
    BY <1>5 DEF Look
  <2>3. SaneJob(p) /\ job'[p].origin = {}
    BY <1>2, <2>1, <2>2, NewProject
  <2>4. ForceSteps[1] \notin {"read", "write"}
    BY DEF ForceSteps
  <2> QED BY <1>3, <1>4, <2>2, <2>3, <2>4, PlansOrdered, StepKeeps
<1>6. CASE ~config.exists
  <2>1. Continue(p, <<"peek">>) /\ UNCHANGED job
    BY <1>6 DEF Look
  <2>2. <<"peek">> # << >> /\ <<"peek">>[1] \notin {"read", "write"}
    OBVIOUS
  <2> QED BY <1>2, <1>3, <1>4, <2>1, <2>2, PlansOrdered, SameJob, StepKeeps
<1> QED BY <1>5, <1>6

LEMMA PeekInv == ASSUME IInv, NEW p \in Processes, Peek(p) PROVE IInv'
<1>1. Running(p) /\ Head(steps[p]) = "peek"
  BY DEF Peek, Doing
<1>2. job[p].origin = {}
  BY <1>1, Proceeding DEF AfterIdentity
<1>3. identity.exists => identity.project \in Ids
  BY DEF IInv, TypeOK, Identities, NoIdentity, Identity
<1>4. PICK id \in Ids : job' = [job EXCEPT ![p].project = {id}]
  BY <1>3 DEF Peek, Ids
<1>5. SaneJob(p) /\ job'[p].origin = {}
  BY <1>2, <1>4, NewProject
<1>6. Continue(p, InitSteps) /\ UNCHANGED <<root, config, identity, lock, changes, meddled>>
  BY DEF Peek
<1>7. InitSteps[1] \notin {"read", "write"}
  BY DEF InitSteps
<1>8. root \in BOOLEAN /\ config \in Configs /\ lock \in Locks
  BY DEF IInv, TypeOK
<1> QED BY <1>5, <1>6, <1>7, <1>8, PlansOrdered, StepKeeps

\* A step other than taking the lock that goes on to the next.
LEMMA ProceedKeeps ==
    ASSUME IInv, NEW p \in Processes, Running(p), Head(steps[p]) # "lock", Proceed(p),
           root' \in BOOLEAN, config' \in Configs,
           lock' \in Locks, \A q \in Processes \ {p} : q \in lock => q \in lock',
           UNCHANGED <<identity, changes, meddled>>,
           SaneJob(p),
           job'[p].origin # {} =>
               \A i \in 1..Len(Tail(steps[p])) : Tail(steps[p])[i] \in AfterIdentity
    PROVE  IInv'
<1> DEFINE rest == Tail(steps[p])
<1>1. /\ rest \in Seq(StepNames) /\ Ordered(rest)
      /\ rest # << >> => rest[1] \notin {"read", "write"}
  BY Proceeding
<1>2. Continue(p, rest)
  BY DEF Proceed
<1>3. job'[p].origin # {} => \A i \in 1..Len(rest) : rest[i] \in AfterIdentity
  OBVIOUS
<1> HIDE DEF rest
<1> QED BY <1>1, <1>2, <1>3, StepKeeps

LEMMA WriteConfigInv == ASSUME IInv, NEW p \in Processes, WriteConfig(p) PROVE IInv'
<1>1. Running(p) /\ Head(steps[p]) = "config"
  BY DEF WriteConfig, Doing
<1>2. UNCHANGED <<root, identity, job, changes, meddled>>
  BY DEF WriteConfig
<1>3. root \in BOOLEAN /\ config \in Configs /\ lock \in Locks /\ job[p].project \subseteq Ids
  BY DEF IInv, TypeOK, Jobs
<1>4. SaneJob(p)
  BY <1>2, SameJob
<1>5. CASE \E project \in job[p].project : /\ config' = Config(p, project)
                                           /\ Proceed(p) /\ UNCHANGED lock
  <2>1. config' \in Configs
    BY <1>3, <1>5 DEF Configs, Ids
  <2> QED BY <1>1, <1>2, <1>3, <1>4, <1>5, <2>1, Proceeding, ProceedKeeps
<1>6. CASE Fail(p, "raised") /\ UNCHANGED config
  BY <1>2, <1>3, <1>4, <1>6, FailKeeps DEF Diagnostics
<1> QED BY <1>5, <1>6 DEF WriteConfig

LEMMA LoadInv == ASSUME IInv, NEW p \in Processes, Load(p) PROVE IInv'
<1>1. Running(p) /\ Head(steps[p]) = "load"
  BY DEF Load, Doing
<1>2. job[p].origin = {}
  BY <1>1, Proceeding DEF AfterIdentity
<1>3. UNCHANGED <<root, config, identity, changes, meddled>>
  BY DEF Load
<1>4. root \in BOOLEAN /\ config \in Configs /\ lock \in Locks
  BY DEF IInv, TypeOK
<1>5. CASE config.exists
  <2>1. config.project \in Ids
    BY <1>4, <1>5 DEF Configs, NoConfig, Config
  <2>2. /\ Proceed(p) /\ UNCHANGED lock
        /\ job' = [job EXCEPT ![p].project = {config.project}]
    BY <1>5 DEF Load
  <2>3. SaneJob(p) /\ job'[p].origin = {}
    BY <1>2, <2>1, <2>2, NewProject
  <2> QED BY <1>1, <1>3, <1>4, <2>2, <2>3, ProceedKeeps
<1>6. CASE ~config.exists
  <2>1. Fail(p, "config_invalid") /\ UNCHANGED job
    BY <1>6 DEF Load
  <2> QED BY <1>3, <1>4, <2>1, SameJob, FailKeeps DEF Diagnostics
<1> QED BY <1>5, <1>6

LEMMA OpenRootInv == ASSUME IInv, NEW p \in Processes, OpenRoot(p) PROVE IInv'
<1>1. Running(p) /\ Head(steps[p]) = "root"
  BY DEF OpenRoot, Doing
<1>2. UNCHANGED <<root, config, identity, lock, job, changes, meddled>>
  BY DEF OpenRoot
<1>3. root \in BOOLEAN /\ config \in Configs /\ lock \in Locks
  BY DEF IInv, TypeOK
<1>4. SaneJob(p)
  BY <1>2, SameJob
<1>5. CASE root
  <2>1. Proceed(p)
    BY <1>5 DEF OpenRoot
  <2> QED BY <1>1, <1>2, <1>3, <1>4, <2>1, Proceeding, ProceedKeeps
<1>6. CASE ~root
  <2> DEFINE rest == [steps[p] EXCEPT ![1] = "mkdir"]
  <2>1. Continue(p, rest)
    BY <1>6 DEF OpenRoot, Instead
  <2>2. /\ rest \in Seq(StepNames) /\ Ordered(rest) /\ Len(rest) = Len(steps[p])
        /\ rest[1] = "mkdir"
        /\ \A i \in 2..Len(steps[p]) : rest[i] = steps[p][i]
    <3>1. /\ steps[p] \in Seq(StepNames) /\ steps[p] # << >> /\ Ordered(steps[p])
          /\ steps[p][1] = "root"
      BY <1>1, Proceeding
    <3> QED BY <3>1, InsteadOrdered
  <2>3. job[p].origin # {} => \A i \in 1..Len(steps[p]) : steps[p][i] \in AfterIdentity
    BY DEF IInv, Settled
  <2>4. Len(steps[p]) \in Nat
    BY <1>1, Proceeding
  <2> HIDE DEF rest
  <2>5. job[p].origin # {} => \A i \in 1..Len(rest) : rest[i] \in AfterIdentity
    <3> SUFFICES ASSUME job[p].origin # {}, NEW i \in 1..Len(rest)
                 PROVE  rest[i] \in AfterIdentity
      OBVIOUS
    <3>1. CASE i = 1
      BY <2>2, <3>1 DEF AfterIdentity
    <3>2. CASE i # 1
      BY <2>2, <2>3, <2>4, <3>2
    <3> QED BY <3>1, <3>2
  <2> QED BY <1>2, <1>3, <1>4, <2>1, <2>2, <2>5, StepKeeps
<1> QED BY <1>5, <1>6

LEMMA MakeRootInv == ASSUME IInv, NEW p \in Processes, MakeRoot(p) PROVE IInv'
<1>1. Running(p) /\ Head(steps[p]) = "mkdir"
  BY DEF MakeRoot, Doing
<1>2. root' = TRUE /\ UNCHANGED <<config, identity, job, changes, meddled>>
  BY DEF MakeRoot
<1>3. config \in Configs /\ lock \in Locks
  BY DEF IInv, TypeOK
<1>4. SaneJob(p)
  BY <1>2, SameJob
<1>5. CASE Fail(p, "journal_corrupt")
  BY <1>2, <1>3, <1>4, <1>5, FailKeeps DEF Diagnostics
<1>6. CASE Proceed(p) /\ UNCHANGED lock
  BY <1>1, <1>2, <1>3, <1>4, <1>6, Proceeding, ProceedKeeps
<1> QED BY <1>5, <1>6 DEF MakeRoot

LEMMA LockInv == ASSUME IInv, NEW p \in Processes, Lock(p) PROVE IInv'
<1> DEFINE rest == Tail(steps[p])
<1>1. Running(p) /\ Head(steps[p]) = "lock"
  BY DEF Lock, Doing
<1>2. UNCHANGED <<root, config, identity, job, changes, meddled>> /\ lock = {} /\ lock' = {p}
  BY DEF Lock
<1>3. job[p].origin = {}
  BY <1>1, Proceeding DEF AfterIdentity
<1>4. /\ rest \in Seq(StepNames) /\ Ordered(rest)
      /\ rest # << >> => rest[1] # "write"
  BY <1>1, Proceeding
<1>5. Continue(p, rest)
  BY DEF Lock, Proceed
<1>6. root \in BOOLEAN /\ config \in Configs /\ lock' \in Locks
  BY <1>2 DEF IInv, TypeOK, Locks
<1> HIDE DEF rest
<1> QED BY <1>2, <1>3, <1>4, <1>5, <1>6, SameJob, StepKeeps

LEMMA ReadInv == ASSUME IInv, NEW p \in Processes, Read(p) PROVE IInv'
<1>1. Running(p) /\ Head(steps[p]) = "read" /\ Doing(p, "read")
  BY DEF Read, Doing
<1>2. p \in lock
  BY <1>1 DEF IInv, HoldsLock
<1>3. job[p].origin = {}
  BY <1>1, Proceeding DEF AfterIdentity
<1>4. UNCHANGED <<root, config, identity, changes, meddled>>
  BY DEF Read
<1>5. root \in BOOLEAN /\ config \in Configs /\ lock \in Locks
  BY DEF IInv, TypeOK
<1>6. CASE ~identity.exists
  <2> DEFINE rest == [steps[p] EXCEPT ![1] = "write"]
  <2>1. Continue(p, rest) /\ UNCHANGED <<lock, job>>
    BY <1>6 DEF Read, Instead
  <2>2. rest \in Seq(StepNames) /\ Ordered(rest) /\ rest[1] = "write"
    BY <1>1, Proceeding, InsteadOrdered
  <2> HIDE DEF rest
  <2> QED BY <1>2, <1>3, <1>4, <1>5, <1>6, <2>1, <2>2, SameJob, StepKeeps
<1>7. CASE identity.exists /\ identity.project \in job[p].project
  <2>1. /\ Proceed(p)
        /\ job' = [job EXCEPT ![p].origin = {identity.origin}]
        /\ lock' = lock \ {p}
    BY <1>7 DEF Read
  <2>2. identity.origin \in Processes
    BY <1>7 DEF IInv, TypeOK, Identities, NoIdentity, Identity
  <2>3. /\ job' \in [Processes -> Jobs]
        /\ \A q \in Processes \ {p} : job'[q] = job[q]
        /\ job'[p].origin = {identity.origin} /\ job'[p].project = job[p].project
    BY <2>1, <2>2, NewOrigin DEF IInv
  <2>4. /\ job[p].project \in {{}} \cup {{id} : id \in Ids}
        /\ job[p].project = {identity.project}
    BY <1>7 DEF IInv, Settled
  <2>5. SaneJob(p)
    BY <1>7, <2>3, <2>4 DEF SaneJob
  <2>6. \A i \in 1..Len(Tail(steps[p])) : Tail(steps[p])[i] \in AfterIdentity
    BY <1>1, Proceeding, AfterFirst
  <2>7. lock' \in Locks /\ \A q \in Processes \ {p} : q \in lock => q \in lock'
    BY <2>1, Released DEF IInv
  <2> QED BY <1>1, <1>4, <1>5, <2>1, <2>5, <2>6, <2>7, ProceedKeeps
<1>8. CASE identity.exists /\ identity.project \notin job[p].project
  <2>1. Fail(p, "journal_corrupt") /\ UNCHANGED job
    BY <1>8 DEF Read
  <2> QED BY <1>4, <1>5, <2>1, SameJob, FailKeeps DEF Diagnostics
<1> QED BY <1>6, <1>7, <1>8

\* Whoever writes the identity is alone at it, and there was none: nobody goes by an
\* origin yet.
LEMMA WriteIdentityInv == ASSUME IInv, NEW p \in Processes, WriteIdentity(p) PROVE IInv'
<1> DEFINE rest == Tail(steps[p])
<1>1. Running(p) /\ Head(steps[p]) = "write" /\ Doing(p, "write")
  BY DEF WriteIdentity, Doing
<1>2. lock = {p} /\ ~identity.exists
  BY <1>1 DEF IInv, TypeOK, Locks, HoldsLock, WritesFirst
<1>3. UNCHANGED <<root, config, changes, meddled>>
  BY DEF WriteIdentity
<1>4. CASE Fail(p, "raised") /\ UNCHANGED <<identity, job>>
  BY <1>3, <1>4, SameJob, FailKeeps DEF Diagnostics, IInv, TypeOK
<1>5. ASSUME NEW project \in job[p].project, identity' = Identity(p, project),
             job' = [job EXCEPT ![p].origin = {p}], Proceed(p), lock' = lock \ {p}
      PROVE  IInv'
  <2>1. /\ rest \in Seq(StepNames) /\ Ordered(rest)
        /\ rest # << >> => rest[1] # "write" /\ rest[1] # "read"
        /\ \A i \in 1..Len(rest) : rest[i] \in AfterIdentity
    BY <1>1, Proceeding, AfterFirst
  <2>2. Continue(p, rest)
    BY <1>5 DEF Proceed
  <2> HIDE DEF rest
  <2>3. /\ steps' \in [Processes -> Seq(StepNames)] /\ Shape'
        /\ result' \in [Processes -> {"none", "ok"} \cup Diagnostics]
        /\ steps'[p] = rest
        /\ \A q \in Processes \ {p} : steps'[q] = steps[q] /\ result'[q] = result[q]
        /\ rest = << >> => result'[p] = "ok"
    BY <2>1, <2>2, NewSteps DEF IInv
  <2>4. /\ job' \in [Processes -> Jobs]
        /\ \A q \in Processes \ {p} : job'[q] = job[q]
        /\ job'[p].origin = {p} /\ job'[p].project = job[p].project
    BY <1>5, NewOrigin DEF IInv
  <2>5. /\ job[p].project \in {{}} \cup {{id} : id \in Ids}
        /\ job[p].project = {project} /\ project \in Ids
    BY <1>5 DEF IInv, Settled
  <2>6. identity'.exists /\ identity'.origin = p /\ identity'.project = project
    BY <1>5 DEF Identity
  <2>7. \A q \in Processes \ {p} : job[q].origin = {}
    BY <1>2 DEF IInv, OpenedAgree
  <2>8. TypeOK'
    <3>1. lock' = {}
      BY <1>2, <1>5
    <3>2. lock' \in Locks /\ identity' \in Identities
      BY <1>5, <2>5, <3>1 DEF Locks, Identities
    <3> QED BY <1>3, <2>3, <2>4, <3>2 DEF IInv, TypeOK
  <2>9. \A q \in Processes : ~Doing(q, "read")' /\ ~Doing(q, "write")'
    <3>1. \A q \in Processes \ {p} : ~Doing(q, "read") /\ ~Doing(q, "write")
      BY <1>2 DEF IInv, HoldsLock
    <3>2. ASSUME NEW q \in Processes, q # p
          PROVE  ~Doing(q, "read")' /\ ~Doing(q, "write")'
      BY <2>3, <3>1, <3>2 DEF Doing, Running
    <3>3. ~Doing(p, "read")' /\ ~Doing(p, "write")'
      BY <2>1, <2>3 DEF Doing, Running
    <3> QED BY <3>2, <3>3
  <2>10. HoldsLock' /\ WritesFirst'
    BY <2>9 DEF HoldsLock, WritesFirst
  <2>11. Settled'
    <3>1. ASSUME NEW q \in Processes, q # p
          PROVE  /\ Idle(q)' => job'[q].origin = {}
                 /\ job'[q].project \in {{}} \cup {{id} : id \in Ids}
                 /\ job'[q].origin # {} =>
                        \A i \in 1..Len(steps'[q]) : steps'[q][i] \in AfterIdentity
      BY <2>4, <2>7, <3>1 DEF IInv, Settled
    <3>2. /\ Idle(p)' => job'[p].origin = {}
          /\ job'[p].project \in {{}} \cup {{id} : id \in Ids}
          /\ job'[p].origin # {} => \A i \in 1..Len(steps'[p]) : steps'[p][i] \in AfterIdentity
      BY <2>1, <2>3, <2>4, <2>5 DEF Idle
    <3> QED BY <3>1, <3>2 DEF Settled
  <2>12. OpenedAgree'
    BY <2>4, <2>5, <2>6, <2>7 DEF OpenedAgree
  <2> QED BY <2>3, <2>8, <2>10, <2>11, <2>12 DEF IInv
<1> QED BY <1>4, <1>5 DEF WriteIdentity

LEMMA ChangeConfigInv == IInv /\ ChangeConfig => IInv'
<1> SUFFICES ASSUME IInv, ChangeConfig PROVE IInv'
  OBVIOUS
<1>1. UNCHANGED <<root, identity, lock, steps, job, result>>
  BY DEF ChangeConfig
<1>2. config' \in Configs
  BY DEF ChangeConfig, Configs, Ids
<1>3. changes' \in 0..MaxChanges /\ meddled' \in BOOLEAN
  BY IdentityAssumption DEF ChangeConfig, IInv, TypeOK
<1>4. TypeOK'
  BY <1>1, <1>2, <1>3 DEF IInv, TypeOK
<1>5. Shape' /\ HoldsLock' /\ WritesFirst' /\ Settled' /\ OpenedAgree'
  BY <1>1 DEF IInv, Shape, HoldsLock, WritesFirst, Settled, OpenedAgree, Idle, Doing, Running
<1> QED BY <1>4, <1>5 DEF IInv

LEMMA CrashInv == ASSUME IInv, NEW p \in Processes, Crash(p) PROVE IInv'
<1>1. Fail(p, "killed") /\ UNCHANGED <<root, config, identity, changes, meddled>>
  BY DEF Crash
<1>2. root \in BOOLEAN /\ config \in Configs
  BY DEF IInv, TypeOK
<1>3. SaneJob(p)
  <2>1. NoJob \in Jobs /\ NoJob.origin = {} /\ NoJob.project = {}
    BY DEF NoJob, Jobs
  <2>2. /\ job' \in [Processes -> Jobs] /\ job'[p] = NoJob
        /\ \A q \in Processes \ {p} : job'[q] = job[q]
    BY <2>1 DEF Crash, IInv, TypeOK
  <2> QED BY <2>1, <2>2 DEF SaneJob
<1> QED BY <1>1, <1>2, <1>3, FailKeeps DEF Diagnostics

LEMMA NextInv == IInv /\ [Next]_vars => IInv'
<1> SUFFICES ASSUME IInv, [Next]_vars PROVE IInv'
  OBVIOUS
<1>1. ASSUME NEW p \in Processes, Step(p)
      PROVE  IInv'
  BY <1>1, LookInv, PeekInv, WriteConfigInv, LoadInv, OpenRootInv, MakeRootInv, LockInv, ReadInv,
     WriteIdentityInv DEF Step
<1>2. ASSUME NEW p \in Processes, BeginInit(p) \/ BeginOpen(p) \/ Crash(p)
      PROVE  IInv'
  BY <1>2, BeginInitInv, BeginOpenInv, CrashInv
<1>3. CASE UNCHANGED vars
  BY <1>3 DEF vars, IInv, TypeOK, Shape, HoldsLock, WritesFirst, Settled, OpenedAgree, Idle,
              Doing, Running
<1> QED BY <1>1, <1>2, <1>3, ChangeConfigInv DEF Next, Finished

-----------------------------------------------------------------------------
(* The theorems.                                                           *)

\* The inductive invariant holds in every behaviour (identity.py and init_project).
THEOREM Invariance == Spec => []IInv
BY InitInv, NextInv, PTL DEF Spec

\* The variables keep their types, the step sequences included.
THEOREM TypeCorrectness == Spec => []TypeOK
<1>1. IInv => TypeOK
  BY DEF IInv
<1> QED BY <1>1, Invariance, PTL

\* Every command that opened the project goes by the one identity on disk, and had
\* loaded a configuration of that project (ensure, identity.py:156-188).
THEOREM EverybodyAgrees == Spec => []OpenedAgree
<1>1. IInv => OpenedAgree
  BY DEF IInv
<1> QED BY <1>1, Invariance, PTL

\* Only WriteIdentity changes the identity, and it does so only when there is none.
THEOREM MadeOnce == Spec => IdentityIsForever
<1>1. IInv /\ [Next]_vars => (identity.exists => identity' = identity)
  <2> SUFFICES ASSUME IInv, [Next]_vars, identity.exists PROVE identity' = identity
    OBVIOUS
  <2>1. ASSUME NEW p \in Processes, WriteIdentity(p)
        PROVE  identity' = identity
    <3>1. Doing(p, "write")
      BY <2>1 DEF WriteIdentity
    <3> QED BY <3>1 DEF IInv, WritesFirst
  <2>2. ASSUME NEW p \in Processes, Step(p), ~WriteIdentity(p)
        PROVE  identity' = identity
    BY <2>2 DEF Step, Look, Peek, WriteConfig, Load, OpenRoot, MakeRoot, Lock, Read
  <2>3. ASSUME NEW p \in Processes, BeginInit(p) \/ BeginOpen(p) \/ Crash(p)
        PROVE  identity' = identity
    BY <2>3 DEF BeginInit, BeginOpen, Crash
  <2>4. CASE ChangeConfig
    BY <2>4 DEF ChangeConfig
  <2>5. CASE UNCHANGED vars
    BY <2>5 DEF vars
  <2> QED BY <2>1, <2>2, <2>3, <2>4, <2>5 DEF Next, Finished
<1>2. IInv /\ [Next]_vars => [identity.exists => identity' = identity]_vars
  BY <1>1
<1> QED BY <1>2, Invariance, PTL DEF Spec, IdentityIsForever

-----------------------------------------------------------------------------
(* One init at a time: configuration and identity name the same project.   *)

Left(s) == {s[i] : i \in 1..Len(s)}

\* Only init does these.
OfInit(s) == Left(s) \cap {"look", "peek", "config"} # {}

\* init is going to write the configuration it found missing.
Early(s) == "peek" \in Left(s) \/ ("config" \in Left(s) /\ "load" \in Left(s))

\* The configuration is loaded, the identity not yet read.
Loaded(s) == Left(s) \cap {"read", "write"} # {} /\ "load" \notin Left(s)

\* init looks first of all; it writes the configuration once, before the project is
\* loaded or as the last thing.
InOrder(s) ==
    \A i, j \in 1..Len(s) : i < j =>
        /\ s[j] \notin {"look", "peek"}
        /\ s[i] = "load" => s[j] # "config"
        /\ s[i] = "config" =>
               /\ s[j] # "config"
               /\ \E k \in 1..Len(s) : i < k /\ s[k] = "load"

\* What a command with the steps s and the variables j knows of the files.
Knows(s, j, cfg, made) ==
    /\ InOrder(s)
    /\ OfInit(s) => j.init
    /\ Early(s) /\ "peek" \notin Left(s) => j.project # {}
    /\ Early(s) /\ ~made.exists => ~cfg.exists
    /\ Early(s) /\ "peek" \notin Left(s) /\ made.exists => j.project = {made.project}
    /\ Loaded(s) /\ ~made.exists => cfg.exists /\ j.project = {cfg.project}
    /\ "config" \in Left(s) /\ ~Early(s) /\ ~Loaded(s) => j.origin # {}

\* Only one command is an init that is not done with the configuration.
OneOwner == \A p, q \in Processes : OfInit(steps[p]) /\ OfInit(steps[q]) => p = q

Usable ==
    /\ \A p \in Processes : Knows(steps[p], job[p], config, identity)
    /\ OneOwner
    /\ FilesAgree

\* The first step and what follows it.
LEMMA Unfold ==
    ASSUME NEW s \in Seq(StepNames), s # << >>, InOrder(s)
    PROVE  /\ Left(s) = {s[1]} \cup Left(Tail(s)) /\ s[1] = Head(s)
           /\ Tail(s) \in Seq(StepNames) /\ InOrder(Tail(s))
           /\ Left(Tail(s)) \cap {"look", "peek"} = {}
           /\ s[1] = "load" => "config" \notin Left(Tail(s))
           /\ s[1] = "config" =>
                  /\ "config" \notin Left(Tail(s))
                  /\ Left(Tail(s)) = {} \/ "load" \in Left(Tail(s))
<1> DEFINE t == Tail(s)
<1>1. /\ t \in Seq(StepNames) /\ Len(s) \in Nat \ {0} /\ Len(t) = Len(s) - 1
      /\ \A i \in 1..Len(t) : t[i] = s[i + 1] /\ i + 1 \in 1..Len(s) /\ 1 < i + 1
      /\ s[1] = Head(s) /\ 1 \in 1..Len(s)
      /\ \A i \in 1..Len(s) : i # 1 => i - 1 \in 1..Len(t) /\ t[i - 1] = s[i]
  OBVIOUS
<1> HIDE DEF t
<1>2. Left(s) = {s[1]} \cup Left(t)
  BY <1>1 DEF Left
<1>3. \A x \in Left(t) : \E j \in 1..Len(s) : 1 < j /\ x = s[j]
  BY <1>1 DEF Left
<1>4. ASSUME NEW i \in 1..Len(t), NEW j \in 1..Len(t), i < j
      PROVE  /\ t[j] \notin {"look", "peek"}
             /\ t[i] = "load" => t[j] # "config"
             /\ t[i] = "config" =>
                    /\ t[j] # "config"
                    /\ \E k \in 1..Len(t) : i < k /\ t[k] = "load"
  <2>1. /\ i + 1 \in 1..Len(s) /\ j + 1 \in 1..Len(s) /\ i + 1 < j + 1
        /\ t[i] = s[i + 1] /\ t[j] = s[j + 1]
    BY <1>1, <1>4
  <2>2. /\ s[j + 1] \notin {"look", "peek"}
        /\ s[i + 1] = "load" => s[j + 1] # "config"
        /\ s[i + 1] = "config" =>
               /\ s[j + 1] # "config"
               /\ \E k \in 1..Len(s) : i + 1 < k /\ s[k] = "load"
    BY <2>1 DEF InOrder
  <2>3. ASSUME NEW k \in 1..Len(s), i + 1 < k, s[k] = "load"
        PROVE  \E l \in 1..Len(t) : i < l /\ t[l] = "load"
    <3>1. k - 1 \in 1..Len(t) /\ t[k - 1] = "load" /\ i < k - 1
      BY <1>1, <2>3
    <3> QED BY <3>1
  <2> QED BY <2>1, <2>2, <2>3
<1>5. InOrder(t)
  BY <1>4 DEF InOrder
<1>6. Left(t) \cap {"look", "peek"} = {} /\ (s[1] = "load" => "config" \notin Left(t))
  BY <1>1, <1>3 DEF InOrder
<1>7. ASSUME s[1] = "config"
      PROVE  "config" \notin Left(t) /\ (Left(t) = {} \/ "load" \in Left(t))
  <2>1. "config" \notin Left(t)
    BY <1>1, <1>3, <1>7 DEF InOrder
  <2>2. ASSUME NEW x \in Left(t)
        PROVE  "load" \in Left(t)
    <3>1. PICK k \in 1..Len(s) : 1 < k /\ s[k] = "load"
      BY <1>1, <1>3, <1>7, <2>2 DEF InOrder
    <3>2. k - 1 \in 1..Len(t) /\ t[k - 1] = "load"
      BY <1>1, <3>1
    <3> QED BY <3>2 DEF Left
  <2> QED BY <2>1, <2>2
<1> QED BY <1>1, <1>2, <1>5, <1>6, <1>7 DEF t

\* "write" in the place of "read", or "mkdir" in that of "root".
LEMMA InsteadInOrder ==
    ASSUME NEW s \in Seq(StepNames), s # << >>, Ordered(s), InOrder(s), NEW step,
           \/ s[1] = "read" /\ step = "write"
           \/ s[1] = "root" /\ step = "mkdir"
    PROVE  LET t == [s EXCEPT ![1] = step]
           IN  InOrder(t) /\ Left(t) = {step} \cup Left(Tail(s))
<1> DEFINE t == [s EXCEPT ![1] = step]
<1>1. /\ t \in Seq(StepNames) /\ Len(t) = Len(s) /\ t[1] = step
      /\ \A i \in 2..Len(s) : t[i] = s[i]
  BY InsteadOrdered
<1>2. /\ Len(s) \in Nat \ {0} /\ Tail(s) \in Seq(StepNames) /\ Len(Tail(s)) = Len(s) - 1
      /\ \A i \in 1..Len(Tail(s)) : Tail(s)[i] = s[i + 1] /\ i + 1 \in 2..Len(s)
      /\ \A i \in 2..Len(s) : i - 1 \in 1..Len(Tail(s)) /\ Tail(s)[i - 1] = s[i]
  OBVIOUS
<1> HIDE DEF t
<1>3. \A i \in 1..Len(s) : i = 1 \/ i \in 2..Len(s)
  BY <1>2
<1>4. Left(t) = {step} \cup Left(Tail(s))
  <2>1. ASSUME NEW i \in 1..Len(t)
        PROVE  t[i] \in {step} \cup Left(Tail(s))
    <3>1. CASE i = 1
      BY <1>1, <3>1
    <3>2. CASE i # 1
      <4>1. i \in 2..Len(s) /\ i - 1 \in 1..Len(Tail(s)) /\ Tail(s)[i - 1] = t[i]
        BY <1>1, <1>2, <1>3, <3>2
      <4> QED BY <4>1 DEF Left
    <3> QED BY <3>1, <3>2
  <2>2. ASSUME NEW i \in 1..Len(Tail(s))
        PROVE  Tail(s)[i] \in Left(t)
    <3>1. i + 1 \in 1..Len(t) /\ t[i + 1] = Tail(s)[i]
      BY <1>1, <1>2
    <3> QED BY <3>1 DEF Left
  <2>3. step \in Left(t)
    <3>1. 1 \in 1..Len(t) /\ t[1] = step
      BY <1>1, <1>2
    <3> QED BY <3>1 DEF Left
  <2> QED BY <2>1, <2>2, <2>3 DEF Left
<1>5. ASSUME NEW i \in 1..Len(t), NEW j \in 1..Len(t), i < j
      PROVE  /\ t[j] \notin {"look", "peek"}
             /\ t[i] = "load" => t[j] # "config"
             /\ t[i] = "config" =>
                    /\ t[j] # "config"
                    /\ \E k \in 1..Len(t) : i < k /\ t[k] = "load"
  <2>1. i \in 1..Len(s) /\ j \in 1..Len(s) /\ j \in 2..Len(s) /\ t[j] = s[j]
    BY <1>1, <1>2, <1>5
  <2>2. CASE i = 1
    BY <1>1, <1>5, <2>1, <2>2 DEF InOrder
  <2>3. CASE i # 1
    <3>1. t[i] = s[i]
      BY <1>1, <1>3, <2>1, <2>3
    <3>2. \A k \in 1..Len(s) : i < k => k \in 2..Len(s) /\ t[k] = s[k]
      BY <1>1, <1>2, <2>1
    <3> QED BY <1>1, <1>5, <2>1, <3>1, <3>2 DEF InOrder
  <2> QED BY <2>2, <2>3
<1> QED BY <1>4, <1>5 DEF InOrder, t

\* What a command may begin with, and what look and peek lead to.
LEMMA PlansInOrder ==
    /\ InOrder(OpenSteps) /\ Left(OpenSteps) = {"load", "root", "lock", "read"}
    /\ InOrder(InitSteps) /\ Left(InitSteps) = {"root", "config", "load", "lock", "read"}
    /\ InOrder(ForceSteps) /\ Left(ForceSteps) = {"root", "lock", "read", "config"}
    /\ InOrder(<<"look">>) /\ Left(<<"look">>) = {"look"}
    /\ InOrder(<<"peek">>) /\ Left(<<"peek">>) = {"peek"}
    /\ InOrder(<< >>) /\ Left(<< >>) = {}
<1>1. InOrder(OpenSteps) /\ Left(OpenSteps) = {"load", "root", "lock", "read"}
  BY DEF OpenSteps, InOrder, Left
<1>2. InOrder(InitSteps)
  <2>1. \A i \in 1..6 : InitSteps[i] = "config" => i = 2
    BY DEF InitSteps
  <2>2. InitSteps[3] = "load" /\ Len(InitSteps) = 6
    BY DEF InitSteps
  <2>3. \A i \in 1..6 : InitSteps[i] = "load" => i = 3
    BY DEF InitSteps
  <2>4. \A i \in 1..6 : InitSteps[i] \notin {"look", "peek"}
    BY DEF InitSteps
  <2> QED BY <2>1, <2>2, <2>3, <2>4 DEF InOrder
<1>3. Left(InitSteps) = {"root", "config", "load", "lock", "read"}
  BY DEF InitSteps, Left
<1>4. InOrder(ForceSteps)
  <2>1. \A i \in 1..5 : ForceSteps[i] = "config" => i = 5
    BY DEF ForceSteps
  <2>2. \A i \in 1..5 : ForceSteps[i] \notin {"look", "peek", "load"}
    BY DEF ForceSteps
  <2>3. Len(ForceSteps) = 5
    BY DEF ForceSteps
  <2> QED BY <2>1, <2>2, <2>3 DEF InOrder
<1>5. Left(ForceSteps) = {"root", "lock", "read", "config"}
  BY DEF ForceSteps, Left
<1>6. /\ InOrder(<<"look">>) /\ Left(<<"look">>) = {"look"}
      /\ InOrder(<<"peek">>) /\ Left(<<"peek">>) = {"peek"}
      /\ InOrder(<< >>) /\ Left(<< >>) = {}
  BY DEF InOrder, Left
<1> QED BY <1>1, <1>2, <1>3, <1>4, <1>5, <1>6

\* The others know what they knew as long as the files stay; p knows it of rest.
LEMMA Keeping ==
    ASSUME IInv, Usable, NEW p \in Processes, NEW rest,
           steps' = [steps EXCEPT ![p] = rest],
           \A q \in Processes \ {p} : job'[q] = job[q],
           UNCHANGED <<config, identity>>,
           Knows(rest, job'[p], config, identity),
           OfInit(rest) => \A q \in Processes \ {p} : ~OfInit(steps[q])
    PROVE  Usable'
<1>1. /\ steps'[p] = rest /\ \A q \in Processes \ {p} : steps'[q] = steps[q]
  BY DEF IInv, TypeOK
<1>2. \A q \in Processes : Knows(steps'[q], job'[q], config', identity')
  BY <1>1 DEF Usable
<1>3. OneOwner'
  BY <1>1 DEF Usable, OneOwner
<1>4. FilesAgree'
  BY DEF Usable, FilesAgree
<1> QED BY <1>2, <1>3, <1>4 DEF Usable

\* A process with nothing left to do knows nothing.
LEMMA KnowsNothing ==
    ASSUME NEW j, NEW cfg, NEW made
    PROVE  Knows(<< >>, j, cfg, made) /\ ~OfInit(<< >>)
BY PlansInOrder DEF Knows, OfInit, Early, Loaded

\* A process that failed, or was killed.
LEMMA FailUsable ==
    ASSUME IInv, Usable, NEW p \in Processes, NEW d, Fail(p, d),
           \A q \in Processes \ {p} : job'[q] = job[q], UNCHANGED <<config, identity>>
    PROVE  Usable'
<1>1. steps' = [steps EXCEPT ![p] = << >>]
  BY DEF Fail
<1> QED BY <1>1, KnowsNothing, Keeping

\* What is known is known after a step that is not about the files.
LEMMA KnowsTail ==
    ASSUME NEW s \in Seq(StepNames), s # << >>, NEW j, NEW cfg, NEW made,
           Knows(s, j, cfg, made), NEW t, InOrder(t), NEW step \in StepNames,
           step \notin {"look", "peek", "load", "read", "write", "config"},
           s[1] \notin {"look", "peek", "load", "read", "write", "config"},
           Left(t) = Left(Tail(s)) \/ Left(t) = {step} \cup Left(Tail(s))
    PROVE  Knows(t, j, cfg, made) /\ (OfInit(t) => OfInit(s))
<1>1. Left(s) = {s[1]} \cup Left(Tail(s))
  BY Unfold DEF Knows
<1>2. \A x \in {"look", "peek", "load", "read", "write", "config"} :
          x \in Left(t) <=> x \in Left(s)
  BY <1>1
<1>3. (OfInit(t) <=> OfInit(s)) /\ (Early(t) <=> Early(s)) /\ (Loaded(t) <=> Loaded(s))
  BY <1>2 DEF OfInit, Early, Loaded
<1> QED BY <1>2, <1>3 DEF Knows

LEMMA AtStep ==
    ASSUME IInv, Usable, NEW p \in Processes, Running(p)
    PROVE  /\ steps[p] \in Seq(StepNames) /\ steps[p] # << >> /\ Ordered(steps[p])
           /\ Head(steps[p]) = steps[p][1]
           /\ Knows(steps[p], job[p], config, identity) /\ InOrder(steps[p])
           /\ Left(steps[p]) = {steps[p][1]} \cup Left(Tail(steps[p]))
           /\ Tail(steps[p]) \in Seq(StepNames) /\ InOrder(Tail(steps[p]))
           /\ Left(Tail(steps[p])) \cap {"look", "peek"} = {}
           /\ steps[p][1] = "load" => "config" \notin Left(Tail(steps[p]))
           /\ steps[p][1] = "config" =>
                  /\ "config" \notin Left(Tail(steps[p]))
                  /\ Left(Tail(steps[p])) = {} \/ "load" \in Left(Tail(steps[p]))
<1>1. steps[p] \in Seq(StepNames) /\ steps[p] # << >> /\ Ordered(steps[p])
  BY DEF IInv, TypeOK, Shape, Running
<1>2. Knows(steps[p], job[p], config, identity) /\ InOrder(steps[p])
  BY DEF Usable, Knows
<1> QED BY <1>1, <1>2, Unfold

\* Only one init is under way.
LEMMA Alone ==
    ASSUME IInv, Usable, NEW p \in Processes, OfInit(steps[p])
    PROVE  \A q \in Processes \ {p} : ~OfInit(steps[q])
BY DEF Usable, OneOwner

\* The steps that look at neither file.
LEMMA AsideUsable ==
    ASSUME IInv, Usable, NEW p \in Processes, OpenRoot(p) \/ MakeRoot(p) \/ Lock(p)
    PROVE  Usable'
<1> DEFINE s == steps[p]
<1>1. /\ Running(p) /\ UNCHANGED <<config, identity, job>>
      /\ Head(s) \in {"root", "mkdir", "lock"}
  BY DEF OpenRoot, MakeRoot, Lock, Doing
<1>2. /\ s \in Seq(StepNames) /\ s # << >> /\ Ordered(s) /\ Head(s) = s[1]
      /\ Knows(s, job[p], config, identity) /\ InOrder(s) /\ InOrder(Tail(s))
  BY <1>1, AtStep
<1>3. CASE Fail(p, "journal_corrupt")
  BY <1>1, <1>3, FailUsable
<1>4. ASSUME NEW rest, InOrder(rest), Continue(p, rest),
             Left(rest) = Left(Tail(s)) \/ Left(rest) = {"mkdir"} \cup Left(Tail(s))
      PROVE  Usable'
  <2>1. Knows(rest, job[p], config, identity) /\ (OfInit(rest) => OfInit(s))
    <3>1. "mkdir" \in StepNames
      BY DEF StepNames
    <3> QED BY <1>1, <1>2, <1>4, <3>1, KnowsTail
  <2>2. steps' = [steps EXCEPT ![p] = rest]
    BY <1>4 DEF Continue
  <2>3. OfInit(rest) => \A q \in Processes \ {p} : ~OfInit(steps[q])
    BY <2>1, Alone
  <2> QED BY <1>1, <2>1, <2>2, <2>3, Keeping
<1>5. CASE Proceed(p)
  BY <1>2, <1>4, <1>5 DEF Proceed
<1>6. CASE Instead(p, "mkdir") /\ Head(s) = "root"
  <2> DEFINE rest == [s EXCEPT ![1] = "mkdir"]
  <2>1. InOrder(rest) /\ Left(rest) = {"mkdir"} \cup Left(Tail(s))
    BY <1>2, <1>6, InsteadInOrder
  <2>2. Continue(p, rest)
    BY <1>6 DEF Instead
  <2> HIDE DEF rest
  <2> QED BY <1>4, <2>1, <2>2
<1> QED BY <1>3, <1>5, <1>6 DEF OpenRoot, MakeRoot, Lock, Doing

LEMMA BeginUsable ==
    ASSUME IInv, Usable, OneInit, NEW p \in Processes, BeginInit(p) \/ BeginOpen(p)
    PROVE  Usable'
<1>1. /\ UNCHANGED <<config, identity>> /\ steps[p] = << >>
      /\ \A q \in Processes \ {p} : job'[q] = job[q]
  BY DEF BeginInit, BeginOpen, Idle, IInv, TypeOK
<1>2. CASE \E d \in Diagnostics : Fail(p, d)
  BY <1>1, <1>2, FailUsable
<1>3. CASE BeginInit(p) /\ Continue(p, <<"look">>)
  <2>1. job'[p].init
    BY <1>3 DEF BeginInit, IInv, TypeOK, NoJob
  <2>2. Knows(<<"look">>, job'[p], config, identity)
    BY <2>1, PlansInOrder DEF Knows, OfInit, Early, Loaded
  <2>3. \A q \in Processes \ {p} : ~OfInit(steps[q])
    <3>1. ASSUME NEW q \in Processes, OfInit(steps[q])
          PROVE  FALSE
      <4>1. steps[q] # << >> /\ job[q].init
        BY <3>1, KnowsNothing DEF Usable, Knows
      <4> QED BY <1>3, <4>1 DEF BeginInit, Running
    <3> QED BY <3>1
  <2>4. steps' = [steps EXCEPT ![p] = <<"look">>]
    BY <1>3 DEF Continue
  <2> QED BY <1>1, <2>2, <2>3, <2>4, Keeping
<1>4. CASE BeginOpen(p)
  <2>1. steps' = [steps EXCEPT ![p] = OpenSteps] /\ job' = job
    BY <1>4 DEF BeginOpen, Continue
  <2>2. Knows(OpenSteps, job'[p], config, identity) /\ ~OfInit(OpenSteps)
    BY PlansInOrder DEF Knows, OfInit, Early, Loaded
  <2> QED BY <1>1, <2>1, <2>2, Keeping
<1>5. BeginInit(p) => Fail(p, "invalid_request") \/ Continue(p, <<"look">>)
  BY DEF BeginInit
<1>6. "invalid_request" \in Diagnostics
  BY DEF Diagnostics
<1> QED BY <1>2, <1>3, <1>4, <1>5, <1>6

\* It sees that a configuration exists, and goes by its project id; or that there is none.
LEMMA LookUsable ==
    ASSUME IInv, Usable, NEW p \in Processes, Look(p)
    PROVE  Usable'
<1> DEFINE s == steps[p]
<1>1. Running(p) /\ UNCHANGED <<config, identity>> /\ Head(s) = "look"
  BY DEF Look, Doing
<1>2. Knows(s, job[p], config, identity) /\ "look" \in Left(s)
  BY <1>1, AtStep
<1>3. OfInit(s) /\ job[p].init
  BY <1>2 DEF OfInit, Knows
<1>4. job \in [Processes -> Jobs]
  BY DEF IInv, TypeOK
<1>5. CASE config.exists
  <2>1. steps' = [steps EXCEPT ![p] = ForceSteps]
        /\ job' = [job EXCEPT ![p].project = {config.project}]
    BY <1>5 DEF Look, Continue
  <2>2. job'[p].project = {config.project} /\ job'[p].init
        /\ \A q \in Processes \ {p} : job'[q] = job[q]
    BY <1>3, <1>4, <2>1 DEF Jobs
  <2>3. Knows(ForceSteps, job'[p], config, identity)
    BY <1>5, <2>2, PlansInOrder DEF Knows, OfInit, Early, Loaded
  <2> QED BY <1>1, <1>3, <2>1, <2>2, <2>3, Alone, Keeping
<1>6. CASE ~config.exists
  <2>1. steps' = [steps EXCEPT ![p] = <<"peek">>] /\ job' = job
    BY <1>6 DEF Look, Continue
  <2>2. Knows(<<"peek">>, job'[p], config, identity)
    BY <1>3, <1>6, <2>1, PlansInOrder DEF Knows, OfInit, Early, Loaded
  <2> QED BY <1>1, <1>3, <2>1, <2>2, Alone, Keeping
<1> QED BY <1>5, <1>6

\* It takes the project id of the identity, if there is one.
LEMMA PeekUsable ==
    ASSUME IInv, Usable, NEW p \in Processes, Peek(p)
    PROVE  Usable'
<1> DEFINE s == steps[p]
<1>1. Running(p) /\ UNCHANGED <<config, identity>> /\ Head(s) = "peek"
  BY DEF Peek, Doing
<1>2. Knows(s, job[p], config, identity) /\ "peek" \in Left(s)
  BY <1>1, AtStep
<1>3. OfInit(s) /\ job[p].init /\ (identity.exists \/ ~config.exists)
  BY <1>2 DEF OfInit, Knows, Early
<1>4. job \in [Processes -> Jobs]
  BY DEF IInv, TypeOK
<1>5. steps' = [steps EXCEPT ![p] = InitSteps]
      /\ job' = [job EXCEPT ![p].project = {IF identity.exists THEN identity.project ELSE p}]
  BY DEF Peek, Continue
<1>6. /\ identity.exists => job'[p].project = {identity.project}
      /\ job'[p].project # {}
      /\ job'[p].init /\ \A q \in Processes \ {p} : job'[q] = job[q]
  BY <1>3, <1>4, <1>5 DEF Jobs
<1>7. Knows(InitSteps, job'[p], config, identity)
  BY <1>3, <1>6, PlansInOrder DEF Knows, OfInit, Early, Loaded
<1> QED BY <1>1, <1>3, <1>5, <1>6, <1>7, Alone, Keeping

\* It goes by the project id of the configuration that is there now.
LEMMA LoadUsable ==
    ASSUME IInv, Usable, NEW p \in Processes, Load(p)
    PROVE  Usable'
<1> DEFINE s == steps[p]
           t == Tail(s)
<1>1. Running(p) /\ UNCHANGED <<config, identity>> /\ Head(s) = "load"
  BY DEF Load, Doing
<1>2. /\ Knows(s, job[p], config, identity) /\ InOrder(t)
      /\ Left(s) = {"load"} \cup Left(t) /\ Left(t) \cap {"look", "peek", "config"} = {}
  BY <1>1, AtStep
<1>3. CASE config.exists
  <2>1. job \in [Processes -> Jobs]
    BY DEF IInv, TypeOK
  <2>2. steps' = [steps EXCEPT ![p] = t] /\ job' = [job EXCEPT ![p].project = {config.project}]
    BY <1>3 DEF Load, Proceed, Continue
  <2>3. /\ job'[p].project = {config.project}
        /\ \A q \in Processes \ {p} : job'[q] = job[q]
    BY <2>1, <2>2 DEF Jobs
  <2>4. Knows(t, job'[p], config, identity) /\ ~OfInit(t)
    BY <1>2, <1>3, <2>3 DEF Knows, OfInit, Early, Loaded
  <2> QED BY <1>1, <2>2, <2>3, <2>4, Keeping
<1>4. CASE ~config.exists
  <2>1. Fail(p, "config_invalid") /\ job' = job
    BY <1>4 DEF Load
  <2> QED BY <1>1, <2>1, FailUsable
<1> QED BY <1>3, <1>4

\* What is left after the identity is read or written: p goes by an origin.
LEMMA KnowsOrigin ==
    ASSUME IInv, Usable, NEW p \in Processes, Running(p), Head(steps[p]) \in {"read", "write"},
           NEW j, j.init = job[p].init, j.origin # {}, NEW cfg, NEW made
    PROVE  /\ Knows(Tail(steps[p]), j, cfg, made)
           /\ OfInit(Tail(steps[p])) => OfInit(steps[p])
<1> DEFINE s == steps[p]
           t == Tail(s)
<1>1. /\ s \in Seq(StepNames) /\ s # << >> /\ Ordered(s) /\ s[1] \in {"read", "write"}
      /\ Knows(s, job[p], config, identity) /\ InOrder(t)
      /\ Left(s) = {s[1]} \cup Left(t)
  BY AtStep
<1>2. Left(t) \subseteq AfterIdentity
  BY <1>1, AfterFirst DEF Left
<1>3. OfInit(t) => OfInit(s)
  BY <1>1 DEF OfInit
<1> HIDE DEF t
<1>4. Left(t) \cap {"look", "peek", "load", "read", "write"} = {}
  BY <1>2 DEF AfterIdentity
<1>5. Knows(t, j, cfg, made)
  BY <1>1, <1>3, <1>4 DEF Knows, OfInit, Early, Loaded
<1> QED BY <1>3, <1>5 DEF t

LEMMA ReadUsable ==
    ASSUME IInv, Usable, NEW p \in Processes, Read(p)
    PROVE  Usable'
<1> DEFINE s == steps[p]
<1>1. Running(p) /\ UNCHANGED <<config, identity>> /\ Head(s) = "read"
  BY DEF Read, Doing
<1>2. /\ s \in Seq(StepNames) /\ s # << >> /\ Ordered(s) /\ s[1] = "read"
      /\ Knows(s, job[p], config, identity) /\ InOrder(s)
      /\ Left(s) = {s[1]} \cup Left(Tail(s))
  BY <1>1, AtStep
<1>3. job \in [Processes -> Jobs]
  BY DEF IInv, TypeOK
<1>4. CASE Instead(p, "write") /\ job' = job
  <2> DEFINE rest == [s EXCEPT ![1] = "write"]
  <2>1. InOrder(rest) /\ Left(rest) = {"write"} \cup Left(Tail(s))
    BY <1>2, InsteadInOrder
  <2>2. steps' = [steps EXCEPT ![p] = rest]
    BY <1>4 DEF Instead, Continue
  <2> HIDE DEF rest
  <2>3. /\ OfInit(rest) <=> OfInit(s)
        /\ Early(rest) <=> Early(s)
        /\ Loaded(rest) <=> Loaded(s)
        /\ "peek" \in Left(rest) <=> "peek" \in Left(s)
        /\ "config" \in Left(rest) <=> "config" \in Left(s)
    BY <1>2, <2>1 DEF OfInit, Early, Loaded
  <2>4. Knows(rest, job'[p], config, identity)
    BY <1>2, <1>4, <2>1, <2>3 DEF Knows
  <2> QED BY <1>1, <1>4, <2>2, <2>3, <2>4, Alone, Keeping
<1>5. CASE Proceed(p) /\ job' = [job EXCEPT ![p].origin = {identity.origin}]
  <2>1. steps' = [steps EXCEPT ![p] = Tail(s)]
    BY <1>5 DEF Proceed, Continue
  <2>2. /\ job'[p].init = job[p].init /\ job'[p].origin # {}
        /\ \A q \in Processes \ {p} : job'[q] = job[q]
    BY <1>3, <1>5 DEF Jobs
  <2>3. Knows(Tail(s), job'[p], config, identity) /\ (OfInit(Tail(s)) => OfInit(s))
    BY <1>1, <2>2, KnowsOrigin
  <2> QED BY <1>1, <2>1, <2>2, <2>3, Alone, Keeping
<1>6. CASE Fail(p, "journal_corrupt") /\ job' = job
  BY <1>1, <1>6, FailUsable
<1> QED BY <1>4, <1>5, <1>6 DEF Read

\* A configuration is written where there is none and nobody has loaded one, or over
\* one whose project the identity has, which stays.
LEMMA WriteConfigUsable ==
    ASSUME IInv, Usable, NEW p \in Processes, WriteConfig(p)
    PROVE  Usable'
<1> DEFINE s == steps[p]
           t == Tail(s)
<1>1. Running(p) /\ UNCHANGED <<identity, job>> /\ Head(s) = "config"
  BY DEF WriteConfig, Doing
<1>2. /\ Knows(s, job[p], config, identity) /\ InOrder(t)
      /\ Left(s) = {"config"} \cup Left(t)
      /\ Left(t) \cap {"look", "peek", "config"} = {}
      /\ Left(t) = {} \/ "load" \in Left(t)
  BY <1>1, AtStep
<1>3. CASE Fail(p, "raised") /\ UNCHANGED config
  BY <1>1, <1>3, FailUsable
<1>4. ASSUME NEW project \in job[p].project, config' = Config(p, project), Proceed(p)
      PROVE  Usable'
  <2>1. steps' = [steps EXCEPT ![p] = t]
    BY <1>4 DEF Proceed, Continue
  <2>2. /\ steps'[p] = t /\ \A q \in Processes \ {p} : steps'[q] = steps[q]
    BY <2>1 DEF IInv, TypeOK
  <2>3. config'.exists /\ config'.project = project
    BY <1>4 DEF Config
  <2>4. OfInit(s) /\ \A q \in Processes \ {p} : ~OfInit(steps[q])
    BY <1>2, Alone DEF OfInit
  <2>5. /\ ~config.exists \/ identity.exists
        /\ identity.exists => project = identity.project
    <3>1. CASE Early(s)
      <4>1. "peek" \notin Left(s)
        BY <1>2
      <4> QED BY <1>2, <1>4, <3>1, <4>1 DEF Knows
    <3>2. CASE ~Early(s)
      <4>1. ~Loaded(s)
        BY <1>2, <3>2 DEF Early, Loaded
      <4>2. job[p].origin # {}
        BY <1>2, <3>2, <4>1 DEF Knows
      <4> QED BY <1>4, <4>2 DEF IInv, OpenedAgree
    <3> QED BY <3>1, <3>2
  <2>6. Knows(t, job[p], config', identity)
    BY <1>2 DEF Knows, OfInit, Early, Loaded
  <2>7. ASSUME NEW q \in Processes, q # p
        PROVE  Knows(steps[q], job[q], config', identity)
    <3>1. Knows(steps[q], job[q], config, identity) /\ ~OfInit(steps[q])
      BY <2>4, <2>7 DEF Usable
    <3>2. ~Early(steps[q])
      BY <3>1 DEF OfInit, Early
    <3>3. Loaded(steps[q]) => identity.exists
      BY <2>5, <3>1 DEF Knows
    <3> QED BY <3>1, <3>2, <3>3 DEF Knows
  <2>8. \A q \in Processes : Knows(steps'[q], job'[q], config', identity')
    BY <1>1, <2>2, <2>6, <2>7
  <2>9. OneOwner'
    BY <2>2, <2>4 DEF OneOwner
  <2>10. FilesAgree'
    BY <1>1, <2>3, <2>5 DEF FilesAgree
  <2> QED BY <2>8, <2>9, <2>10 DEF Usable
<1> QED BY <1>3, <1>4 DEF WriteConfig

\* The identity takes the project id of the configuration.
LEMMA WriteIdentityUsable ==
    ASSUME IInv, Usable, NEW p \in Processes, WriteIdentity(p)
    PROVE  Usable'
<1> DEFINE s == steps[p]
           t == Tail(s)
<1>1. Running(p) /\ UNCHANGED config /\ Head(s) = "write" /\ Doing(p, "write")
  BY DEF WriteIdentity, Doing
<1>2. /\ s \in Seq(StepNames) /\ s # << >> /\ Ordered(s) /\ s[1] = "write"
      /\ Knows(s, job[p], config, identity) /\ Left(s) = {s[1]} \cup Left(t)
  BY <1>1, AtStep
<1>3. job \in [Processes -> Jobs] /\ ~identity.exists
  BY <1>1 DEF IInv, TypeOK, WritesFirst
<1>4. config.exists /\ job[p].project = {config.project}
  <2>1. Left(t) \subseteq AfterIdentity
    BY <1>2, AfterFirst DEF Left
  <2>2. "load" \notin Left(t)
    BY <2>1 DEF AfterIdentity
  <2>3. Loaded(s)
    BY <1>2, <2>2 DEF Loaded
  <2> QED BY <1>2, <1>3, <2>3 DEF Knows
<1>5. CASE Fail(p, "raised") /\ UNCHANGED <<identity, job>>
  BY <1>1, <1>5, FailUsable
<1>6. ASSUME NEW project \in job[p].project, identity' = Identity(p, project),
             job' = [job EXCEPT ![p].origin = {p}], Proceed(p)
      PROVE  Usable'
  <2>1. steps' = [steps EXCEPT ![p] = t]
    BY <1>6 DEF Proceed, Continue
  <2>2. /\ steps'[p] = t /\ \A q \in Processes \ {p} : steps'[q] = steps[q]
    BY <2>1 DEF IInv, TypeOK
  <2>3. identity'.exists /\ identity'.project = config.project
    BY <1>4, <1>6 DEF Identity
  <2>4. /\ job'[p].init = job[p].init /\ job'[p].origin # {}
        /\ \A q \in Processes \ {p} : job'[q] = job[q]
    BY <1>3, <1>6 DEF Jobs
  <2>5. Knows(t, job'[p], config, identity') /\ (OfInit(t) => OfInit(s))
    BY <1>1, <2>4, KnowsOrigin
  <2>6. ASSUME NEW q \in Processes, q # p
        PROVE  Knows(steps[q], job[q], config, identity')
    <3>1. Knows(steps[q], job[q], config, identity)
      BY DEF Usable
    <3>2. ~Early(steps[q])
      BY <1>3, <1>4, <3>1 DEF Knows
    <3> QED BY <2>3, <3>1, <3>2 DEF Knows
  <2>7. \A q \in Processes : Knows(steps'[q], job'[q], config', identity')
    BY <1>1, <2>2, <2>4, <2>5, <2>6
  <2>8. OneOwner'
    BY <2>2, <2>5 DEF Usable, OneOwner
  <2>9. FilesAgree'
    BY <1>1, <2>3 DEF FilesAgree
  <2> QED BY <2>7, <2>8, <2>9 DEF Usable
<1> QED BY <1>5, <1>6 DEF WriteIdentity

\* The user changes the configuration: once there is an identity, whoever is about to
\* write goes by that; before, somebody who goes by the configuration, or by its absence,
\* is unsettled.
LEMMA ChangeConfigUsable ==
    ASSUME IInv, Usable, ChangeConfig
    PROVE  meddled' \/ Usable'
<1>1. UNCHANGED <<identity, steps, job>>
  BY DEF ChangeConfig
<1>2. OneOwner'
  BY <1>1 DEF Usable, OneOwner
<1>3. FilesAgree'
  <2>1. ~config'.exists \/ config'.by = "user"
    BY DEF ChangeConfig, NoConfig, Config
  <2> QED BY <2>1 DEF FilesAgree
<1>4. CASE identity.exists
  <2>1. ASSUME NEW q \in Processes
        PROVE  Knows(steps[q], job[q], config', identity)
    BY <1>4 DEF Usable, Knows
  <2> QED BY <1>1, <1>2, <1>3, <2>1 DEF Usable
<1>5. CASE ~identity.exists /\ ~ \E q \in Processes : Unsettled(q)
  <2> SUFFICES ASSUME NEW q \in Processes
               PROVE  Knows(steps[q], job[q], config', identity)
    BY <1>1, <1>2, <1>3 DEF Usable
  <2>1. Knows(steps[q], job[q], config, identity) /\ job[q].origin = {}
    BY <1>5 DEF Usable, IInv, OpenedAgree
  <2>2. CASE ~Running(q)
    BY <2>2, KnowsNothing DEF Running
  <2>3. CASE Running(q)
    <3>1. job[q].project = {} /\ Head(steps[q]) # "peek"
      BY <1>5, <2>1, <2>3 DEF Unsettled, Doing
    <3>2. "peek" \notin Left(steps[q])
      BY <2>3, <3>1, AtStep
    <3>3. ~Early(steps[q]) /\ ~Loaded(steps[q])
      BY <1>5, <2>1, <3>1, <3>2 DEF Knows
    <3> QED BY <2>1, <3>3 DEF Knows
  <2> QED BY <2>2, <2>3
<1>6. CASE ~identity.exists /\ \E q \in Processes : Unsettled(q)
  BY <1>6 DEF ChangeConfig
<1> QED BY <1>4, <1>5, <1>6

LEMMA MeddledStays == meddled /\ [Next]_vars => meddled'
BY DEF Next, Step, BeginInit, BeginOpen, Look, Peek, WriteConfig, Load, OpenRoot, MakeRoot, Lock,
       Read, WriteIdentity, Crash, ChangeConfig, Finished, vars

LEMMA UsableInv ==
    ASSUME OneInit PROVE IInv /\ (meddled \/ Usable) /\ [Next]_vars => (meddled \/ Usable)'
<1> SUFFICES ASSUME IInv, meddled \/ Usable, [Next]_vars PROVE meddled' \/ Usable'
  OBVIOUS
<1>0. CASE meddled
  BY <1>0, MeddledStays
<1> SUFFICES ASSUME Usable PROVE meddled' \/ Usable'
  BY <1>0
<1>1. ASSUME NEW p \in Processes, Step(p)
      PROVE  Usable'
  BY <1>1, LookUsable, PeekUsable, WriteConfigUsable, LoadUsable, AsideUsable, ReadUsable,
     WriteIdentityUsable DEF Step
<1>2. ASSUME NEW p \in Processes, BeginInit(p) \/ BeginOpen(p)
      PROVE  Usable'
  BY <1>2, BeginUsable
<1>3. ASSUME NEW p \in Processes, Crash(p)
      PROVE  Usable'
  BY <1>3, FailUsable DEF Crash
<1>4. CASE UNCHANGED vars
  BY <1>4 DEF vars, Usable, OneOwner, FilesAgree
<1> QED BY <1>1, <1>2, <1>3, <1>4, ChangeConfigUsable DEF Next, Finished

\* If one init runs at a time, configuration and identity name the same project unless
\* the user wrote the configuration, or meddled with it while the first identity was being
\* made: whatever is killed, fails, is removed, edited or forced (init_project, ensure).
\* Two inits at once can leave files of different projects.
THEOREM KeepsUsable == ASSUME OneInit PROVE Spec => []StaysUsable
<1>1. Init => meddled \/ Usable
  <2> SUFFICES ASSUME Init PROVE Usable
    OBVIOUS
  <2>1. \A p \in Processes : steps[p] = << >>
    BY DEF Init
  <2>2. FilesAgree
    BY DEF Init, NoConfig, FilesAgree
  <2> QED BY <2>1, <2>2, KnowsNothing DEF Usable, OneOwner
<1>2. meddled \/ Usable => StaysUsable
  BY DEF Usable, StaysUsable
<1> QED BY <1>1, <1>2, UsableInv, Invariance, PTL DEF Spec
=============================================================================
