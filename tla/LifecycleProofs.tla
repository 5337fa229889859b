--------------------------- MODULE LifecycleProofs ---------------------------
(***************************************************************************)
(* For every set of sessions, callers, backends, drivers and bridges: the   *)
(* verbs use the supervisor only through its three calls, so what is proved *)
(* of the supervisor holds of the daemon; the types of the hub; no driver   *)
(* is lost and a name has one at work; the worktree of a session that is    *)
(* closed is free; and a daemon at rest has a bridge and a driver for the   *)
(* sessions in use and for no other, each on the conversation recorded.     *)
(***************************************************************************)
EXTENDS Lifecycle, SupervisorProofs

Sessions == Session \cup {Absent}

\* The steps of goDead and of reconcile, those of the boot loop, those that need
\* the dispatch lock, and the others.
DeadLabels == {"dead.delete", "dead.cancel", "dead.wait"}
ReconcileLabels == {"finish", "reap", "reaping", "raising"} \cup DeadLabels
BootLabels == {"boot", "boot.start"}
LockedLabels == {"close", "close.tree", "close.remove", "close.failed", "rename", "rename.set",
                 "rename.start", "rename.failed", "switch", "switch.restart"}
FreeLabels == {"create", "create.start", "archive", "archive.set", "unarchive",
               "unarchive.start", "rewind", "restart", "restart.set", "restart.live",
               "restart.start", "resume", "resume.live", "resume.start"}
Label == {"other"} \cup ReconcileLabels \cup BootLabels \cup LockedLabels \cup FreeLabels

Verbs == {"create", "close", "archive", "unarchive", "switch", "rewind", "rename", "other",
          "resume", "restart", "boot"}

JobType ==
  [verb : Verbs, at : Label, name : Name, to : Name, sess : Sessions, cur : Name,
   ret : Label, all : [Name -> Sessions], todo : SUBSET Name,
   drv : Driver \cup {NoDriver}, claim : Driver \cup {NoDriver}, ok : BOOLEAN]

\* What a job carries at each step: the session it is about, unless it is the
\* boot loop, whose rows are those it loaded, or a verb that only reads.
JobOK(c) ==
  LET j == job[c]
  IN  Busy(c) =>
        /\ j.verb = "other" => j.at \in {"other"} \cup ReconcileLabels
        /\ j.verb = "boot" => /\ j.at \in BootLabels
                              /\ \A n \in j.todo : j.all[n] # Absent
                              /\ j.at = "boot.start" => j.all[j.cur] # Absent
        /\ j.verb \notin {"other", "boot"} => j.at \notin BootLabels /\ j.sess # Absent
        /\ j.at \in DeadLabels => j.ret \in {"restart.set", "reaping"}
        /\ j.at \in DeadLabels /\ j.verb = "other" => j.ret = "reaping"
        /\ j.at \in LockedLabels => c = Disp

JobsTyped == job \in [Caller -> JobType \cup {NoJob}]
JobInv == JobsTyped /\ \A c \in Caller : JobOK(c)

RecTyped == rec \in [Name -> Sessions] /\ disk \in [Name -> Sessions]

\* The row that a switch reads again is still there.
SwitchInv ==
  \A c \in Caller : Busy(c) /\ job[c].at \in {"switch", "switch.restart"} => Recorded(job[c].name)

TurnInv ==
  /\ DOMAIN turn = Driver
  /\ \A d \in Driver : /\ turn[d].at = "busy" => turn[d].run \in Run
                       /\ turn[d].at = "result" => turn[d].token \in Token

DriverTyped ==
  /\ live \in [Name -> Driver \cup {NoDriver}] /\ socket \in [Name -> Driver \cup {NoDriver}]
  /\ driver \in [Driver -> [at : {"unused", "driving", "ended"}, name : Name,
                            cancelled : BOOLEAN]]
  /\ marred \subseteq Name

\* The driver in the table is one of its name, and one taken out of it by a goDead
\* that has not cancelled it yet is not put back.
Held(c) ==
  Busy(c) /\ job[c].at = "dead.cancel" /\ job[c].drv # NoDriver =>
    driver[job[c].drv].name = job[c].cur /\ live[job[c].cur] # job[c].drv
HubTable ==
  /\ \A n \in Name : live[n] # NoDriver => driver[live[n]].name = n
  /\ \A c \in Caller : Held(c)
HubInv == DriverKept /\ HubTable

LifeInv == SupInv /\ JobInv /\ RecTyped /\ SwitchInv /\ TurnInv /\ DriverTyped /\ HubInv

-----------------------------------------------------------------------------
LEMMA SomeNames == (CHOOSE n \in Name : TRUE) \in Name /\ (CHOOSE w \in Vendor : TRUE) \in Vendor
                   /\ (CHOOSE k \in Conf : TRUE) \in Conf
BY NonEmptyAssumption, ConfAssumption

\* No job is at no label.
LEMMA NoJobAt == NoJob.verb = "none" /\ \A j \in JobType : j # NoJob
<1>1. NoJob.verb = "none"
  BY DEF NoJob
<1>2. \A j \in JobType : j.verb # "none"
  BY DEF JobType, Verbs
<1> QED  BY <1>1, <1>2

\* A fresh job.
LEMMA FreshJob ==
  ASSUME RecTyped, NEW v \in Verbs, NEW n \in Name, NEW m \in Name, NEW s \in Sessions
  PROVE  /\ Job(v, n, m, s) \in JobType
         /\ Job(v, n, m, s).verb = v /\ Job(v, n, m, s).at = v
         /\ Job(v, n, m, s).sess = s /\ Job(v, n, m, s).name = n /\ Job(v, n, m, s).all = rec
         /\ Job(v, n, m, s).to = m
<1>1. Job(v, n, m, s) \in JobType
  BY DEF Job, JobType, RecTyped, Verbs, Label, ReconcileLabels, BootLabels, LockedLabels,
     FreeLabels
<1>2. /\ Job(v, n, m, s).verb = v /\ Job(v, n, m, s).at = v
      /\ Job(v, n, m, s).sess = s /\ Job(v, n, m, s).name = n /\ Job(v, n, m, s).all = rec
      /\ Job(v, n, m, s).to = m
  BY DEF Job
<1> QED  BY <1>1, <1>2

\* Absent is no row of a session.
LEMMA RowOrAbsent == \A s \in Sessions : s # Absent => s \in Session
BY DEF Sessions

LEMMA StartInv == Init => LifeInv
<1> SUFFICES ASSUME Init PROVE LifeInv
  OBVIOUS
<1>1. SupInv
  BY InitInv DEF Init
<1>2. RecTyped
  <2> DEFINE W == CHOOSE w \in Vendor : TRUE
  <2>1. [vendor : {W}, token : {NoToken}, archived : BOOLEAN] \subseteq Session
    BY SomeNames DEF Session, Token
  <2> QED  BY <2>1 DEF Init, RecTyped, Sessions
<1>3. JobInv
  <2> DEFINE n0 == CHOOSE n \in Name : TRUE
             B == [Job("boot", n0, n0, Absent) EXCEPT !.todo = {n \in Name : InUse(n)}]
  <2>0. LET j == Job("boot", n0, n0, Absent)
        IN  j \in JobType /\ j.verb = "boot" /\ j.at = "boot" /\ j.all = rec
    BY <1>2, SomeNames, FreshJob DEF Sessions, Verbs
  <2>1. B \in JobType /\ B.verb = "boot" /\ B.at = "boot" /\ B.all = rec
        /\ B.todo = {n \in Name : InUse(n)}
    <3> DEFINE j == Job("boot", n0, n0, Absent)
               S == {n \in Name : InUse(n)}
    <3>1. j \in JobType /\ S \in SUBSET Name
      BY <2>0
    <3> HIDE DEF j, S
    <3>2. LET k == [j EXCEPT !.todo = S]
          IN  k \in JobType /\ k.verb = j.verb /\ k.at = j.at /\ k.all = j.all /\ k.todo = S
      BY <3>1 DEF JobType
    <3> QED  BY <2>0, <3>2 DEF j, S
  <2>2. job = [c \in Caller |-> IF c = Boot THEN B ELSE NoJob]
    BY DEF Init
  <2> HIDE DEF B
  <2>3. JobsTyped
    BY <2>1, <2>2 DEF JobsTyped
  <2>4. \A c \in Caller : JobOK(c)
    BY <2>1, <2>2 DEF JobOK, Busy, InUse, BootLabels, DeadLabels, LockedLabels
  <2> QED  BY <2>3, <2>4 DEF JobInv
<1>4. TurnInv
  BY DEF Init, TurnInv, IdleTurn
<1>5. DriverTyped
  BY SomeNames DEF Init, DriverTyped
<1>0. \A c \in Caller : Busy(c) => job[c].at = "boot"
  BY SomeNames, FreshJob, <1>2 DEF Init, Busy, Job, Verbs
<1>6. HubInv
  BY <1>0 DEF Init, HubInv, DriverKept, Drives, HubTable, Held
<1>7. SwitchInv
  BY <1>0 DEF SwitchInv
<1> QED  BY <1>1, <1>2, <1>3, <1>4, <1>5, <1>6, <1>7 DEF LifeInv

-----------------------------------------------------------------------------
(* The jobs. *)

LEMMA BusyTyped ==
  ASSUME JobInv, NEW c \in Caller, Busy(c)
  PROVE  /\ job[c] \in JobType /\ job[c].name \in Name /\ job[c].to \in Name
         /\ job[c].cur \in Name /\ job[c].todo \subseteq Name /\ job[c].sess \in Sessions
         /\ job[c].all \in [Name -> Sessions]
         /\ job[c].at \notin ({"other"} \cup ReconcileLabels \cup BootLabels)
              => job[c].sess \in Session
BY RowOrAbsent DEF JobInv, JobsTyped, JobOK, Busy, JobType

\* A job that is changed is right if its record is.
JobRight(k, c) ==
  /\ k \in JobType
  /\ k.verb = "other" => k.at \in {"other"} \cup ReconcileLabels
  /\ k.verb = "boot" => /\ k.at \in BootLabels
                        /\ \A n \in k.todo : k.all[n] # Absent
                        /\ k.at = "boot.start" => k.all[k.cur] # Absent
  /\ k.verb \notin {"other", "boot"} => k.at \notin BootLabels /\ k.sess # Absent
  /\ k.at \in DeadLabels => k.ret \in {"restart.set", "reaping"}
  /\ k.at \in DeadLabels /\ k.verb = "other" => k.ret = "reaping"
  /\ k.at \in LockedLabels => c = Disp

LEMMA JobSet ==
  ASSUME JobInv, NEW c \in Caller, NEW k, job' = [job EXCEPT ![c] = k],
         JobRight(k, c) \/ k = NoJob
  PROVE  JobInv' /\ job'[c] = k /\ \A b \in Caller \ {c} : job'[b] = job[b]
<1>1. job'[c] = k /\ (\A b \in Caller \ {c} : job'[b] = job[b]) /\ JobsTyped'
  BY DEF JobInv, JobsTyped, JobRight
<1>2. \A b \in Caller : JobOK(b)'
  BY <1>1 DEF JobInv, JobOK, JobRight, Busy
<1> QED  BY <1>1, <1>2 DEF JobInv

\* The labels a job may go to from where it is.
MayGo(c, l) ==
  /\ l \in Label \ ({"other"} \cup BootLabels)
  /\ job[c].at \notin BootLabels
  /\ job[c].at \in {"other"} \cup ReconcileLabels => l \in ReconcileLabels \cup {"restart.set"}
  /\ l = "restart.set" => job[c].verb # "other"
  /\ l \notin DeadLabels \/ job[c].at \in DeadLabels
  /\ l \in LockedLabels => c = Disp

LEMMA GoRight ==
  ASSUME JobInv, NEW c \in Caller, Busy(c), NEW l, MayGo(c, l),
         NEW k \in JobType, k.at = l, k.verb = job[c].verb, k.sess = job[c].sess,
         k.ret = job[c].ret
  PROVE  JobRight(k, c)
<1>1. JobOK(c)
  BY DEF JobInv
<1>2. k.verb # "boot"
  BY <1>1 DEF JobOK, MayGo
<1>3. k.verb = "other" => k.at \in {"other"} \cup ReconcileLabels
  BY <1>1 DEF JobOK, MayGo
<1>4. k.verb \notin {"other", "boot"} => k.at \notin BootLabels /\ k.sess # Absent
  BY <1>1 DEF JobOK, MayGo
<1>5. k.at \in DeadLabels => k.ret \in {"restart.set", "reaping"}
  BY <1>1 DEF JobOK, MayGo
<1>6. k.at \in DeadLabels /\ k.verb = "other" => k.ret = "reaping"
  BY <1>1 DEF JobOK, MayGo
<1> QED  BY <1>2, <1>3, <1>4, <1>5, <1>6 DEF JobRight, MayGo

LEMMA GoJob ==
  ASSUME JobInv, NEW c \in Caller, Busy(c), NEW l, MayGo(c, l), Go(c, l)
  PROVE  /\ JobInv' /\ job'[c].at = l /\ job'[c].name = job[c].name
         /\ \A b \in Caller \ {c} : job'[b] = job[b]
<1> DEFINE j == job[c]
           k == [j EXCEPT !.at = l]
<1>1. j \in JobType /\ l \in Label
  BY BusyTyped DEF MayGo
<1>2. job' = [job EXCEPT ![c] = k]
  BY DEF Go
<1>3. k \in JobType /\ k.at = l /\ k.verb = j.verb /\ k.sess = j.sess /\ k.ret = j.ret
      /\ k.name = j.name
  <2> HIDE DEF j
  <2> QED  BY <1>1 DEF JobType
<1>4. JobRight(k, c)
  BY <1>3, GoRight
<1> HIDE DEF k
<1> QED  BY <1>2, <1>3, <1>4, JobSet

LEMMA FailJob ==
  ASSUME JobInv, NEW c \in Caller, Busy(c), job[c].at \notin BootLabels, Fail(c)
  PROVE  /\ JobInv' /\ job'[c].at = "finish"
         /\ \A b \in Caller \ {c} : job'[b] = job[b]
<1> DEFINE j == job[c]
           k == [j EXCEPT !.at = "finish", !.ok = FALSE]
<1>1. j \in JobType /\ MayGo(c, "finish")
  BY BusyTyped DEF MayGo, Label, ReconcileLabels, DeadLabels, BootLabels, LockedLabels
<1>2. job' = [job EXCEPT ![c] = k]
  BY DEF Fail
<1>3. k \in JobType /\ k.at = "finish" /\ k.verb = j.verb /\ k.sess = j.sess /\ k.ret = j.ret
  <2> HIDE DEF j
  <2> QED  BY <1>1 DEF JobType, Label, ReconcileLabels
<1>4. JobRight(k, c)
  BY <1>1, <1>3, GoRight
<1> HIDE DEF k
<1> QED  BY <1>2, <1>3, <1>4, JobSet

\* What another caller's job and the place of the job that moves come to.
JobGoes(c, l) ==
  JobInv' /\ job'[c].at = l /\ \A b \in Caller \ {c} : job'[b] = job[b]

LEMMA GoDeadJob ==
  ASSUME JobInv, NEW c \in Caller, Busy(c), NEW n \in Name, NEW l, GoDead(c, n, l),
         \/ l = "restart.set" /\ job[c].at = "restart"
         \/ l = "reaping" /\ job[c].at = "reaping"
  PROVE  JobGoes(c, "dead.delete")
<1> DEFINE j == job[c]
           T == j.todo \ {n}
           k == [j EXCEPT !.at = "dead.delete", !.ret = l, !.cur = n, !.todo = T]
<1>1. j \in JobType /\ T \in SUBSET Name /\ l \in Label /\ JobOK(c)
  BY BusyTyped DEF JobInv, Label, ReconcileLabels, FreeLabels
<1>2. job' = [job EXCEPT ![c] = k]
  BY DEF GoDead
<1>3. k \in JobType /\ k.at = "dead.delete" /\ k.verb = j.verb /\ k.sess = j.sess /\ k.ret = l
  <2> HIDE DEF j, T
  <2> QED  BY <1>1 DEF JobType, Label, ReconcileLabels, DeadLabels
<1> HIDE DEF k
<1>4. JobRight(k, c)
  BY <1>1, <1>3 DEF JobRight, JobOK, ReconcileLabels, DeadLabels, BootLabels, LockedLabels
<1> QED  BY <1>2, <1>3, <1>4, JobSet DEF JobGoes

LEMMA DeadDeleteJob ==
  ASSUME JobInv, DriverTyped, NEW c \in Caller, DeadDelete(c)
  PROVE  JobGoes(c, "dead.cancel") /\ Busy(c)' /\ job'[c].drv = live[job[c].cur]
<1> DEFINE j == job[c]
           d == live[j.cur]
           k == [j EXCEPT !.at = "dead.cancel", !.drv = d]
<1>1. Busy(c) /\ j.at = "dead.delete"
  BY DEF DeadDelete, At
<1>2. j \in JobType /\ JobOK(c) /\ j.cur \in Name
  BY <1>1, BusyTyped DEF JobInv
<1>3. d \in Driver \cup {NoDriver}
  BY <1>2 DEF DriverTyped
<1>4. job' = [job EXCEPT ![c] = k]
  BY DEF DeadDelete
<1>5. /\ k \in JobType /\ k.at = "dead.cancel" /\ k.verb = j.verb /\ k.sess = j.sess /\ k.ret = j.ret
      /\ k.drv = d
  <2> HIDE DEF j, d
  <2> QED  BY <1>2, <1>3 DEF JobType, Label, ReconcileLabels, DeadLabels
<1> HIDE DEF k
<1>6. JobRight(k, c)
  BY <1>1, <1>2, <1>5 DEF JobRight, JobOK, ReconcileLabels, DeadLabels, BootLabels, LockedLabels
<1>7. k # NoJob
  BY <1>5, NoJobAt
<1> QED  BY <1>4, <1>5, <1>6, <1>7, JobSet DEF JobGoes, Busy

LEMMA DeadCancelJob ==
  ASSUME JobInv, NEW c \in Caller, DeadCancel(c)
  PROVE  JobGoes(c, "dead.wait")
<1>1. Busy(c) /\ job[c].at = "dead.cancel" /\ Go(c, "dead.wait") /\ JobOK(c)
  BY DEF DeadCancel, At, JobInv
<1>2. MayGo(c, "dead.wait")
  BY <1>1 DEF MayGo, Label, ReconcileLabels, DeadLabels, BootLabels, LockedLabels
<1> QED  BY <1>1, <1>2, GoJob DEF JobGoes

LEMMA DeadWaitJob ==
  ASSUME JobInv, NEW c \in Caller, DeadWait(c)
  PROVE  JobGoes(c, job[c].ret) /\ job[c].ret \in {"restart.set", "reaping"}
<1> DEFINE j == job[c]
           k == [j EXCEPT !.at = j.ret, !.drv = NoDriver]
<1>1. Busy(c) /\ j.at = "dead.wait"
  BY DEF DeadWait, At
<1>2. j \in JobType /\ JobOK(c)
  BY <1>1, BusyTyped DEF JobInv
<1>3. j.ret \in {"restart.set", "reaping"} /\ (j.verb = "other" => j.ret = "reaping")
      /\ j.verb # "boot"
  BY <1>1, <1>2 DEF JobOK, DeadLabels, BootLabels
<1>4. job' = [job EXCEPT ![c] = k]
  BY DEF DeadWait
<1>5. k \in JobType /\ k.at = j.ret /\ k.verb = j.verb /\ k.sess = j.sess
  <2> HIDE DEF j
  <2> QED  BY <1>2, <1>3 DEF JobType
<1> HIDE DEF k
<1>6. JobRight(k, c)
  BY <1>1, <1>2, <1>3, <1>5
     DEF JobRight, JobOK, ReconcileLabels, DeadLabels, BootLabels, LockedLabels
<1> QED  BY <1>3, <1>4, <1>5, <1>6, JobSet DEF JobGoes

LEMMA RewindJob ==
  ASSUME JobInv, DriverTyped, NEW c \in Caller, Rewind(c)
  PROVE  JobGoes(c, "restart")
<1> DEFINE j == job[c]
           d == live[j.name]
           k == [j EXCEPT !.at = "restart", !.claim = d]
<1>1. Busy(c) /\ j.at = "rewind"
  BY DEF Rewind, At
<1>2. j \in JobType /\ JobOK(c) /\ j.name \in Name
  BY <1>1, BusyTyped DEF JobInv
<1>3. d \in Driver \cup {NoDriver} /\ MayGo(c, "restart")
  BY <1>1, <1>2 DEF DriverTyped, MayGo, Label, ReconcileLabels, DeadLabels, BootLabels,
     LockedLabels, FreeLabels
<1>4. job' = [job EXCEPT ![c] = k]
  BY DEF Rewind
<1>5. k \in JobType /\ k.at = "restart" /\ k.verb = j.verb /\ k.sess = j.sess /\ k.ret = j.ret
  <2> HIDE DEF j, d
  <2> QED  BY <1>2, <1>3 DEF JobType, Label, FreeLabels
<1> HIDE DEF k
<1>6. JobRight(k, c)
  BY <1>1, <1>3, <1>5, GoRight
<1> QED  BY <1>4, <1>5, <1>6, JobSet DEF JobGoes

LEMMA FinishJob ==
  ASSUME JobInv, RecTyped, NEW c \in Caller, Finish(c)
  PROVE  /\ JobInv' /\ (job'[c] = NoJob \/ job'[c].at = "reap")
         /\ \A b \in Caller \ {c} : job'[b] = job[b]
<1> DEFINE j == job[c]
           k == [j EXCEPT !.at = "reap", !.all = rec, !.claim = NoDriver]
<1>1. Busy(c) /\ j.at = "finish"
  BY DEF Finish, At
<1>2. j \in JobType /\ JobOK(c)
  BY <1>1, BusyTyped DEF JobInv
<1>3. k \in JobType /\ k.at = "reap" /\ k.verb = j.verb /\ k.sess = j.sess /\ k.ret = j.ret
  <2> HIDE DEF j
  <2> QED  BY <1>2 DEF JobType, Label, ReconcileLabels, RecTyped
<1>4. job' = [job EXCEPT ![c] = k] \/ job' = [job EXCEPT ![c] = NoJob]
  BY DEF Finish
<1>5. MayGo(c, "reap")
  BY <1>1 DEF MayGo, Label, ReconcileLabels, DeadLabels, BootLabels, LockedLabels
<1> HIDE DEF k
<1>6. JobRight(k, c)
  BY <1>1, <1>3, <1>5, GoRight
<1> QED  BY <1>3, <1>4, <1>6, JobSet

LEMMA ReconcileJob ==
  ASSUME JobInv, DriverTyped, NEW c \in Caller, Reconcile(c)
  PROVE  /\ JobInv' /\ (job'[c] = NoJob \/ job'[c].at \in ReconcileLabels)
         /\ \A b \in Caller \ {c} : job'[b] = job[b]
<1> DEFINE j == job[c]
<1>1. Busy(c) /\ j.at \in {"reap", "reaping", "raising"}
  BY DEF Reconcile, At
<1>2. j \in JobType /\ JobOK(c) /\ j.todo \subseteq Name
  BY <1>1, BusyTyped DEF JobInv
<1>3. ASSUME NEW l \in {"reaping", "raising"}, NEW T \in SUBSET Name,
             job' = [job EXCEPT ![c] = [j EXCEPT !.at = l, !.todo = T]]
      PROVE  JobGoes(c, l)
  <2> DEFINE k == [j EXCEPT !.at = l, !.todo = T]
  <2>1. k \in JobType /\ k.at = l /\ k.verb = j.verb /\ k.sess = j.sess /\ k.ret = j.ret
    <3> HIDE DEF j
    <3> QED  BY <1>2 DEF JobType, Label, ReconcileLabels
  <2>2. MayGo(c, l)
    BY <1>1 DEF MayGo, Label, ReconcileLabels, DeadLabels, BootLabels, LockedLabels
  <2> HIDE DEF k
  <2>3. JobRight(k, c)
    BY <1>1, <2>1, <2>2, GoRight
  <2> QED  BY <1>3, <2>1, <2>3, JobSet DEF k, JobGoes
<1>4. ASSUME NEW T \in SUBSET Name, j.at = "raising",
             job' = [job EXCEPT ![c] = [j EXCEPT !.todo = T]]
      PROVE  JobGoes(c, "raising")
  <2> DEFINE k == [j EXCEPT !.todo = T]
  <2>1. k \in JobType /\ k.at = j.at /\ k.verb = j.verb /\ k.sess = j.sess /\ k.ret = j.ret
    <3> HIDE DEF j
    <3> QED  BY <1>2 DEF JobType
  <2>2. MayGo(c, "raising")
    BY <1>1 DEF MayGo, Label, ReconcileLabels, DeadLabels, BootLabels, LockedLabels
  <2> HIDE DEF k
  <2>3. JobRight(k, c)
    BY <1>1, <1>4, <2>1, <2>2, GoRight
  <2> QED  BY <1>4, <2>1, <2>3, JobSet DEF k, JobGoes
<1>5. CASE At(c, "reap")
  <2> DEFINE T == {n \in Name : live[n] # NoDriver /\ (j.all[n] = Absent \/ j.all[n].archived)}
  <2>1. job' = [job EXCEPT ![c] = [j EXCEPT !.at = "reaping", !.todo = T]] /\ T \in SUBSET Name
    BY <1>5 DEF Reconcile, At
  <2> HIDE DEF T
  <2> QED  BY <1>3, <2>1 DEF JobGoes, ReconcileLabels
<1>6. CASE At(c, "reaping") /\ j.todo # {}
  <2>1. PICK n \in j.todo : GoDead(c, n, "reaping")
    BY <1>6 DEF Reconcile, At
  <2> QED  BY <1>1, <1>2, <1>6, <2>1, GoDeadJob DEF At, JobGoes, ReconcileLabels, DeadLabels
<1>7. CASE At(c, "reaping") /\ j.todo = {}
  <2> DEFINE T == {n \in Name : j.all[n] # Absent /\ ~j.all[n].archived}
  <2>1. job' = [job EXCEPT ![c] = [j EXCEPT !.at = "raising", !.todo = T]] /\ T \in SUBSET Name
    BY <1>7 DEF Reconcile, At
  <2> HIDE DEF T
  <2> QED  BY <1>3, <2>1 DEF JobGoes, ReconcileLabels
<1>8. CASE At(c, "raising") /\ j.todo # {}
  <2>1. PICK n \in j.todo : job' = [job EXCEPT ![c].todo = @ \ {n}]
    BY <1>8 DEF Reconcile, At
  <2>2. j.todo \ {n} \in SUBSET Name /\ job' = [job EXCEPT ![c] = [j EXCEPT !.todo = j.todo \ {n}]]
    BY <1>2, <2>1
  <2> QED  BY <1>4, <1>8, <2>2 DEF At, JobGoes, ReconcileLabels
<1>9. CASE At(c, "raising") /\ j.todo = {}
  BY <1>9, JobSet DEF Reconcile, At
<1> QED  BY <1>5, <1>6, <1>7, <1>8, <1>9 DEF Reconcile

LEMMA BootJob ==
  ASSUME JobInv, NEW c \in Caller, BootLoop(c)
  PROVE  /\ JobInv' /\ (job'[c] = NoJob \/ job'[c].at \in BootLabels)
         /\ \A b \in Caller \ {c} : job'[b] = job[b]
<1> DEFINE j == job[c]
<1>1. Busy(c) /\ j.at \in BootLabels
  BY DEF BootLoop, At, BootLabels
<1>2. j \in JobType /\ JobOK(c) /\ j.todo \subseteq Name /\ j.cur \in Name
  BY <1>1, BusyTyped DEF JobInv
<1>3. j.verb = "boot" /\ \A n \in j.todo : j.all[n] # Absent
  BY <1>1, <1>2 DEF JobOK, BootLabels, ReconcileLabels, DeadLabels
<1>4. CASE At(c, "boot") /\ j.todo = {}
  BY <1>4, JobSet DEF BootLoop, At
<1>5. CASE At(c, "boot") /\ j.todo # {}
  <2>1. PICK n \in j.todo :
           job' = [job EXCEPT ![c].at = "boot.start", ![c].cur = n, ![c].todo = @ \ {n}]
    BY <1>5 DEF BootLoop, At
  <2> DEFINE T == j.todo \ {n}
             k == [j EXCEPT !.at = "boot.start", !.cur = n, !.todo = T]
  <2>2. job' = [job EXCEPT ![c] = k] /\ T \in SUBSET Name /\ n \in Name
    BY <1>2, <2>1
  <2>3. /\ k \in JobType /\ k.at = "boot.start" /\ k.verb = j.verb /\ k.all = j.all
        /\ k.todo = T /\ k.cur = n
    <3> HIDE DEF j, T
    <3> QED  BY <1>2, <2>2 DEF JobType, Label, BootLabels
  <2> HIDE DEF k
  <2>4. JobRight(k, c)
    BY <1>3, <2>1, <2>3 DEF JobRight, BootLabels, DeadLabels, LockedLabels
  <2> QED  BY <2>2, <2>3, <2>4, JobSet DEF BootLabels
<1>6. CASE At(c, "boot.start")
  <2>1. Go(c, "boot")
    BY <1>6 DEF BootLoop, SupCall, At
  <2> DEFINE k == [j EXCEPT !.at = "boot"]
  <2>2. job' = [job EXCEPT ![c] = k]
    BY <2>1 DEF Go
  <2>3. /\ k \in JobType /\ k.at = "boot" /\ k.verb = j.verb /\ k.all = j.all
        /\ k.todo = j.todo
    <3> HIDE DEF j
    <3> QED  BY <1>2 DEF JobType, Label, BootLabels
  <2> HIDE DEF k
  <2>4. JobRight(k, c)
    BY <1>3, <2>3 DEF JobRight, BootLabels, DeadLabels, LockedLabels
  <2> QED  BY <2>2, <2>3, <2>4, JobSet DEF BootLabels
<1> QED  BY <1>4, <1>5, <1>6 DEF BootLoop

\* A verb begins, with a row it read.
LEMMA BeginJob ==
  ASSUME JobInv, RecTyped, NEW c \in Caller, NEW v \in Verbs \ {"boot"}, NEW n \in Name,
         NEW m \in Name, NEW s \in Sessions, v # "other" => s # Absent,
         v \in LockedLabels => c = Disp,
         job' = [job EXCEPT ![c] = Job(v, n, m, s)]
  PROVE  /\ JobGoes(c, v) /\ job'[c].name = n
<1> DEFINE k == Job(v, n, m, s)
<1>1. k \in JobType /\ k.verb = v /\ k.at = v /\ k.sess = s /\ k.name = n
  BY FreshJob
<1> HIDE DEF k
<1>2. JobRight(k, c)
  BY <1>1 DEF JobRight, Verbs, ReconcileLabels, DeadLabels, BootLabels
<1> QED  BY <1>1, <1>2, JobSet DEF k, JobGoes

LEMMA DispatchJob ==
  ASSUME JobInv, RecTyped, NEW v \in Verb, NEW n \in Name, NEW m \in Name, NEW w \in Vendor,
         Dispatch(v, n, m, w)
  PROVE  /\ JobGoes(Disp, v) /\ job'[Disp].name = n
         /\ v = "switch" => Recorded(n)
<1> DEFINE fresh == [vendor |-> w, token |-> NoToken, archived |-> FALSE]
           s == IF v \in {"create", "switch"} THEN fresh ELSE rec[n]
<1>1. v \in Verbs \ {"boot"} /\ Disp \in Caller
  BY VerbAssumption, CallerAssumption DEF Verbs
<1>2. fresh \in Session
  BY DEF Session, Token
<1>3. s \in Sessions /\ (v # "other" => s # Absent)
  BY <1>1, <1>2, DriverAssumption DEF RecTyped, Sessions, Dispatch, Verbs
<1>4. job' = [job EXCEPT ![Disp] = Job(v, n, m, s)]
  BY DEF Dispatch
<1>5. v = "switch" => Recorded(n)
  BY DEF Dispatch, Recorded
<1> HIDE DEF s
<1> QED  BY <1>1, <1>3, <1>4, <1>5, BeginJob

LEMMA UnlockedJob ==
  ASSUME JobInv, RecTyped, NEW c \in Unlocked, NEW v \in UnlockedVerb, NEW n \in Name,
         UnlockedCall(c, v, n)
  PROVE  JobGoes(c, v) /\ v \in {"resume", "restart"}
<1>1. v \in {"resume", "restart"} /\ c \in Caller
  BY VerbAssumption, CallerAssumption
<1>2. rec[n] \in Sessions /\ rec[n] # Absent /\ job' = [job EXCEPT ![c] = Job(v, n, n, rec[n])]
  BY DEF UnlockedCall, Recorded, RecTyped
<1> QED  BY <1>1, <1>2, BeginJob DEF Verbs, LockedLabels

-----------------------------------------------------------------------------
(* One step of a caller. *)

SwitchLabels == {"switch", "switch.restart"}
RowsKept == \A n \in Name : rec[n] # Absent => rec'[n] # Absent

HubFine == TurnInv' /\ DriverTyped'

\* What a step of caller c leaves true, and that the supervisor takes one of its
\* own steps in it, or none.
Fine(c) ==
  /\ JobInv' /\ \A b \in Caller \ {c} : job'[b] = job[b]
  /\ (Busy(c) /\ job[c].at \in SwitchLabels => Recorded(job[c].name))'
  /\ RecTyped' /\ (c # Disp => RowsKept)
  /\ [SupNext]_supVars
  /\ HubFine

LEMMA OuterStays == [SupNext]_supVars /\ outer => outer'
BY DEF SupNext, supVars, Begin, CallerStep, Launch, FindRunning, StopNothing, StopRun, Waited,
   LoopStep, LoopTop, BridgeExits, Unpark, BackoffEnds, GoTo, CtxEnds

LEMMA HubSame ==
  ASSUME LifeInv, [SupNext]_supVars, UNCHANGED <<live, driver, turn, socket>>,
         marred' \subseteq Name
  PROVE  HubFine
BY DEF HubFine, LifeInv, TurnInv, DriverTyped

LEMMA SupCallFine ==
  ASSUME LifeInv, NEW c \in Caller, Busy(c), NEW op \in {"start", "stop", "restart"},
         NEW n \in Name, NEW s \in Session, NEW l \in Label \ SwitchLabels,
         SupCall(c, op, n, s, l), MayGo(c, l)
  PROVE  Fine(c)
<1>1. JobGoes(c, l)
  BY GoJob DEF LifeInv, SupCall, JobGoes
<1>2. Begin(c, op, n, ConfOf(s)) /\ ConfOf(s) \in Conf
  BY ConfAssumption DEF SupCall, Session, ConfOf
<1>3. SupNext
  BY <1>2 DEF SupNext
<1>4. UNCHANGED <<live, driver, turn, socket, rec, disk, marred>>
  BY DEF SupCall, hubVars
<1>5. HubFine
  BY <1>3, <1>4, HubSame DEF LifeInv, DriverTyped
<1> QED  BY <1>1, <1>3, <1>4, <1>5 DEF Fine, JobGoes, LifeInv, RecTyped, RowsKept

\* A change of the rows, saved or not.
Saved(new, names) == SaveWorks(new) \/ SaveFails(new, names) \/ Unchanged(new)

LEMMA SavedRows ==
  ASSUME LifeInv, NEW new \in [Name -> Sessions], NEW names \in SUBSET Name, Saved(new, names),
         UNCHANGED <<supVars, live, driver, turn, socket>>
  PROVE  rec' = new /\ RecTyped' /\ HubFine
<1>1. rec' = new /\ RecTyped' /\ marred' \subseteq Name
  BY DEF Saved, SaveWorks, SaveFails, Unchanged, LifeInv, RecTyped, DriverTyped
<1> QED  BY <1>1, HubSame

LEMMA SaveGoFine ==
  ASSUME LifeInv, NEW c \in Caller, Busy(c), NEW new \in [Name -> Sessions],
         NEW names \in SUBSET Name, Saved(new, names), NEW l \in Label, MayGo(c, l), Go(c, l),
         UNCHANGED <<supVars, live, driver, turn, socket>>,
         c # Disp => \A n \in Name : rec[n] # Absent => new[n] # Absent,
         l \in SwitchLabels => new[job[c].name] # Absent
  PROVE  Fine(c)
<1>1. JobGoes(c, l) /\ job'[c].name = job[c].name
  BY GoJob DEF LifeInv, JobGoes
<1>2. rec' = new /\ RecTyped' /\ HubFine
  BY SavedRows
<1> QED  BY <1>1, <1>2 DEF Fine, JobGoes, RowsKept, Recorded

LEMMA SaveFailFine ==
  ASSUME LifeInv, NEW c \in Caller, Busy(c), NEW new \in [Name -> Sessions],
         NEW names \in SUBSET Name, Saved(new, names), Fail(c), job[c].at \notin BootLabels,
         UNCHANGED <<supVars, live, driver, turn, socket>>,
         c # Disp => \A n \in Name : rec[n] # Absent => new[n] # Absent
  PROVE  Fine(c)
<1>1. JobGoes(c, "finish")
  BY FailJob DEF LifeInv, JobGoes
<1>2. rec' = new /\ RecTyped' /\ HubFine
  BY SavedRows
<1> QED  BY <1>1, <1>2 DEF Fine, JobGoes, RowsKept, SwitchLabels

LEMMA WriteFine ==
  ASSUME LifeInv, NEW c \in Caller, Busy(c), NEW new \in [Name -> Sessions],
         NEW names \in SUBSET Name, NEW l \in Label, MayGo(c, l),
         Write(c, new, names, l) \/ WriteIfChanged(c, new, names, l),
         c # Disp => \A n \in Name : rec[n] # Absent => new[n] # Absent,
         l \in SwitchLabels => new[job[c].name] # Absent
  PROVE  Fine(c)
<1>1. UNCHANGED <<supVars, live, driver, turn, socket>>
  BY DEF Write, WriteIfChanged
<1>2. Saved(new, names) /\ (Go(c, l) \/ Fail(c))
  BY DEF Write, WriteIfChanged, Saved
<1>3. CASE Go(c, l)
  BY <1>1, <1>2, <1>3, SaveGoFine
<1>4. CASE Fail(c)
  BY <1>1, <1>2, <1>4, SaveFailFine DEF MayGo
<1> QED  BY <1>2, <1>3, <1>4

\* The setters of a row keep the rows typed, and keep them all.
LEMMA SetRows ==
  ASSUME RecTyped, NEW n \in Name, NEW b \in BOOLEAN, NEW t \in Token
  PROVE  /\ SetArchived(n, b) \in [Name -> Sessions] /\ SetResumeToken(n, t) \in [Name -> Sessions]
         /\ \A k \in Name : rec[k] # Absent => SetArchived(n, b)[k] # Absent
                                               /\ SetResumeToken(n, t)[k] # Absent
<1> DEFINE r == rec[n]
<1>1. CASE ~Recorded(n)
  BY <1>1 DEF SetArchived, SetResumeToken, RecTyped
<1>2. CASE Recorded(n)
  <2>1. r \in Session
    BY <1>2, RowOrAbsent DEF Recorded, RecTyped
  <2>2. [r EXCEPT !.archived = b] \in Session /\ [r EXCEPT !.token = t] \in Session
    <3> HIDE DEF r
    <3> QED  BY <2>1 DEF Session
  <2>3. SetArchived(n, b) = [rec EXCEPT ![n] = [r EXCEPT !.archived = b]]
        /\ SetResumeToken(n, t) = [rec EXCEPT ![n] = [r EXCEPT !.token = t]]
    BY <1>2 DEF SetArchived, SetResumeToken
  <2> DEFINE x == [r EXCEPT !.archived = b]
             y == [r EXCEPT !.token = t]
  <2>4. x \in Session /\ y \in Session /\ x # Absent /\ y # Absent
    BY <2>2, DriverAssumption
  <2>5. SetArchived(n, b) = [rec EXCEPT ![n] = x] /\ SetResumeToken(n, t) = [rec EXCEPT ![n] = y]
    BY <2>3
  <2> HIDE DEF x, y, r
  <2> QED  BY <2>4, <2>5 DEF RecTyped, Sessions
<1> QED  BY <1>1, <1>2

\* Where a verb stands, and what it is about.
VerbLabels == LockedLabels \cup FreeLabels \cup {"finish"}

LEMMA AtVerb ==
  ASSUME LifeInv, NEW c \in Caller, NEW l \in LockedLabels \cup FreeLabels, At(c, l)
  PROVE  /\ Busy(c) /\ job[c].at = l /\ job[c].name \in Name /\ job[c].to \in Name
         /\ job[c].sess \in Session /\ job[c].sess # Absent /\ JobOK(c)
         /\ l \in LockedLabels => c = Disp
         /\ \A k \in VerbLabels : (k \in LockedLabels => l \in LockedLabels) => MayGo(c, k)
<1>1. Busy(c) /\ job[c].at = l /\ JobOK(c)
  BY DEF At, LifeInv, JobInv
<1>2. job[c].at \notin ({"other"} \cup ReconcileLabels \cup BootLabels)
  BY <1>1 DEF ReconcileLabels, DeadLabels, BootLabels, LockedLabels, FreeLabels
<1>3. job[c].sess \in Session /\ job[c].name \in Name /\ job[c].to \in Name
  BY <1>1, <1>2, BusyTyped DEF LifeInv
<1>4. l \in LockedLabels => c = Disp
  BY <1>1 DEF JobOK
<1>5. job[c].sess # Absent
  BY <1>3, DriverAssumption
<1>6. job[c].verb # "other"
  BY <1>1, <1>2 DEF JobOK
<1>7. ASSUME NEW k \in VerbLabels, k \in LockedLabels => l \in LockedLabels
      PROVE  MayGo(c, k)
  <2>1. k \in Label \ ({"other"} \cup BootLabels) /\ k \notin DeadLabels
    BY DEF VerbLabels, Label, ReconcileLabels, DeadLabels, BootLabels, LockedLabels, FreeLabels
  <2> QED  BY <1>2, <1>4, <1>6, <1>7, <2>1 DEF MayGo
<1> QED  BY <1>1, <1>3, <1>4, <1>5, <1>7

\* A verb that calls the supervisor about its session goes on.
LEMMA VerbCalls ==
  ASSUME LifeInv, NEW c \in Caller, NEW l \in LockedLabels \cup FreeLabels, At(c, l),
         NEW k \in VerbLabels \ SwitchLabels, k \in LockedLabels => l \in LockedLabels,
         NEW op \in {"start", "stop", "restart"}, NEW n \in {job[c].name, job[c].to},
         SupCall(c, op, n, job[c].sess, k)
  PROVE  Fine(c)
<1>1. Busy(c) /\ n \in Name /\ job[c].sess \in Session /\ MayGo(c, k)
  BY AtVerb
<1>2. k \in Label \ SwitchLabels
  BY DEF VerbLabels, Label, ReconcileLabels
<1> QED  BY <1>1, <1>2, SupCallFine

LEMMA CreateFine == ASSUME LifeInv, NEW c \in Caller, Create(c) PROVE Fine(c)
<1> DEFINE n == job[c].name
<1>0. /\ {"create", "create.start"} \subseteq FreeLabels \cap Label \cap VerbLabels
      /\ {"create.start", "finish"} \subseteq VerbLabels \ (SwitchLabels \cup LockedLabels)
  BY DEF FreeLabels, LockedLabels, SwitchLabels, VerbLabels, Label
<1>1. CASE At(c, "create") /\ Write(c, [rec EXCEPT ![n] = job[c].sess], {n}, "create.start")
  <2>1. /\ Busy(c) /\ n \in Name /\ job[c].sess \in Session /\ job[c].sess # Absent
        /\ MayGo(c, "create.start")
    BY <1>0, <1>1, AtVerb
  <2> DEFINE new == [rec EXCEPT ![n] = job[c].sess]
  <2>2. new \in [Name -> Sessions] /\ \A k \in Name : rec[k] # Absent => new[k] # Absent
    BY <2>1 DEF LifeInv, RecTyped, Sessions
  <2> HIDE DEF new
  <2> QED  BY <1>0, <1>1, <2>1, <2>2, WriteFine DEF new
<1>2. CASE At(c, "create.start") /\ SupCall(c, "start", n, job[c].sess, "finish")
  BY <1>0, <1>2, VerbCalls
<1> QED  BY <1>1, <1>2 DEF Create

LEMMA CloseFine == ASSUME LifeInv, NEW c \in Caller, Close(c) PROVE Fine(c)
<1> DEFINE n == job[c].name
           new == [rec EXCEPT ![n] = Absent]
<1>0. /\ {"close", "close.tree", "close.remove", "close.failed"} \subseteq LockedLabels
      /\ {"close.tree", "close.remove", "close.failed", "finish"}
           \subseteq (VerbLabels \cap Label) \ SwitchLabels
  BY DEF LockedLabels, SwitchLabels, VerbLabels, Label, ReconcileLabels
<1>1. CASE At(c, "close") /\ SupCall(c, "stop", n, job[c].sess, "close.tree")
  BY <1>0, <1>1, VerbCalls
<1>2. CASE At(c, "close.tree") /\ Go(c, "close.remove") /\ UNCHANGED <<supVars, hubVars>>
  <2>1. Busy(c) /\ MayGo(c, "close.remove") /\ c = Disp
    BY <1>0, <1>2, AtVerb
  <2>2. Saved(rec, {}) /\ rec \in [Name -> Sessions]
        /\ UNCHANGED <<supVars, live, driver, turn, socket>>
    BY <1>2 DEF Saved, Unchanged, hubVars, LifeInv, RecTyped
  <2> QED  BY <1>0, <1>2, <2>1, <2>2, SaveGoFine
<1>3. CASE At(c, "close.tree") /\ SupCall(c, "start", n, job[c].sess, "finish")
  BY <1>0, <1>3, VerbCalls
<1>4. CASE /\ At(c, "close.remove")
           /\ \/ SaveWorks(new) /\ Go(c, "finish")
              \/ SaveFails(new, {n}) /\ Go(c, "close.failed")
           /\ UNCHANGED <<supVars, live, driver, turn, socket>>
  <2>1. Busy(c) /\ MayGo(c, "finish") /\ MayGo(c, "close.failed") /\ c = Disp /\ n \in Name
    BY <1>0, <1>4, AtVerb
  <2>2. new \in [Name -> Sessions]
    BY <2>1 DEF LifeInv, RecTyped, Sessions
  <2>3. /\ Saved(new, {n})
        /\ Go(c, "finish") \/ Go(c, "close.failed")
    BY <1>4 DEF Saved
  <2> HIDE DEF new
  <2> QED  BY <1>0, <1>4, <2>1, <2>2, <2>3, SaveGoFine
<1>5. CASE At(c, "close.failed") /\ SupCall(c, "start", n, job[c].sess, "finish")
  BY <1>0, <1>5, VerbCalls
<1> QED  BY <1>1, <1>2, <1>3, <1>4, <1>5 DEF Close

LEMMA ArchiveFine == ASSUME LifeInv, NEW c \in Caller, Archive(c) \/ Unarchive(c) PROVE Fine(c)
<1> DEFINE n == job[c].name
<1>0. /\ {"archive", "archive.set", "unarchive", "unarchive.start"} \subseteq FreeLabels
      /\ {"archive.set", "unarchive.start", "finish"}
           \subseteq (VerbLabels \cap Label) \ (SwitchLabels \cup LockedLabels)
  BY DEF FreeLabels, LockedLabels, SwitchLabels, VerbLabels, Label, ReconcileLabels
<1>1. ASSUME NEW b \in BOOLEAN, NEW l \in {"finish", "unarchive.start"},
             At(c, "archive.set") \/ At(c, "unarchive"),
             WriteIfChanged(c, SetArchived(n, b), {n}, l)
      PROVE  Fine(c)
  <2>0. l \in (VerbLabels \cap Label) \ (SwitchLabels \cup LockedLabels)
    BY <1>0
  <2>1. Busy(c) /\ n \in Name /\ MayGo(c, l)
    BY <1>0, <1>1, <2>0, AtVerb
  <2>2. NoToken \in Token /\ RecTyped
    BY DEF Token, LifeInv
  <2>3. /\ SetArchived(n, b) \in [Name -> Sessions]
        /\ \A k \in Name : rec[k] # Absent => SetArchived(n, b)[k] # Absent
    BY <2>1, <2>2, SetRows
  <2> QED  BY <1>1, <2>0, <2>1, <2>3, WriteFine
<1>2. CASE At(c, "archive") /\ SupCall(c, "stop", n, job[c].sess, "archive.set")
  BY <1>0, <1>2, VerbCalls
<1>3. CASE At(c, "unarchive.start") /\ SupCall(c, "start", n, job[c].sess, "finish")
  BY <1>0, <1>3, VerbCalls
<1> QED  BY <1>1, <1>2, <1>3 DEF Archive, Unarchive

LEMMA RenameFine == ASSUME LifeInv, NEW c \in Caller, Rename(c) PROVE Fine(c)
<1> DEFINE n == job[c].name
           m == job[c].to
           new == [rec EXCEPT ![m] = rec[n], ![n] = Absent]
<1>0. /\ {"rename", "rename.set", "rename.start", "rename.failed"} \subseteq LockedLabels
      /\ {"rename.set", "rename.start", "rename.failed", "finish"}
           \subseteq (VerbLabels \cap Label) \ SwitchLabels
  BY DEF LockedLabels, SwitchLabels, VerbLabels, Label, ReconcileLabels
<1>1. CASE At(c, "rename") /\ SupCall(c, "stop", n, job[c].sess, "rename.set")
  BY <1>0, <1>1, VerbCalls
<1>2. CASE /\ At(c, "rename.set")
           /\ \/ SaveWorks(new) /\ Go(c, "rename.start")
              \/ SaveFails(new, {n, m}) /\ Go(c, "rename.failed")
           /\ UNCHANGED <<supVars, live, driver, turn, socket>>
  <2>1. /\ Busy(c) /\ MayGo(c, "rename.start") /\ MayGo(c, "rename.failed") /\ c = Disp
        /\ n \in Name /\ m \in Name
    BY <1>0, <1>2, AtVerb
  <2>2. new \in [Name -> Sessions]
    BY <2>1 DEF LifeInv, RecTyped, Sessions
  <2>3. /\ Saved(new, {n, m})
        /\ Go(c, "rename.start") \/ Go(c, "rename.failed")
    BY <1>2 DEF Saved
  <2> HIDE DEF new
  <2> QED  BY <1>0, <1>2, <2>1, <2>2, <2>3, SaveGoFine
<1>3. CASE At(c, "rename.start") /\ SupCall(c, "start", m, job[c].sess, "finish")
  BY <1>0, <1>3, VerbCalls
<1>4. CASE At(c, "rename.failed") /\ SupCall(c, "start", n, job[c].sess, "finish")
  BY <1>0, <1>4, VerbCalls
<1> QED  BY <1>1, <1>2, <1>3, <1>4 DEF Rename

LEMMA SwitchFine == ASSUME LifeInv, NEW c \in Caller, Switch(c) PROVE Fine(c)
<1> DEFINE n == job[c].name
           r == rec[n]
           v == job[c].sess.vendor
<1>0. /\ {"switch", "switch.restart"} \subseteq LockedLabels \cap VerbLabels \cap Label
      /\ {"finish"} \subseteq (VerbLabels \cap Label) \ (SwitchLabels \cup LockedLabels)
  BY DEF LockedLabels, SwitchLabels, VerbLabels, Label, ReconcileLabels
<1>1. At(c, "switch") \/ At(c, "switch.restart")
  BY DEF Switch
<1>2. /\ Busy(c) /\ n \in Name /\ c = Disp /\ r \in Session /\ v \in Vendor
      /\ MayGo(c, "finish") /\ MayGo(c, "switch.restart")
  <2>1. Busy(c) /\ n \in Name /\ c = Disp /\ job[c].sess \in Session /\ MayGo(c, "finish")
        /\ MayGo(c, "switch.restart")
    BY <1>0, <1>1, AtVerb
  <2>2. r \in Session
    BY <1>1, <2>1, RowOrAbsent DEF LifeInv, SwitchInv, At, Recorded, RecTyped
  <2> QED  BY <2>1, <2>2 DEF Session
<1>3. CASE At(c, "switch") /\ Write(c, [rec EXCEPT ![n].vendor = v, ![n].token = NoToken], {n},
                                    "switch.restart")
  <2> DEFINE x == [r EXCEPT !.vendor = v, !.token = NoToken]
             new == [rec EXCEPT ![n] = x]
             two == [rec EXCEPT ![n].vendor = v, ![n].token = NoToken]
  <2>1. NoToken \in Token
    BY DEF Token
  <2>2. x \in Session
    <3> HIDE DEF r, v
    <3> QED  BY <1>2, <2>1 DEF Session
  <2>3. x # Absent
    BY <2>2, DriverAssumption
  <2>4. two = new
    BY <1>2 DEF LifeInv, RecTyped
  <2>5. new \in [Name -> Sessions] /\ new[n] # Absent
    <3> HIDE DEF x
    <3> QED  BY <1>2, <2>2, <2>3 DEF LifeInv, RecTyped, Sessions
  <2>6. Write(c, new, {n}, "switch.restart")
    BY <1>3, <2>4
  <2> HIDE DEF new
  <2> QED  BY <1>0, <1>2, <1>3, <2>5, <2>6, WriteFine
<1>4. CASE At(c, "switch.restart") /\ SupCall(c, "restart", n, r, "finish")
  <2>1. "finish" \in Label \ SwitchLabels
    BY <1>0
  <2> QED  BY <1>2, <1>4, <2>1, SupCallFine
<1> QED  BY <1>3, <1>4 DEF Switch

LEMMA GoLiveFine ==
  ASSUME LifeInv, NEW n \in Name, GoLive(n)
  PROVE  HubFine /\ RecTyped' /\ RowsKept /\ UNCHANGED <<supVars, rec, disk>>
<1>1. UNCHANGED <<supVars, rec, disk, turn>>
  BY DEF GoLive
<1>2. RecTyped' /\ RowsKept /\ TurnInv'
  BY <1>1 DEF LifeInv, RecTyped, RowsKept, TurnInv
<1>3. CASE UNCHANGED <<live, driver, socket>> /\ marred' \subseteq Name
  BY <1>1, <1>2, <1>3 DEF HubFine, LifeInv, DriverTyped
<1>4. ASSUME NEW d \in Driver, live' = [live EXCEPT ![n] = d],
             driver' = [driver EXCEPT ![d] = [at |-> "driving", name |-> n, cancelled |-> FALSE]],
             socket' = [socket EXCEPT ![n] = d], marred' = marred
      PROVE  DriverTyped'
  BY <1>4 DEF LifeInv, DriverTyped
<1>5. \/ UNCHANGED <<live, driver, socket>> /\ marred' \subseteq Name
      \/ \E d \in Driver :
            /\ live' = [live EXCEPT ![n] = d]
            /\ driver' = [driver EXCEPT ![d] = [at |-> "driving", name |-> n, cancelled |-> FALSE]]
            /\ socket' = [socket EXCEPT ![n] = d] /\ marred' = marred
  BY DEF GoLive, LifeInv, DriverTyped
<1> QED  BY <1>1, <1>2, <1>3, <1>4, <1>5 DEF HubFine

\* A session goes live, and the caller goes on.
LEMMA LiveGoFine ==
  ASSUME LifeInv, NEW c \in Caller, NEW n \in Name, GoLive(n), JobInv',
         \A b \in Caller \ {c} : job'[b] = job[b],
         job'[c] = NoJob \/ job'[c].at \notin SwitchLabels
  PROVE  Fine(c)
BY GoLiveFine DEF Fine, Busy

LEMMA ResumeFine == ASSUME LifeInv, NEW c \in Caller, Resume(c) PROVE Fine(c)
<1> DEFINE n == job[c].name
           new == IF job[c].sess.archived THEN SetArchived(n, FALSE) ELSE rec
<1>0. /\ {"resume", "resume.live", "resume.start"} \subseteq FreeLabels
      /\ {"resume.live", "resume.start", "finish"}
           \subseteq (VerbLabels \cap Label) \ (SwitchLabels \cup LockedLabels)
  BY DEF FreeLabels, LockedLabels, SwitchLabels, VerbLabels, Label, ReconcileLabels
<1>1. CASE At(c, "resume") /\ WriteIfChanged(c, new, {n}, "resume.live")
  <2>1. Busy(c) /\ n \in Name /\ MayGo(c, "resume.live")
    BY <1>0, <1>1, AtVerb
  <2>2. NoToken \in Token /\ RecTyped
    BY DEF Token, LifeInv
  <2>3. new \in [Name -> Sessions] /\ \A k \in Name : rec[k] # Absent => new[k] # Absent
    BY <2>1, <2>2, SetRows DEF RecTyped
  <2> HIDE DEF new
  <2> QED  BY <1>0, <1>1, <2>1, <2>3, WriteFine
<1>2. CASE At(c, "resume.live") /\ GoLive(n) /\ Go(c, "resume.start")
  <2>1. Busy(c) /\ n \in Name /\ MayGo(c, "resume.start")
    BY <1>0, <1>2, AtVerb
  <2>2. JobGoes(c, "resume.start")
    BY <1>2, <2>1, GoJob DEF JobGoes, LifeInv
  <2> QED  BY <1>0, <1>2, <2>1, <2>2, LiveGoFine DEF JobGoes
<1>3. CASE At(c, "resume.start") /\ SupCall(c, "start", n, job[c].sess, "finish")
  BY <1>0, <1>3, VerbCalls
<1> QED  BY <1>1, <1>2, <1>3 DEF Resume

\* A call of goDead: the supervisor's Stop begins.
LEMMA DeadCall ==
  ASSUME LifeInv, NEW c \in Caller, NEW n \in Name, NEW l, GoDead(c, n, l), UNCHANGED hubVars
  PROVE  RecTyped' /\ RowsKept /\ SupNext /\ HubFine
<1>1. SupNext
  BY SomeNames DEF GoDead, SupNext
<1>2. RecTyped' /\ RowsKept /\ UNCHANGED <<live, driver, turn, socket>> /\ marred' \subseteq Name
  BY DEF hubVars, LifeInv, RecTyped, RowsKept, DriverTyped
<1> QED  BY <1>1, <1>2, HubSame

LEMMA RestartFine == ASSUME LifeInv, NEW c \in Caller, Restart(c) PROVE Fine(c)
<1> DEFINE n == job[c].name
           s == job[c].sess
           t == CutToken(c)
<1>0. /\ {"restart", "restart.set", "restart.live", "restart.start"} \subseteq FreeLabels
      /\ {"restart.set", "restart.live", "restart.start", "finish"}
           \subseteq (VerbLabels \cap Label) \ (SwitchLabels \cup LockedLabels)
  BY DEF FreeLabels, LockedLabels, SwitchLabels, VerbLabels, Label, ReconcileLabels
<1>1. At(c, "restart") \/ At(c, "restart.set") \/ At(c, "restart.live") \/ At(c, "restart.start")
  BY DEF Restart
<1>2. /\ Busy(c) /\ n \in Name /\ s \in Session
      /\ MayGo(c, "restart.set") /\ MayGo(c, "restart.live") /\ MayGo(c, "restart.start")
      /\ MayGo(c, "finish")
  BY <1>0, <1>1, AtVerb
<1>3. t \in Token /\ [s EXCEPT !.token = t] \in Session
  <2>1. t \in Token
    BY <1>2 DEF CutToken, Token, Session
  <2> HIDE DEF s, t
  <2> QED  BY <1>2, <2>1 DEF Session
<1>4. CASE At(c, "restart") /\ GoDead(c, n, "restart.set") /\ UNCHANGED hubVars
  <2>1. JobGoes(c, "dead.delete")
    BY <1>2, <1>4, GoDeadJob DEF LifeInv, At
  <2>2. RecTyped' /\ RowsKept /\ SupNext /\ HubFine
    BY <1>2, <1>4, DeadCall
  <2> QED  BY <2>1, <2>2 DEF Fine, JobGoes, SwitchLabels
<1>5. CASE At(c, "restart.set") /\ WriteIfChanged(c, SetResumeToken(n, t), {n}, "restart.live")
  <2>1. /\ SetResumeToken(n, t) \in [Name -> Sessions]
        /\ \A k \in Name : rec[k] # Absent => SetResumeToken(n, t)[k] # Absent
    BY <1>2, <1>3, SetRows DEF LifeInv
  <2> QED  BY <1>0, <1>2, <1>5, <2>1, WriteFine
<1>6. CASE At(c, "restart.live") /\ GoLive(n) /\ Go(c, "restart.start")
  <2>1. JobGoes(c, "restart.start")
    BY <1>2, <1>6, GoJob DEF JobGoes, LifeInv
  <2> QED  BY <1>0, <1>2, <1>6, <2>1, LiveGoFine DEF JobGoes
<1>7. CASE At(c, "restart.start") /\ SupCall(c, "start", n, [s EXCEPT !.token = t], "finish")
  <2> DEFINE x == [s EXCEPT !.token = t]
  <2>1. x \in Session /\ "finish" \in Label \ SwitchLabels
    BY <1>0, <1>3
  <2> HIDE DEF x
  <2> QED  BY <1>2, <1>7, <2>1, SupCallFine DEF x
<1> QED  BY <1>4, <1>5, <1>6, <1>7 DEF Restart

LEMMA BootFine == ASSUME LifeInv, NEW c \in Caller, BootLoop(c) PROVE Fine(c)
<1> DEFINE j == job[c]
<1>1. /\ JobInv' /\ (job'[c] = NoJob \/ job'[c].at \in BootLabels)
      /\ \A b \in Caller \ {c} : job'[b] = job[b]
  BY BootJob DEF LifeInv
<1>2. job'[c] = NoJob \/ job'[c].at \notin SwitchLabels
  BY <1>1 DEF BootLabels, SwitchLabels
<1>3. Busy(c) /\ JobOK(c) /\ j.todo \subseteq Name /\ j.cur \in Name /\ j.all \in [Name -> Sessions]
  BY BusyTyped DEF LifeInv, JobInv, BootLoop, At
<1>4. CASE UNCHANGED <<supVars, hubVars>>
  <2>1. RecTyped' /\ RowsKept /\ UNCHANGED <<live, driver, turn, socket>> /\ marred' \subseteq Name
    BY <1>4 DEF hubVars, LifeInv, RecTyped, RowsKept, DriverTyped
  <2> QED  BY <1>1, <1>2, <1>4, <2>1, HubSame DEF Fine, Busy
<1>5. ASSUME NEW n \in j.todo, GoLive(n) PROVE Fine(c)
  BY <1>1, <1>2, <1>3, <1>5, LiveGoFine
<1>6. CASE At(c, "boot.start") /\ SupCall(c, "start", j.cur, j.all[j.cur], "boot")
  <2>1. j.all[j.cur] \in Session
    BY <1>3, <1>6, RowOrAbsent DEF JobOK, At, BootLabels, ReconcileLabels, DeadLabels
  <2>2. SupNext
    BY <1>3, <1>6, <2>1, ConfAssumption DEF SupCall, SupNext, Session, ConfOf
  <2>3. RecTyped' /\ RowsKept /\ UNCHANGED <<live, driver, turn, socket>> /\ marred' \subseteq Name
    BY <1>6 DEF SupCall, hubVars, LifeInv, RecTyped, RowsKept, DriverTyped
  <2> QED  BY <1>1, <1>2, <2>2, <2>3, HubSame DEF Fine, Busy
<1> QED  BY <1>4, <1>5, <1>6 DEF BootLoop

\* A step that leaves the rows alone, and sends its job to no label of a switch.
LEMMA RestFine ==
  ASSUME LifeInv, NEW c \in Caller, JobInv', \A b \in Caller \ {c} : job'[b] = job[b],
         job'[c] = NoJob \/ job'[c].at \notin SwitchLabels,
         UNCHANGED <<rec, disk>>, [SupNext]_supVars, HubFine
  PROVE  Fine(c)
BY DEF Fine, Busy, LifeInv, RecTyped, RowsKept

LEMMA FinishFine == ASSUME LifeInv, NEW c \in Caller, Finish(c) PROVE Fine(c)
<1>1. /\ JobInv' /\ (job'[c] = NoJob \/ job'[c].at = "reap")
      /\ \A b \in Caller \ {c} : job'[b] = job[b]
  BY FinishJob DEF LifeInv
<1>2. UNCHANGED <<supVars, rec, disk, live, driver, socket, marred>>
  BY DEF Finish
<1>3. TurnInv'
  BY DEF Finish, LifeInv, TurnInv, IdleTurn
<1>4. DriverTyped'
  BY <1>2 DEF LifeInv, DriverTyped
<1> QED  BY <1>1, <1>2, <1>3, <1>4, RestFine DEF HubFine, SwitchLabels

LEMMA RewindFine == ASSUME LifeInv, NEW c \in Caller, Rewind(c) \/ RewindBusy(c) PROVE Fine(c)
<1>1. CASE Rewind(c)
  <2>1. JobGoes(c, "restart")
    BY <1>1, RewindJob DEF LifeInv
  <2>2. UNCHANGED <<supVars, rec, disk, live, driver, socket, marred>>
    BY <1>1 DEF Rewind
  <2>3. TurnInv'
    BY <1>1 DEF Rewind, LifeInv, TurnInv
  <2>4. DriverTyped'
    BY <2>2 DEF LifeInv, DriverTyped
  <2> QED  BY <2>1, <2>2, <2>3, <2>4, RestFine DEF HubFine, SwitchLabels, JobGoes
<1>2. CASE RewindBusy(c)
  <2>1. Busy(c) /\ job[c].at \notin BootLabels /\ Fail(c) /\ UNCHANGED <<supVars, hubVars>>
    BY <1>2 DEF RewindBusy, At, BootLabels
  <2>2. JobGoes(c, "finish")
    BY <2>1, FailJob DEF LifeInv, JobGoes
  <2>3. UNCHANGED <<rec, disk, live, driver, turn, socket>> /\ marred' \subseteq Name
    BY <2>1 DEF hubVars, LifeInv, DriverTyped
  <2> QED  BY <2>1, <2>2, <2>3, HubSame, RestFine DEF SwitchLabels, JobGoes
<1> QED  BY <1>1, <1>2

\* A driver is cancelled, or there is none.
LEMMA CancelTyped ==
  ASSUME LifeInv, NEW d \in Driver \cup {NoDriver},
         driver' = IF d = NoDriver THEN driver ELSE [driver EXCEPT ![d].cancelled = TRUE]
  PROVE  /\ \A e \in Driver : driver'[e].at = driver[e].at /\ driver'[e].name = driver[e].name
         /\ \A e \in Driver : ~driver'[e].cancelled => e # d /\ ~driver[e].cancelled
         /\ \A e \in Driver : driver'[e].cancelled => e = d \/ driver[e].cancelled
         /\ driver' \in [Driver -> [at : {"unused", "driving", "ended"}, name : Name,
                                    cancelled : BOOLEAN]]
<1> DEFINE x == [driver[d] EXCEPT !.cancelled = TRUE]
           D == [at : {"unused", "driving", "ended"}, name : Name, cancelled : BOOLEAN]
<1>1. CASE d = NoDriver
  BY <1>1, DriverAssumption DEF LifeInv, DriverTyped
<1>2. CASE d \in Driver
  <2>1. driver[d] \in D /\ driver \in [Driver -> D]
    BY <1>2 DEF LifeInv, DriverTyped
  <2>2. x \in D /\ x.cancelled = TRUE /\ x.at = driver[d].at /\ x.name = driver[d].name
    BY <2>1
  <2>3. driver' = [driver EXCEPT ![d] = x]
    BY <1>2, DriverAssumption
  <2> HIDE DEF x
  <2> QED  BY <1>2, <2>1, <2>2, <2>3
<1> QED  BY <1>1, <1>2

LEMMA DeadFine ==
  ASSUME LifeInv, NEW c \in Caller, DeadDelete(c) \/ DeadCancel(c) \/ DeadWait(c)
  PROVE  Fine(c)
<1>1. CASE DeadDelete(c)
  <2>1. JobGoes(c, "dead.cancel") /\ job[c].cur \in Name
    BY <1>1, DeadDeleteJob, BusyTyped DEF LifeInv, DeadDelete, At
  <2>2. UNCHANGED <<supVars, rec, disk, driver, turn, socket, marred>>
        /\ live' = [live EXCEPT ![job[c].cur] = NoDriver]
    BY <1>1 DEF DeadDelete
  <2>3. HubFine
    BY <2>1, <2>2 DEF LifeInv, TurnInv, DriverTyped, HubFine
  <2> QED  BY <2>1, <2>2, <2>3, RestFine DEF SwitchLabels, JobGoes
<1>2. CASE DeadCancel(c)
  <2> DEFINE d == job[c].drv
  <2>1. JobGoes(c, "dead.wait") /\ d \in Driver \cup {NoDriver}
    BY <1>2, DeadCancelJob, BusyTyped DEF LifeInv, DeadCancel, At, JobType
  <2>2. /\ UNCHANGED <<supVars, rec, disk, live, turn, socket, marred>>
        /\ driver' = IF d = NoDriver THEN driver ELSE [driver EXCEPT ![d].cancelled = TRUE]
    BY <1>2 DEF DeadCancel
  <2> HIDE DEF d
  <2>3. HubFine
    BY <2>1, <2>2, CancelTyped DEF LifeInv, TurnInv, DriverTyped, HubFine
  <2> QED  BY <2>1, <2>2, <2>3, RestFine DEF SwitchLabels, JobGoes
<1>3. CASE DeadWait(c)
  <2>1. JobGoes(c, job[c].ret) /\ job[c].ret \in {"restart.set", "reaping"} /\ job[c].cur \in Name
    BY <1>3, DeadWaitJob, BusyTyped DEF LifeInv, DeadWait, At
  <2>2. UNCHANGED <<supVars, rec, disk, live, driver, turn, socket>> /\ marred' \subseteq Name
    BY <1>3, <2>1 DEF DeadWait, LifeInv, DriverTyped
  <2> QED  BY <2>1, <2>2, HubSame, RestFine DEF SwitchLabels, JobGoes
<1> QED  BY <1>1, <1>2, <1>3

LEMMA ReconcileFine == ASSUME LifeInv, NEW c \in Caller, Reconcile(c) PROVE Fine(c)
<1>1. /\ JobInv' /\ (job'[c] = NoJob \/ job'[c].at \in ReconcileLabels)
      /\ \A b \in Caller \ {c} : job'[b] = job[b]
  BY ReconcileJob DEF LifeInv
<1>2. job'[c] = NoJob \/ job'[c].at \notin SwitchLabels
  BY <1>1 DEF ReconcileLabels, DeadLabels, SwitchLabels
<1>3. job[c].todo \subseteq Name
  BY BusyTyped DEF LifeInv, Reconcile, At
<1>4. CASE UNCHANGED <<supVars, hubVars>>
  <2>1. UNCHANGED <<rec, disk, live, driver, turn, socket>> /\ marred' \subseteq Name
    BY <1>4 DEF hubVars, LifeInv, DriverTyped
  <2> QED  BY <1>1, <1>2, <1>4, <2>1, HubSame, RestFine
<1>5. ASSUME NEW n \in job[c].todo, GoLive(n) PROVE Fine(c)
  BY <1>1, <1>2, <1>3, <1>5, LiveGoFine
<1>6. ASSUME NEW n \in job[c].todo, GoDead(c, n, "reaping"), UNCHANGED hubVars PROVE Fine(c)
  BY <1>1, <1>2, <1>3, <1>6, DeadCall, RestFine DEF hubVars
<1> QED  BY <1>4, <1>5, <1>6 DEF Reconcile

LEMMA PlainFine ==
  ASSUME LifeInv, NEW c \in Caller,
         \/ At(c, "other") /\ Go(c, "finish") /\ UNCHANGED <<supVars, hubVars>>
         \/ CallerStep(c) /\ UNCHANGED <<hubVars, job>>
  PROVE  Fine(c)
<1>1. UNCHANGED <<rec, disk, live, driver, turn, socket>> /\ marred' \subseteq Name
  BY DEF hubVars, LifeInv, DriverTyped
<1>2. CASE At(c, "other") /\ Go(c, "finish") /\ UNCHANGED <<supVars, hubVars>>
  <2>1. Busy(c) /\ MayGo(c, "finish")
    BY <1>2 DEF At, MayGo, Label, ReconcileLabels, DeadLabels, BootLabels, LockedLabels
  <2>2. JobGoes(c, "finish")
    BY <1>2, <2>1, GoJob DEF LifeInv, JobGoes
  <2> QED  BY <1>1, <1>2, <2>2, HubSame, RestFine DEF JobGoes, SwitchLabels
<1>3. CASE CallerStep(c) /\ UNCHANGED <<hubVars, job>>
  <2>1. SupNext
    BY <1>3 DEF SupNext
  <2>2. JobInv' /\ Busy(c)' = Busy(c) /\ (Busy(c) => Recorded(job[c].name)' = Recorded(job[c].name))
    BY <1>1, <1>3 DEF LifeInv, JobInv, JobsTyped, JobOK, Busy, Recorded
  <2> QED  BY <1>1, <1>3, <2>1, <2>2, HubSame
           DEF Fine, Busy, LifeInv, SwitchInv, RecTyped, RowsKept, SwitchLabels
<1> QED  BY <1>2, <1>3

LEMMA VerbFine == ASSUME LifeInv, NEW c \in Caller, VerbStep(c) PROVE Fine(c)
BY CreateFine, CloseFine, ArchiveFine, RenameFine, SwitchFine, RewindFine, RestartFine,
   ResumeFine, BootFine, FinishFine, ReconcileFine, DeadFine, PlainFine DEF VerbStep

-----------------------------------------------------------------------------
(* The steps of the daemon. *)

\* What a step of the daemon leaves true.
StepFine ==
  JobInv' /\ RecTyped' /\ SwitchInv' /\ [SupNext]_supVars /\ HubFine

LEMMA CallerFine ==
  ASSUME LifeInv, NEW c \in Caller, Fine(c)
  PROVE  StepFine
<1>1. ASSUME NEW b \in Caller, (Busy(b) /\ job[b].at \in SwitchLabels)'
      PROVE  Recorded(job[b].name)'
  <2>1. CASE b = c
    BY <1>1, <2>1 DEF Fine
  <2>2. CASE b # c
    <3>1. job'[b] = job[b] /\ Busy(b) /\ job[b].at \in SwitchLabels
      BY <1>1, <2>2 DEF Fine, Busy
    <3>2. b = Disp /\ Recorded(job[b].name) /\ job[b].name \in Name
      BY <3>1, BusyTyped DEF LifeInv, JobInv, JobOK, SwitchInv, SwitchLabels, LockedLabels
    <3> QED  BY <2>2, <3>1, <3>2 DEF Fine, RowsKept, Recorded
  <2> QED  BY <2>1, <2>2
<1>2. SwitchInv'
  BY <1>1 DEF SwitchInv, SwitchLabels
<1> QED  BY <1>2 DEF Fine, StepFine

LEMMA DispatchFine ==
  ASSUME LifeInv, NEW v \in Verb, NEW n \in Name, NEW m \in Name, NEW w \in Vendor,
         Dispatch(v, n, m, w)
  PROVE  StepFine
<1>1. /\ JobGoes(Disp, v) /\ job'[Disp].name = n /\ (v = "switch" => Recorded(n))
      /\ Disp \in Caller
  BY DispatchJob, CallerAssumption DEF LifeInv
<1>2. UNCHANGED <<supVars, rec, disk, live, driver, turn, socket>>
  BY DEF Dispatch
<1>3. marred' \subseteq Name
  <2>1. \A c \in Caller : Touches(c) \subseteq Name
    BY BusyTyped DEF Touches, LifeInv
  <2> QED  BY <2>1 DEF Dispatch, Touched, LifeInv, DriverTyped
<1>4. v # "switch.restart"
  BY VerbAssumption
<1>5. RowsKept /\ RecTyped'
  BY <1>2 DEF RowsKept, LifeInv, RecTyped
<1>6. (Busy(Disp) /\ job[Disp].at \in SwitchLabels)' => Recorded(job[Disp].name)'
  BY <1>1, <1>2, <1>4 DEF JobGoes, SwitchLabels, Recorded
<1>7. Fine(Disp)
  BY <1>1, <1>2, <1>3, <1>5, <1>6, HubSame DEF Fine, JobGoes
<1> QED  BY <1>1, <1>7, CallerFine

LEMMA UnlockedFine ==
  ASSUME LifeInv, NEW c \in Unlocked, NEW v \in UnlockedVerb, NEW n \in Name,
         UnlockedCall(c, v, n)
  PROVE  StepFine
<1>1. JobGoes(c, v) /\ v \notin SwitchLabels /\ c \in Caller
  BY UnlockedJob, CallerAssumption DEF LifeInv, SwitchLabels
<1>2. UNCHANGED <<supVars, rec, disk, live, driver, turn, socket>>
  BY DEF UnlockedCall
<1>3. marred' \subseteq Name
  <2>1. \A b \in Caller : Touches(b) \subseteq Name
    BY BusyTyped DEF Touches, LifeInv
  <2> QED  BY <2>1 DEF UnlockedCall, LifeInv, DriverTyped
<1>4. Fine(c)
  BY <1>1, <1>2, <1>3, HubSame, RestFine DEF JobGoes
<1> QED  BY <1>1, <1>4, CallerFine

\* A step that leaves the jobs alone and loses no row.
LEMMA OtherFine ==
  ASSUME LifeInv, UNCHANGED job, RecTyped', RowsKept, [SupNext]_supVars, HubFine
  PROVE  StepFine
<1>1. JobInv'
  BY DEF LifeInv, JobInv, JobsTyped, JobOK, Busy
<1>2. SwitchInv'
  BY BusyTyped DEF LifeInv, SwitchInv, Busy, Recorded, RowsKept
<1> QED  BY <1>1, <1>2 DEF StepFine

LEMMA BridgeFine == ASSUME LifeInv, NEW r \in Run, BridgeStep(r) PROVE StepFine
<1>1. UNCHANGED <<rec, disk, live, driver, turn, socket, marred, job>> /\ SupNext
  BY DEF BridgeStep, SupNext
<1>2. RecTyped' /\ RowsKept /\ HubFine
  BY <1>1, HubSame DEF LifeInv, RecTyped, RowsKept, DriverTyped
<1> QED  BY <1>1, <1>2, OtherFine

LEMMA ShutdownFine == ASSUME LifeInv, Shutdown PROVE StepFine
<1>1. UNCHANGED <<rec, disk, live, driver, turn, socket, job, marred>> /\ SupNext
  BY DEF Shutdown, SupNext
<1>2. RecTyped' /\ RowsKept /\ HubFine
  BY <1>1, HubSame DEF LifeInv, RecTyped, RowsKept, DriverTyped
<1> QED  BY <1>1, <1>2, OtherFine

LEMMA DriverFine == ASSUME LifeInv, NEW d \in Driver, DriverStep(d) PROVE StepFine
<1>0. /\ driver[d].name \in Name /\ DOMAIN turn = Driver
      /\ \A e \in Driver : /\ turn[e].at = "busy" => turn[e].run \in Run
                           /\ turn[e].at = "result" => turn[e].token \in Token
  BY DEF LifeInv, DriverTyped, TurnInv
<1>1. ASSUME UNCHANGED <<rec, disk, live, driver, socket, supVars, job>>,
             marred' \subseteq Name, TurnInv'
      PROVE  StepFine
  <2>1. RecTyped' /\ RowsKept /\ DriverTyped'
    BY <1>1 DEF LifeInv, RecTyped, RowsKept, DriverTyped
  <2> QED  BY <1>1, <2>1, OtherFine DEF HubFine
<1>2. CASE StartTurn(d)
  <2>1. PICK r \in Run : turn' = [turn EXCEPT ![d] = [at |-> "busy", run |-> r]]
    BY <1>2 DEF StartTurn, AliveOf
  <2>2. TurnInv'
    BY <1>0, <2>1 DEF TurnInv
  <2>3. marred' \subseteq Name
    BY <1>0, <1>2 DEF StartTurn, LifeInv, DriverTyped
  <2> QED  BY <1>1, <1>2, <2>2, <2>3 DEF StartTurn
<1>3. CASE TurnAnswered(d)
  <2> DEFINE r == turn[d].run
             t == IF conf[r].token = NoToken THEN [vendor |-> conf[r].vendor, conv |-> "own"]
                  ELSE conf[r].token
  <2>1. r \in Run /\ conf[r] \in Conf
    BY <1>0, <1>3 DEF TurnAnswered, LifeInv, SupInv, TypeOK
  <2>2. t \in Token
    BY <2>1, ConfAssumption DEF Token
  <2>3. \/ turn' = [turn EXCEPT ![d] = IdleTurn]
        \/ turn' = [turn EXCEPT ![d] = [at |-> "result", token |-> t]]
    BY <1>3 DEF TurnAnswered
  <2> HIDE DEF t
  <2>4. TurnInv'
    BY <1>0, <2>2, <2>3 DEF TurnInv, IdleTurn
  <2>5. marred' \subseteq Name
    BY <1>3 DEF TurnAnswered, LifeInv, DriverTyped
  <2> QED  BY <1>1, <1>3, <2>4, <2>5 DEF TurnAnswered
<1>4. CASE StoreToken(d)
  <2> DEFINE n == driver[d].name
             new == SetResumeToken(n, turn[d].token)
  <2>1. turn[d].token \in Token /\ RecTyped
    BY <1>0, <1>4 DEF StoreToken, LifeInv
  <2>2. new \in [Name -> Sessions] /\ \A k \in Name : rec[k] # Absent => new[k] # Absent
    BY <1>0, <2>1, SetRows
  <2>3. /\ SaveWorks(new) \/ SaveFails(new, {}) \/ Unchanged(new)
        /\ turn' = [turn EXCEPT ![d] = IdleTurn]
        /\ UNCHANGED <<supVars, live, driver, socket, job>>
    BY <1>4 DEF StoreToken
  <2> HIDE DEF new
  <2>4. rec' = new /\ RecTyped' /\ RowsKept /\ marred' \subseteq Name
    BY <1>0, <2>2, <2>3 DEF SaveWorks, SaveFails, Unchanged, LifeInv, RecTyped, DriverTyped, RowsKept
  <2>5. TurnInv'
    BY <1>0, <2>3 DEF TurnInv, IdleTurn
  <2>6. DriverTyped'
    BY <2>3, <2>4 DEF LifeInv, DriverTyped
  <2> QED  BY <2>3, <2>4, <2>5, <2>6, OtherFine DEF HubFine
<1>5. CASE DropToken(d)
  <2>1. TurnInv' /\ marred' \subseteq Name
    BY <1>0, <1>5 DEF DropToken, TurnInv, IdleTurn, LifeInv, DriverTyped
  <2> QED  BY <1>1, <1>5, <2>1 DEF DropToken
<1>6. CASE DriverEnds(d)
  <2> DEFINE x == [driver[d] EXCEPT !.at = "ended"]
             D == [at : {"unused", "driving", "ended"}, name : Name, cancelled : BOOLEAN]
  <2>1. /\ driver' = [driver EXCEPT ![d] = x]
        /\ socket' = [socket EXCEPT ![driver[d].name] = NoDriver]
        /\ UNCHANGED <<supVars, rec, disk, live, job, marred>>
        /\ turn' = [turn EXCEPT ![d] = IdleTurn] \/ turn' = turn
    BY <1>6 DEF DriverEnds
  <2>2. x \in D /\ x.at = "ended"
    <3>1. driver[d] \in D
      BY DEF LifeInv, DriverTyped
    <3> QED  BY <3>1
  <2> HIDE DEF x
  <2>3. DriverTyped'
    BY <1>0, <2>1, <2>2 DEF LifeInv, DriverTyped
  <2>4. TurnInv'
    BY <1>0, <2>1 DEF TurnInv, IdleTurn
  <2>5. RecTyped' /\ RowsKept
    BY <2>1 DEF LifeInv, RecTyped, RowsKept
  <2> QED  BY <2>1, <2>3, <2>4, <2>5, OtherFine DEF HubFine
<1>7. CASE StopLive(d)
  <2>1. /\ UNCHANGED <<supVars, rec, disk, live, turn, socket, job, marred>>
        /\ driver' = [driver EXCEPT ![d].cancelled = TRUE]
    BY <1>7 DEF StopLive
  <2>2. DriverTyped'
    BY <2>1, CancelTyped, DriverAssumption DEF LifeInv, DriverTyped
  <2>3. TurnInv' /\ RecTyped' /\ RowsKept
    BY <2>1 DEF LifeInv, TurnInv, RecTyped, RowsKept
  <2> QED  BY <2>1, <2>2, <2>3, OtherFine DEF HubFine
<1> QED  BY <1>2, <1>3, <1>4, <1>5, <1>6, <1>7 DEF DriverStep

-----------------------------------------------------------------------------
(* The drivers, the table, and what is on its way from it to its cancel. *)

\* A job that goes on is about the same names, or fewer.
Keeps(c) ==
  /\ Busy(c)' /\ job'[c].verb = job[c].verb
  /\ job'[c].name = job[c].name /\ job'[c].to = job[c].to
  /\ job[c].verb = "boot" => job'[c].todo \cup {job'[c].cur} \subseteq job[c].todo \cup {job[c].cur}

\* A job that changes in other fields than these keeps them.
LEMMA KeepsFields ==
  ASSUME JobInv, NEW c \in Caller, Busy(c), NEW k, job' = [job EXCEPT ![c] = k],
         k.verb = job[c].verb, k.name = job[c].name, k.to = job[c].to,
         job[c].verb = "boot" => k.todo \cup {k.cur} \subseteq job[c].todo \cup {job[c].cur}
  PROVE  Keeps(c) /\ job'[c] = k
<1>1. job'[c] = k /\ job[c].verb \in Verbs
  BY BusyTyped DEF JobInv, JobsTyped, JobType
<1>2. k # NoJob
  BY <1>1 DEF NoJob, Verbs
<1> QED  BY <1>1, <1>2 DEF Keeps, Busy

LEMMA GoKeeps ==
  ASSUME JobInv, NEW c \in Caller, Busy(c), NEW l, Go(c, l) \/ (Fail(c) /\ l = "finish")
  PROVE  /\ Keeps(c) /\ job'[c].at = l /\ job'[c].ret = job[c].ret
         /\ job'[c].todo = job[c].todo /\ job'[c].cur = job[c].cur
<1> DEFINE j == job[c]
           k == IF Go(c, l) THEN [j EXCEPT !.at = l] ELSE [j EXCEPT !.at = "finish", !.ok = FALSE]
<1>1. j \in JobType
  BY BusyTyped
<1>2. job' = [job EXCEPT ![c] = k]
  BY DEF Go, Fail
<1>3. /\ k.verb = j.verb /\ k.name = j.name /\ k.to = j.to /\ k.todo = j.todo /\ k.cur = j.cur
      /\ k.at = l /\ k.ret = j.ret
  <2> HIDE DEF j
  <2> QED  BY <1>1 DEF JobType
<1> HIDE DEF k
<1> QED  BY <1>2, <1>3, KeepsFields

\* Only the deletion from the table leads a caller to the cancel.
LEMMA ToCancel ==
  ASSUME LifeInv, NEW c \in Caller, VerbStep(c), ~DeadDelete(c)
  PROVE  job' = job \/ job'[c] = NoJob \/ job'[c].at # "dead.cancel"
<1>1. ASSUME NEW l, l # "dead.cancel", Busy(c), Go(c, l) \/ Fail(c)
      PROVE  job'[c].at # "dead.cancel"
  <2>1. CASE Go(c, l)
    BY <1>1, <2>1, GoKeeps DEF LifeInv
  <2>2. CASE Fail(c)
    BY <1>1, <2>2, GoKeeps DEF LifeInv
  <2> QED  BY <1>1, <2>1, <2>2
<1>2. CASE Create(c)
  BY <1>1, <1>2 DEF Create, At, SupCall, Write
<1>3. CASE Close(c)
  BY <1>1, <1>3 DEF Close, At, SupCall
<1>4. CASE Archive(c) \/ Unarchive(c)
  BY <1>1, <1>4 DEF Archive, Unarchive, At, SupCall, WriteIfChanged, Write
<1>5. CASE Rename(c)
  BY <1>1, <1>5 DEF Rename, At, SupCall
<1>6. CASE Switch(c) \/ RewindBusy(c) \/ (At(c, "other") /\ Go(c, "finish"))
  BY <1>1, <1>6 DEF Switch, RewindBusy, At, SupCall, Write
<1>7. CASE Rewind(c)
  BY <1>7, RewindJob DEF JobGoes, LifeInv
<1>8. CASE Finish(c)
  BY <1>8, FinishJob DEF LifeInv
<1>9. CASE Restart(c)
  <2>1. CASE At(c, "restart")
    <3>1. Busy(c) /\ job[c].name \in Name /\ job[c].at = "restart"
          /\ GoDead(c, job[c].name, "restart.set")
      BY <1>9, <2>1, BusyTyped DEF Restart, At, LifeInv
    <3> QED  BY <3>1, GoDeadJob DEF JobGoes, LifeInv
  <2>2. CASE ~At(c, "restart")
    BY <1>1, <1>9, <2>2 DEF Restart, At, SupCall, WriteIfChanged, Write
  <2> QED  BY <2>1, <2>2
<1>10. CASE Resume(c)
  BY <1>1, <1>10 DEF Resume, At, SupCall, WriteIfChanged, Write
<1>11. CASE BootLoop(c)
  BY <1>11, BootJob DEF LifeInv, BootLabels
<1>12. CASE Reconcile(c)
  <2> DEFINE j == job[c]
  <2>1. Busy(c) /\ j \in JobType /\ j.todo \subseteq Name
    BY <1>12, BusyTyped DEF Reconcile, At, LifeInv
  <2>2. ASSUME NEW k, k.at # "dead.cancel", job' = [job EXCEPT ![c] = k]
        PROVE  job'[c].at # "dead.cancel"
    BY <2>2 DEF LifeInv, JobInv, JobsTyped
  <2>3. ASSUME NEW l, NEW T, l # "dead.cancel", job' = [job EXCEPT ![c] = [j EXCEPT !.at = l, !.todo = T]]
        PROVE  job'[c].at # "dead.cancel"
    <3> DEFINE k == [j EXCEPT !.at = l, !.todo = T]
    <3>1. k.at = l
      <4> HIDE DEF j
      <4> QED  BY <2>1 DEF JobType
    <3> HIDE DEF k
    <3> QED  BY <2>2, <2>3, <3>1 DEF k
  <2>4. CASE At(c, "reap")
    <3>1. PICK T : job' = [job EXCEPT ![c].at = "reaping", ![c].todo = T]
      BY <1>12, <2>4 DEF Reconcile, At
    <3>2. job' = [job EXCEPT ![c] = [j EXCEPT !.at = "reaping", !.todo = T]]
      BY <3>1
    <3> QED  BY <2>3, <3>2
  <2>5. CASE At(c, "reaping") /\ j.todo # {}
    <3>1. PICK n \in j.todo : GoDead(c, n, "reaping")
      BY <1>12, <2>5 DEF Reconcile, At
    <3> QED  BY <2>1, <2>5, <3>1, GoDeadJob DEF JobGoes, LifeInv, At
  <2>6. CASE At(c, "reaping") /\ j.todo = {}
    <3>1. PICK T : job' = [job EXCEPT ![c].at = "raising", ![c].todo = T]
      BY <1>12, <2>6 DEF Reconcile, At
    <3>2. job' = [job EXCEPT ![c] = [j EXCEPT !.at = "raising", !.todo = T]]
      BY <3>1
    <3> QED  BY <2>3, <3>2
  <2>7. CASE At(c, "raising") /\ j.todo # {}
    <3>1. PICK n \in j.todo : job' = [job EXCEPT ![c].todo = @ \ {n}]
      BY <1>12, <2>7 DEF Reconcile, At
    <3> DEFINE T == j.todo \ {n}
               k == [j EXCEPT !.todo = T]
    <3>2. job' = [job EXCEPT ![c] = k]
      BY <3>1
    <3>3. k.at = j.at
      <4> HIDE DEF j, T
      <4> QED  BY <2>1 DEF JobType
    <3> HIDE DEF k
    <3> QED  BY <2>2, <2>7, <3>2, <3>3 DEF At
  <2>8. CASE At(c, "raising") /\ j.todo = {}
    BY <1>12, <2>8 DEF Reconcile, At, LifeInv, JobInv, JobsTyped
  <2> QED  BY <1>12, <2>4, <2>5, <2>6, <2>7, <2>8 DEF Reconcile
<1>13. CASE DeadCancel(c)
  BY <1>13, DeadCancelJob DEF LifeInv, JobGoes
<1>14. CASE DeadWait(c)
  BY <1>14, DeadWaitJob DEF LifeInv, JobGoes
<1> QED  BY <1>2, <1>3, <1>4, <1>5, <1>6, <1>7, <1>8, <1>9, <1>10, <1>11, <1>12, <1>13, <1>14
         DEF VerbStep

\* No step loses a driver.  Most leave the table and the drivers alone, and the
\* calls that are about to cancel one.
LEMMA HubStays ==
  ASSUME HubInv, UNCHANGED <<live, driver>>,
         \A b \in Caller : /\ Busy(b) /\ job[b].at = "dead.cancel" => job'[b] = job[b]
                           /\ Busy(b)' /\ job'[b].at = "dead.cancel" => job'[b] = job[b]
  PROVE  HubInv'
<1>1. DriverKept'
  BY DEF HubInv, DriverKept, Drives, Leaving, Busy
<1>2. \A c \in Caller : Held(c)'
  BY DEF HubInv, HubTable, Held, Busy
<1> QED  BY <1>1, <1>2 DEF HubInv, HubTable

LEMMA HubLive ==
  ASSUME LifeInv, NEW c \in Caller, NEW n \in Name, GoLive(n), job[c].at # "dead.cancel",
         job'[c] = NoJob \/ job'[c].at # "dead.cancel", \A b \in Caller \ {c} : job'[b] = job[b]
  PROVE  HubInv'
<1>1. CASE UNCHANGED <<live, driver>>
  BY <1>1, HubStays DEF LifeInv, Busy
<1>2. ASSUME NEW d \in Driver, Fresh(d), live[n] = NoDriver, live' = [live EXCEPT ![n] = d],
             driver' = [driver EXCEPT ![d] = [at |-> "driving", name |-> n, cancelled |-> FALSE]]
      PROVE  HubInv'
  <2>0. /\ live'[n] = d /\ \A m \in Name \ {n} : live'[m] = live[m]
        /\ driver'[d].name = n /\ \A e \in Driver \ {d} : driver'[e] = driver[e]
    BY <1>2 DEF LifeInv, DriverTyped
  <2>1. DriverKept'
    <3> SUFFICES ASSUME NEW e \in Driver, Drives(e)'
                 PROVE  live'[driver'[e].name] = e \/ Leaving(e)'
      BY DEF DriverKept
    <3>1. CASE e = d
      BY <2>0, <3>1
    <3>2. CASE e # d
      <4>1. driver'[e] = driver[e] /\ driver[e].name \in Name /\ Drives(e)
        BY <1>2, <3>2 DEF LifeInv, DriverTyped, Drives
      <4>2. CASE live[driver[e].name] = e
        <5>1. driver[e].name # n
          BY <1>2, <4>2, DriverAssumption
        <5> QED  BY <2>0, <4>1, <4>2, <5>1
      <4>3. CASE Leaving(e)
        BY <4>3 DEF Leaving, Busy
      <4> QED  BY <4>1, <4>2, <4>3 DEF LifeInv, HubInv, DriverKept
    <3> QED  BY <3>1, <3>2
  <2>2. ASSUME NEW m \in Name, live'[m] # NoDriver PROVE driver'[live'[m]].name = m
    <3>1. CASE m = n
      BY <2>0, <3>1
    <3>2. CASE m # n
      <4>1. live[m] \in Driver /\ driver[live[m]].name = m
        BY <2>0, <2>2, <3>2 DEF LifeInv, DriverTyped, HubInv, HubTable
      <4> QED  BY <1>2, <2>0, <3>2, <4>1 DEF Fresh
    <3> QED  BY <3>1, <3>2
  <2>3. ASSUME NEW b \in Caller PROVE Held(b)'
    <3>1. SUFFICES ASSUME Busy(b)', job'[b].at = "dead.cancel", job'[b].drv # NoDriver
                   PROVE  driver'[job'[b].drv].name = job'[b].cur /\ live'[job'[b].cur] # job'[b].drv
      BY DEF Held
    <3>2. job'[b] = job[b] /\ Busy(b) /\ Held(b)
      BY <3>1 DEF Busy, LifeInv, HubInv, HubTable
    <3>3. job[b].drv \in Driver /\ job[b].drv # d /\ job[b].cur \in Name
      BY <1>2, <3>1, <3>2, BusyTyped DEF LifeInv, JobType, Fresh
    <3> QED  BY <2>0, <3>1, <3>2, <3>3 DEF Held
  <2> QED  BY <2>1, <2>2, <2>3 DEF HubInv, HubTable
<1> QED  BY <1>1, <1>2 DEF GoLive

LEMMA HubDead ==
  ASSUME LifeInv, NEW c \in Caller, DeadDelete(c) \/ DeadCancel(c)
  PROVE  HubInv'
<1>1. CASE DeadDelete(c)
  <2> DEFINE n == job[c].cur
             k == [job[c] EXCEPT !.at = "dead.cancel", !.drv = live[n]]
  <2>0. job[c] \in JobType /\ k.cur = job[c].cur /\ job' = [job EXCEPT ![c] = k]
    <3>1. job[c] \in JobType
      BY <1>1, BusyTyped DEF LifeInv, DeadDelete, At
    <3>2. [job[c] EXCEPT !.at = "dead.cancel", !.drv = live[n]].cur = job[c].cur
      BY <3>1 DEF JobType
    <3> QED  BY <1>1, <3>1, <3>2 DEF DeadDelete
  <2> HIDE DEF k
  <2>1. /\ JobGoes(c, "dead.cancel") /\ Busy(c)' /\ job'[c].drv = live[n] /\ n \in Name
        /\ job[c].at = "dead.delete" /\ job'[c].cur = n
    BY <1>1, <2>0, DeadDeleteJob, BusyTyped DEF LifeInv, DeadDelete, At, JobInv, JobsTyped
  <2>2. live' = [live EXCEPT ![n] = NoDriver] /\ driver' = driver
    BY <1>1 DEF DeadDelete
  <2>3. live'[n] = NoDriver /\ \A m \in Name \ {n} : live'[m] = live[m]
    <3>1. live \in [Name -> Driver \cup {NoDriver}]
      BY DEF LifeInv, DriverTyped
    <3> QED  BY <2>1, <2>2, <3>1
  <2> HIDE DEF n
  <2>4. DriverKept'
    <3> SUFFICES ASSUME NEW e \in Driver, Drives(e)
                 PROVE  live'[driver[e].name] = e \/ Leaving(e)'
      BY <2>2 DEF DriverKept, Drives
    <3>1. driver[e].name \in Name
      BY DEF LifeInv, DriverTyped
    <3>2. CASE live[driver[e].name] = e /\ driver[e].name = n
      BY <2>1, <3>2 DEF Leaving, JobGoes
    <3>3. CASE live[driver[e].name] = e /\ driver[e].name # n
      BY <2>3, <3>1, <3>3
    <3>4. CASE Leaving(e)
      BY <2>1, <3>4 DEF Leaving, Busy, JobGoes
    <3> QED  BY <3>2, <3>3, <3>4 DEF LifeInv, HubInv, DriverKept
  <2>5. \A m \in Name : live'[m] # NoDriver => driver'[live'[m]].name = m
    BY <2>2, <2>3 DEF LifeInv, HubInv, HubTable
  <2>6. ASSUME NEW b \in Caller PROVE Held(b)'
    <3>1. CASE b = c
      BY <2>1, <2>2, <2>3, <3>1 DEF Held, LifeInv, HubInv, HubTable
    <3>2. CASE b # c
      <4>1. job'[b] = job[b] /\ Held(b) /\ (Busy(b) => job[b].cur \in Name)
        BY <2>1, <3>2, BusyTyped DEF LifeInv, HubInv, HubTable, JobGoes
      <4> QED  BY <2>2, <2>3, <4>1 DEF Held, Busy
    <3> QED  BY <3>1, <3>2
  <2> QED  BY <2>4, <2>5, <2>6 DEF HubInv, HubTable
<1>2. CASE DeadCancel(c)
  <2> DEFINE d == job[c].drv
  <2>1. JobGoes(c, "dead.wait") /\ d \in Driver \cup {NoDriver}
    BY <1>2, DeadCancelJob, BusyTyped DEF LifeInv, DeadCancel, At, JobType
  <2>2. /\ live' = live
        /\ driver' = IF d = NoDriver THEN driver ELSE [driver EXCEPT ![d].cancelled = TRUE]
    BY <1>2 DEF DeadCancel
  <2>3. /\ \A e \in Driver : driver'[e].name = driver[e].name
        /\ \A e \in Driver : Drives(e)' => Drives(e) /\ e # d
    <3> HIDE DEF d
    <3> QED  BY <2>1, <2>2, CancelTyped DEF Drives
  <2>4. DriverKept'
    <3> SUFFICES ASSUME NEW e \in Driver, Drives(e)'
                 PROVE  live[driver'[e].name] = e \/ Leaving(e)'
      BY <2>2 DEF DriverKept
    <3>1. CASE Leaving(e)
      BY <2>1, <2>3, <3>1 DEF Leaving, Busy, JobGoes
    <3> QED  BY <2>3, <3>1 DEF LifeInv, HubInv, DriverKept
  <2>5. \A m \in Name : live'[m] # NoDriver => driver'[live'[m]].name = m
    BY <2>2, <2>3 DEF LifeInv, HubInv, HubTable, DriverTyped
  <2>6. ASSUME NEW b \in Caller PROVE Held(b)'
    <3>1. CASE b = c
      BY <2>1, <3>1 DEF Held, JobGoes
    <3>2. CASE b # c
      <4>1. job'[b] = job[b] /\ Held(b) /\ (Busy(b) => job[b].drv \in Driver \cup {NoDriver})
        BY <2>1, <3>2, BusyTyped DEF LifeInv, HubInv, HubTable, JobGoes, JobType
      <4> QED  BY <2>2, <2>3, <4>1 DEF Held, Busy
    <3> QED  BY <3>1, <3>2
  <2> QED  BY <2>4, <2>5, <2>6 DEF HubInv, HubTable
<1> QED  BY <1>1, <1>2

LEMMA HubVerb == ASSUME LifeInv, NEW c \in Caller, VerbStep(c) PROVE HubInv'
<1>0. /\ \A b \in Caller \ {c} : job'[b] = job[b]
      /\ ~DeadDelete(c) => job' = job \/ job'[c] = NoJob \/ job'[c].at # "dead.cancel"
  BY VerbFine, ToCancel DEF Fine
<1>1. CASE UNCHANGED <<live, driver>> /\ (job[c].at # "dead.cancel" \/ UNCHANGED job) /\ ~DeadDelete(c)
  BY <1>0, <1>1, HubStays DEF LifeInv, Busy
<1>2. CASE DeadDelete(c) \/ DeadCancel(c)
  BY <1>2, HubDead
<1>3. ASSUME NEW n \in Name, GoLive(n), job[c].at # "dead.cancel", ~DeadDelete(c), job # job'
      PROVE  HubInv'
  BY <1>0, <1>3, HubLive
<1>4. CASE Create(c) \/ Close(c) \/ Archive(c) \/ Unarchive(c)
  BY <1>1, <1>4
     DEF Create, Close, Archive, Unarchive, At, SupCall, hubVars, Write, WriteIfChanged, DeadDelete
<1>5. CASE Rename(c) \/ Switch(c) \/ Rewind(c) \/ RewindBusy(c) \/ Finish(c)
  BY <1>1, <1>5 DEF Rename, Switch, Rewind, RewindBusy, Finish, At, SupCall, hubVars, Write, DeadDelete
<1>6. CASE Restart(c) \/ Resume(c)
  <2>1. Busy(c) /\ job[c].name \in Name
    BY <1>6, BusyTyped DEF LifeInv, Restart, Resume, At
  <2>2. ASSUME NEW n \in Name, GoLive(n), job[c].at \in {"restart.live", "resume.live"} PROVE HubInv'
    <3>1. job[c].at # "dead.cancel" /\ ~DeadDelete(c)
      BY <2>2 DEF DeadDelete, At
    <3>2. CASE job' = job
      BY <2>2, <3>1, <3>2, HubLive
    <3> QED  BY <1>3, <2>2, <3>1, <3>2
  <2> QED  BY <1>1, <1>6, <2>1, <2>2
           DEF Restart, Resume, At, SupCall, hubVars, WriteIfChanged, Write, DeadDelete
<1>7. CASE BootLoop(c) \/ Reconcile(c)
  <2>1. Busy(c) /\ job[c].todo \subseteq Name
    BY <1>7, BusyTyped DEF LifeInv, BootLoop, Reconcile, At
  <2>2. ASSUME NEW n \in Name, GoLive(n), job[c].at \in {"boot", "raising"} PROVE HubInv'
    <3>1. job[c].at # "dead.cancel" /\ ~DeadDelete(c)
      BY <2>2 DEF DeadDelete, At
    <3>2. CASE job' = job
      BY <2>2, <3>1, <3>2, HubLive
    <3> QED  BY <1>3, <2>2, <3>1, <3>2
  <2> QED  BY <1>1, <1>7, <2>1, <2>2 DEF BootLoop, Reconcile, At, SupCall, hubVars, DeadDelete, GoDead
<1>8. CASE At(c, "other") /\ Go(c, "finish") /\ UNCHANGED <<supVars, hubVars>>
  BY <1>1, <1>8 DEF At, hubVars, DeadDelete
<1>9. CASE DeadWait(c)
  BY <1>1, <1>9 DEF DeadWait, At, DeadDelete
<1>10. CASE CallerStep(c) /\ UNCHANGED <<hubVars, job>>
  BY <1>1, <1>2, <1>10 DEF hubVars
<1> QED  BY <1>2, <1>4, <1>5, <1>6, <1>7, <1>8, <1>9, <1>10 DEF VerbStep

LEMMA HubStep == ASSUME LifeInv, [Next]_vars PROVE HubInv'
<1>1. CASE UNCHANGED vars
  BY <1>1, HubStays DEF vars, hubVars, LifeInv
<1>2. ASSUME NEW v \in Verb, NEW n \in Name, NEW m \in Name, NEW w \in Vendor,
             Dispatch(v, n, m, w)
      PROVE  HubInv'
  <2>1. /\ ~Busy(Disp) /\ \A b \in Caller \ {Disp} : job'[b] = job[b]
        /\ job'[Disp].at # "dead.cancel"
    BY <1>2, DispatchJob, VerbAssumption DEF LifeInv, JobGoes, Dispatch
  <2> QED  BY <1>2, <2>1, HubStays DEF Dispatch, LifeInv
<1>3. ASSUME NEW c \in Unlocked, NEW v \in UnlockedVerb, NEW n \in Name, UnlockedCall(c, v, n)
      PROVE  HubInv'
  <2>1. ~Busy(c) /\ (\A b \in Caller \ {c} : job'[b] = job[b]) /\ job'[c].at # "dead.cancel"
    BY <1>3, UnlockedJob DEF LifeInv, JobGoes, UnlockedCall
  <2> QED  BY <1>3, <2>1, HubStays DEF UnlockedCall, LifeInv
<1>4. ASSUME NEW r \in Run, BridgeStep(r) PROVE HubInv'
  BY <1>4, HubStays DEF BridgeStep, LifeInv
<1>5. CASE Shutdown
  BY <1>5, HubStays DEF Shutdown, LifeInv
<1>6. ASSUME NEW d \in Driver, DriverStep(d) PROVE HubInv'
  <2>1. CASE StartTurn(d) \/ TurnAnswered(d) \/ StoreToken(d) \/ DropToken(d)
    BY <2>1, HubStays DEF StartTurn, TurnAnswered, StoreToken, DropToken, LifeInv
  <2>2. CASE DriverEnds(d) \/ StopLive(d)
    <3>1. live' = live /\ job' = job
      BY <2>2 DEF DriverEnds, StopLive
    <3>2. \A e \in Driver : (Drives(e)' => Drives(e)) /\ driver'[e].name = driver[e].name
      BY <2>2 DEF DriverEnds, StopLive, Drives, LifeInv, DriverTyped
    <3>3. DriverKept'
      BY <3>1, <3>2 DEF DriverKept, Leaving, Busy, LifeInv, HubInv
    <3>4. \A m \in Name : live'[m] # NoDriver => driver'[live'[m]].name = m
      BY <3>1, <3>2 DEF LifeInv, HubInv, HubTable, DriverTyped
    <3>5. ASSUME NEW b \in Caller PROVE Held(b)'
      <4>1. Held(b) /\ (Busy(b) => job[b].drv \in Driver \cup {NoDriver})
        BY BusyTyped DEF LifeInv, HubInv, HubTable, JobType
      <4> QED  BY <3>1, <3>2, <4>1 DEF Held, Busy
    <3> QED  BY <3>3, <3>4, <3>5 DEF HubInv, HubTable
  <2> QED  BY <1>6, <2>1, <2>2 DEF DriverStep
<1> QED  BY <1>1, <1>2, <1>3, <1>4, <1>5, <1>6, HubVerb DEF Next

LEMMA DaemonStep == LifeInv /\ [Next]_vars => LifeInv' /\ [SupNext]_supVars
<1> SUFFICES ASSUME LifeInv, [Next]_vars PROVE LifeInv' /\ [SupNext]_supVars
  OBVIOUS
<1>1. CASE UNCHANGED vars
  <2>1. UNCHANGED <<rec, disk, live, driver, turn, socket, marred, job, supVars>>
    BY <1>1 DEF vars, hubVars
  <2>2. RecTyped' /\ RowsKept /\ HubFine
    BY <2>1, HubSame DEF LifeInv, RecTyped, RowsKept, DriverTyped
  <2> QED  BY <2>1, <2>2, OtherFine, HubStep, StepInv DEF StepFine, HubFine, LifeInv
<1>2. CASE Next
  <2>1. StepFine
    BY <1>2, DispatchFine, UnlockedFine, VerbFine, CallerFine, BridgeFine, DriverFine,
       ShutdownFine DEF Next
  <2> QED  BY <2>1, HubStep, StepInv DEF StepFine, HubFine, LifeInv
<1> QED  BY <1>1, <1>2

THEOREM LifecycleInvariant == Spec => []LifeInv
BY StartInv, DaemonStep, PTL DEF Spec

\* The daemon uses the supervisor as it is meant to be used: every behaviour of
\* the verbs, the hub and the checkpoints is one of the supervisor, so no two
\* loops of a name, and a Stop that waits for the loop, hold in the daemon too
\* (hub.go:95-214, session.go:417-1080, supervisor.go:199-270).
THEOREM LifecycleSupervises == Spec => SupSpec
<1>1. Init => SupInit
  BY DEF Init
<1> QED  BY <1>1, LifecycleInvariant, DaemonStep, PTL DEF Spec, SupSpec

\* The rows, the table of live sessions and the sockets keep their types, whatever
\* verbs, failures and restarts follow one another (state.go:396-530, hub.go:77-214).
THEOREM HubTyped == Spec => []HubTypeOK
<1>1. LifeInv => HubTypeOK
  BY DEF LifeInv, SupInv, RecTyped, Sessions, DriverTyped, HubTypeOK
<1> QED  BY <1>1, LifecycleInvariant, PTL

\* Whatever the verbs do, a session name never has two supervised loops, and a
\* Stop that returns leaves none behind (supervisor.go:199-270).
THEOREM LoopsOfTheDaemon == Spec => []OneLoop /\ StopMeansStopped
BY LifecycleSupervises, OneLoopPerName, StopWaits, PTL

-----------------------------------------------------------------------------
(* The worktree of a session that is closed. *)

\* Two calls in progress are about the same name only if the history says so.
Apart == \A b, c \in Caller : b # c => Touches(b) \cap Touches(c) \subseteq marred

\* Who holds no dispatch lock never reconciles, ...
SweepLabels == {"reap", "reaping", "raising"}
OwnWork(c) ==
  c # Disp /\ Busy(c) => /\ job[c].at \notin SweepLabels
                         /\ job[c].at \in DeadLabels => job[c].ret = "restart.set"

\* ... and calls the supervisor about the names of its own call.
OwnCalls(c) == call[c] # Idle => Busy(c) /\ (c # Disp => call[c].name \in Touches(c))

\* From the Stop of a close to the removal of the worktree: the loops there are
\* were there when the Stop began, and none is left when it has returned.
TreeWatched(c) ==
  Busy(c) /\ job[c].at = "close.tree" /\ job[c].name \notin marred =>
    /\ call[c] = Idle => AliveOf(job[c].name) = {}
    /\ call[c] # Idle => /\ call[c].op = "stop" /\ call[c].name = job[c].name
                         /\ AliveOf(job[c].name) \subseteq call[c].seen

TreeInv == Apart /\ \A c \in Caller : OwnWork(c) /\ OwnCalls(c) /\ TreeWatched(c)

\* What a step of a caller is to the supervisor, and to the close it may be in.
Does(c) ==
  /\ job'[c] # NoJob => Keeps(c)
  /\ Busy(c) \/ job' = job
  /\ marred \subseteq marred'
  /\ OwnWork(c)'
  /\ \/ UNCHANGED supVars /\ call[c] = Idle /\ (job'[c] # NoJob => job'[c].at # "close.tree")
     \/ CallerStep(c) /\ UNCHANGED <<hubVars, job>>
     \/ \E op \in {"start", "stop", "restart"}, n \in Name, k \in Conf :
          /\ Begin(c, op, n, k) /\ job'[c] # NoJob
          /\ c # Disp => n \in Touches(c)'
          /\ job'[c].at = "close.tree" => op = "stop" /\ n = job[c].name

\* Where the steps of a verb lead, outside goDead and reconcile.
Onward == Label \ (SweepLabels \cup DeadLabels)

LEMMA Onwards ==
  /\ (LockedLabels \cup FreeLabels \cup BootLabels \cup {"finish"}) \subseteq Onward
  /\ "close.tree" \in LockedLabels
BY DEF Onward, SweepLabels, DeadLabels, Label, ReconcileLabels, BootLabels, LockedLabels, FreeLabels

\* A step outside the supervisor.
LEMMA GoDoes ==
  ASSUME LifeInv, NEW c \in Caller, Busy(c), call[c] = Idle, NEW l \in Onward \ {"close.tree"},
         Go(c, l) \/ (Fail(c) /\ l = "finish"), UNCHANGED supVars, marred \subseteq marred'
  PROVE  Does(c)
<1>1. Keeps(c) /\ job'[c].at = l
  BY GoKeeps DEF LifeInv
<1> QED  BY <1>1 DEF Does, OwnWork, Onward

\* A call into it.
LEMMA SupCallDoes ==
  ASSUME LifeInv, NEW c \in Caller, Busy(c), NEW op \in {"start", "stop", "restart"},
         NEW n \in Name, NEW s \in Session, NEW l \in Onward, SupCall(c, op, n, s, l),
         c # Disp => n \in Touches(c), l = "close.tree" => op = "stop" /\ n = job[c].name
  PROVE  Does(c)
<1>1. Begin(c, op, n, ConfOf(s)) /\ ConfOf(s) \in Conf /\ Go(c, l) /\ marred' = marred
  BY ConfAssumption DEF SupCall, Session, ConfOf, hubVars
<1>2. /\ Keeps(c) /\ job'[c].at = l
      /\ job'[c].todo = job[c].todo /\ job'[c].cur = job[c].cur
  BY <1>1, GoKeeps DEF LifeInv
<1>3. Touches(c)' = Touches(c) /\ job'[c] # NoJob
  BY <1>2 DEF Touches, Keeps, Busy
<1>4. OwnWork(c)'
  BY <1>2 DEF OwnWork, Onward
<1> QED  BY <1>1, <1>2, <1>3, <1>4 DEF Does

\* A verb is about the names it was given.
LEMMA VerbTouches ==
  ASSUME LifeInv, NEW c \in Caller, NEW l \in LockedLabels \cup FreeLabels, At(c, l)
  PROVE  /\ Busy(c) /\ call[c] = Idle /\ job[c].name \in Name /\ job[c].to \in Name
         /\ job[c].sess \in Session /\ (l \in LockedLabels => c = Disp)
         /\ job[c].verb # "boot" /\ Touches(c) = {job[c].name, job[c].to}
<1>1. /\ Busy(c) /\ job[c].name \in Name /\ job[c].to \in Name /\ job[c].sess \in Session
      /\ (l \in LockedLabels => c = Disp) /\ JobOK(c) /\ job[c].at = l
  BY AtVerb
<1>2. job[c].verb # "boot"
  BY <1>1 DEF JobOK, BootLabels, LockedLabels, FreeLabels
<1> QED  BY <1>1, <1>2 DEF Touches, At

LEMMA VerbCallDoes ==
  ASSUME LifeInv, NEW c \in Caller, NEW l \in LockedLabels \cup FreeLabels, At(c, l),
         NEW k \in Onward, NEW op \in {"start", "stop", "restart"},
         NEW n \in {job[c].name, job[c].to}, NEW s \in Session, SupCall(c, op, n, s, k),
         k = "close.tree" => op = "stop" /\ n = job[c].name
  PROVE  Does(c)
<1>1. Busy(c) /\ n \in Name /\ n \in Touches(c)
  BY VerbTouches
<1> QED  BY <1>1, SupCallDoes

\* A change of the rows.
LEMMA SaveMars ==
  ASSUME NEW new, NEW names, NEW c, NEW l,
         \/ SaveWorks(new) \/ SaveFails(new, names) \/ Write(c, new, names, l)
         \/ WriteIfChanged(c, new, names, l)
  PROVE  marred \subseteq marred'
BY DEF SaveWorks, SaveFails, Write, WriteIfChanged, Unchanged

LEMMA WriteDoes ==
  ASSUME LifeInv, NEW c \in Caller, NEW m \in LockedLabels \cup FreeLabels, At(c, m),
         NEW new, NEW names, NEW l \in Onward \ {"close.tree"},
         Write(c, new, names, l) \/ WriteIfChanged(c, new, names, l)
  PROVE  Does(c)
<1>1. Busy(c) /\ call[c] = Idle
  BY DEF At
<1>2. marred \subseteq marred'
  BY SaveMars
<1>3. UNCHANGED supVars /\ (Go(c, l) \/ Fail(c))
  BY DEF Write, WriteIfChanged
<1>4. "finish" \in Onward \ {"close.tree"}
  BY Onwards
<1> QED  BY <1>1, <1>2, <1>3, <1>4, GoDoes

LEMMA CreateDoes ==
  ASSUME LifeInv, NEW c \in Caller, Create(c) \/ Archive(c) \/ Unarchive(c) PROVE Does(c)
<1>0. /\ {"create", "create.start", "archive", "archive.set", "unarchive", "unarchive.start"}
           \subseteq FreeLabels
      /\ {"create.start", "finish", "archive.set", "unarchive.start"} \subseteq Onward \ {"close.tree"}
  BY Onwards DEF FreeLabels
<1>1. ASSUME At(c, "create.start") \/ At(c, "unarchive.start"),
             SupCall(c, "start", job[c].name, job[c].sess, "finish")
      PROVE  Does(c)
  BY <1>0, <1>1, VerbTouches, VerbCallDoes
<1>2. ASSUME At(c, "archive"), SupCall(c, "stop", job[c].name, job[c].sess, "archive.set")
      PROVE  Does(c)
  BY <1>0, <1>2, VerbTouches, VerbCallDoes
<1>3. ASSUME At(c, "create"), NEW new, NEW names, Write(c, new, names, "create.start")
      PROVE  Does(c)
  BY <1>0, <1>3, WriteDoes
<1>4. ASSUME At(c, "archive.set"), NEW new, NEW names, WriteIfChanged(c, new, names, "finish")
      PROVE  Does(c)
  BY <1>0, <1>4, WriteDoes
<1>5. ASSUME At(c, "unarchive"), NEW new, NEW names, WriteIfChanged(c, new, names, "unarchive.start")
      PROVE  Does(c)
  BY <1>0, <1>5, WriteDoes
<1> QED  BY <1>1, <1>2, <1>3, <1>4, <1>5 DEF Create, Archive, Unarchive

LEMMA CloseDoes == ASSUME LifeInv, NEW c \in Caller, Close(c) \/ Rename(c) PROVE Does(c)
<1> DEFINE n == job[c].name
           m == job[c].to
<1>0. /\ {"close", "close.tree", "close.remove", "close.failed", "rename", "rename.set",
          "rename.start", "rename.failed"} \subseteq LockedLabels
      /\ {"close.tree", "close.remove", "close.failed", "rename.set", "rename.start",
          "rename.failed", "finish"} \subseteq Onward
  BY Onwards DEF LockedLabels
<1>1. ASSUME At(c, "close"), SupCall(c, "stop", n, job[c].sess, "close.tree") PROVE Does(c)
  BY <1>0, <1>1, VerbTouches, VerbCallDoes
<1>2. ASSUME At(c, "rename"), SupCall(c, "stop", n, job[c].sess, "rename.set") PROVE Does(c)
  BY <1>0, <1>2, VerbTouches, VerbCallDoes
<1>3. ASSUME NEW l \in {"close.tree", "close.failed", "rename.start", "rename.failed"}, At(c, l),
             NEW x \in {n, m}, SupCall(c, "start", x, job[c].sess, "finish")
      PROVE  Does(c)
  BY <1>0, <1>3, VerbTouches, VerbCallDoes
<1>4. ASSUME NEW l \in {"close.tree", "close.remove", "rename.set"}, At(c, l), UNCHANGED supVars,
             NEW k \in {"close.remove", "close.failed", "rename.start", "rename.failed", "finish"},
             Go(c, k), marred \subseteq marred'
      PROVE  Does(c)
  BY <1>0, <1>4, GoDoes DEF At
<1>5. CASE At(c, "close.tree") /\ Go(c, "close.remove") /\ UNCHANGED <<supVars, hubVars>>
  BY <1>4, <1>5 DEF hubVars
<1>6. ASSUME NEW new, NEW names, SaveWorks(new) \/ SaveFails(new, names)
      PROVE  marred \subseteq marred'
  BY <1>6, SaveMars
<1>7. CASE At(c, "close.remove") /\ Close(c)
  BY <1>4, <1>6, <1>7 DEF Close, At
<1>8. CASE At(c, "rename.set") /\ Rename(c)
  BY <1>4, <1>6, <1>8 DEF Rename, At
<1> QED  BY <1>1, <1>2, <1>3, <1>5, <1>7, <1>8 DEF Close, Rename

LEMMA SwitchDoes == ASSUME LifeInv, NEW c \in Caller, Switch(c) PROVE Does(c)
<1> DEFINE n == job[c].name
<1>0. /\ {"switch", "switch.restart"} \subseteq LockedLabels
      /\ {"switch.restart", "finish"} \subseteq Onward \ {"close.tree"}
  BY Onwards DEF LockedLabels
<1>1. ASSUME At(c, "switch"), NEW new, NEW names, Write(c, new, names, "switch.restart")
      PROVE  Does(c)
  BY <1>0, <1>1, WriteDoes
<1>2. CASE At(c, "switch.restart") /\ SupCall(c, "restart", n, rec[n], "finish")
  <2>1. rec[n] \in Session
    BY <1>0, <1>2, VerbTouches, RowOrAbsent DEF LifeInv, SwitchInv, At, Recorded, RecTyped
  <2> QED  BY <1>0, <1>2, <2>1, VerbCallDoes
<1> QED  BY <1>1, <1>2 DEF Switch

\* A session that goes live concerns the supervisor in nothing.
LEMMA LiveMars == ASSUME NEW n, GoLive(n) PROVE UNCHANGED supVars /\ marred \subseteq marred'
BY DEF GoLive

LEMMA ResumeDoes == ASSUME LifeInv, NEW c \in Caller, Resume(c) PROVE Does(c)
<1> DEFINE n == job[c].name
<1>0. /\ {"resume", "resume.live", "resume.start"} \subseteq FreeLabels
      /\ {"resume.live", "resume.start", "finish"} \subseteq Onward \ {"close.tree"}
  BY Onwards DEF FreeLabels
<1>1. ASSUME At(c, "resume"), NEW new, NEW names, WriteIfChanged(c, new, names, "resume.live")
      PROVE  Does(c)
  BY <1>0, <1>1, WriteDoes
<1>2. CASE At(c, "resume.live") /\ GoLive(n) /\ Go(c, "resume.start")
  BY <1>0, <1>2, LiveMars, GoDoes DEF At
<1>3. CASE At(c, "resume.start") /\ SupCall(c, "start", n, job[c].sess, "finish")
  BY <1>0, <1>3, VerbTouches, VerbCallDoes
<1> QED  BY <1>1, <1>2, <1>3 DEF Resume

\* goDead begins with a Stop of the name it is given.
LEMMA GoDeadDoes ==
  ASSUME LifeInv, NEW c \in Caller, Busy(c), NEW n \in Name, NEW l, GoDead(c, n, l),
         UNCHANGED hubVars, job[c].verb # "boot",
         c # Disp => l = "restart.set" /\ n = job[c].name
  PROVE  Does(c)
<1> DEFINE j == job[c]
           T == j.todo \ {n}
           k == [j EXCEPT !.at = "dead.delete", !.ret = l, !.cur = n, !.todo = T]
<1>1. j \in JobType
  BY BusyTyped DEF LifeInv
<1>2. job' = [job EXCEPT ![c] = k] /\ Begin(c, "stop", n, CHOOSE x \in Conf : TRUE)
  BY DEF GoDead
<1>3. k.at = "dead.delete" /\ k.verb = j.verb /\ k.name = j.name /\ k.to = j.to /\ k.ret = l
  <2> HIDE DEF j, T
  <2> QED  BY <1>1 DEF JobType
<1> HIDE DEF k
<1>4. Keeps(c) /\ job'[c] = k
  BY <1>2, <1>3, KeepsFields DEF LifeInv
<1>5. job'[c] # NoJob /\ job'[c].at # "close.tree" /\ OwnWork(c)'
  BY <1>3, <1>4 DEF Keeps, Busy, OwnWork, SweepLabels
<1>6. c # Disp => n \in Touches(c)'
  BY <1>3, <1>4 DEF Touches, Keeps
<1> QED  BY <1>2, <1>4, <1>5, <1>6, SomeNames DEF Does, hubVars

LEMMA RestartDoes == ASSUME LifeInv, NEW c \in Caller, Restart(c) PROVE Does(c)
<1> DEFINE n == job[c].name
           s == job[c].sess
           t == CutToken(c)
<1>0. /\ {"restart", "restart.set", "restart.live", "restart.start"} \subseteq FreeLabels
      /\ {"restart.set", "restart.live", "restart.start", "finish"} \subseteq Onward \ {"close.tree"}
  BY Onwards DEF FreeLabels
<1>1. CASE At(c, "restart") /\ GoDead(c, n, "restart.set") /\ UNCHANGED hubVars
  BY <1>0, <1>1, VerbTouches, GoDeadDoes
<1>2. ASSUME At(c, "restart.set"), NEW new, NEW names, WriteIfChanged(c, new, names, "restart.live")
      PROVE  Does(c)
  BY <1>0, <1>2, WriteDoes
<1>3. CASE At(c, "restart.live") /\ GoLive(n) /\ Go(c, "restart.start")
  BY <1>0, <1>3, LiveMars, GoDoes DEF At
<1>4. CASE At(c, "restart.start") /\ SupCall(c, "start", n, [s EXCEPT !.token = t], "finish")
  <2>1. s \in Session
    BY <1>0, <1>4, VerbTouches
  <2>2. [s EXCEPT !.token = t] \in Session
    <3>1. t \in Token
      BY <2>1 DEF CutToken, Token, Session
    <3> HIDE DEF s, t
    <3> QED  BY <2>1, <3>1 DEF Session
  <2> DEFINE x == [s EXCEPT !.token = t]
  <2> HIDE DEF x
  <2> QED  BY <1>0, <1>4, <2>2, VerbCallDoes DEF x
<1> QED  BY <1>1, <1>2, <1>3, <1>4 DEF Restart

LEMMA RewindDoes == ASSUME LifeInv, NEW c \in Caller, Rewind(c) \/ RewindBusy(c) PROVE Does(c)
<1> DEFINE j == job[c]
           d == live[j.name]
<1>0. Busy(c) /\ call[c] = Idle /\ {"restart", "finish"} \subseteq Onward \ {"close.tree"}
  BY Onwards DEF Rewind, RewindBusy, At, FreeLabels
<1>1. CASE Rewind(c)
  <2> DEFINE k == [j EXCEPT !.at = "restart", !.claim = d]
  <2>1. j \in JobType
    BY <1>0, BusyTyped DEF LifeInv
  <2>2. job' = [job EXCEPT ![c] = k] /\ UNCHANGED <<supVars, marred>>
    BY <1>1 DEF Rewind
  <2>3. /\ k.at = "restart" /\ k.verb = j.verb /\ k.name = j.name /\ k.to = j.to
        /\ k.todo = j.todo /\ k.cur = j.cur
    <3> HIDE DEF j, d
    <3> QED  BY <2>1 DEF JobType
  <2> HIDE DEF k
  <2>4. Keeps(c) /\ job'[c] = k
    BY <1>0, <2>2, <2>3, KeepsFields DEF LifeInv
  <2> QED  BY <1>0, <2>2, <2>3, <2>4 DEF Does, OwnWork, Onward
<1>2. CASE RewindBusy(c)
  BY <1>0, <1>2, GoDoes DEF RewindBusy, hubVars
<1> QED  BY <1>1, <1>2

LEMMA BootDoes == ASSUME LifeInv, NEW c \in Caller, BootLoop(c) PROVE Does(c)
<1> DEFINE j == job[c]
<1>1. Busy(c) /\ call[c] = Idle /\ j.at \in BootLabels
  BY DEF BootLoop, At, BootLabels
<1>2. j \in JobType /\ JobOK(c) /\ j.cur \in Name /\ j.all \in [Name -> Sessions]
  BY <1>1, BusyTyped DEF LifeInv, JobInv
<1>3. j.verb = "boot"
  BY <1>1, <1>2 DEF JobOK, BootLabels, ReconcileLabels, DeadLabels
<1>4. CASE job' = [job EXCEPT ![c] = NoJob] /\ UNCHANGED <<supVars, hubVars>>
  <2>1. job'[c] = NoJob
    BY <1>4 DEF LifeInv, JobInv, JobsTyped
  <2> QED  BY <1>1, <1>4, <2>1 DEF Does, OwnWork, Busy, hubVars
<1>5. ASSUME NEW n \in j.todo, GoLive(n),
             job' = [job EXCEPT ![c].at = "boot.start", ![c].cur = n, ![c].todo = @ \ {n}]
      PROVE  Does(c)
  <2> DEFINE T == j.todo \ {n}
             k == [j EXCEPT !.at = "boot.start", !.cur = n, !.todo = T]
  <2>1. job' = [job EXCEPT ![c] = k]
    BY <1>5
  <2>2. /\ k.at = "boot.start" /\ k.verb = j.verb /\ k.name = j.name /\ k.to = j.to
        /\ k.todo = T /\ k.cur = n
    <3> HIDE DEF j, T
    <3> QED  BY <1>2 DEF JobType
  <2> HIDE DEF k
  <2>3. k.todo \cup {k.cur} \subseteq j.todo \cup {j.cur}
    BY <2>2
  <2>4. Keeps(c) /\ job'[c] = k
    BY <1>1, <2>1, <2>2, <2>3, KeepsFields DEF LifeInv
  <2> QED  BY <1>1, <1>5, <2>2, <2>4, LiveMars DEF Does, OwnWork, SweepLabels, DeadLabels
<1>6. CASE At(c, "boot.start") /\ SupCall(c, "start", j.cur, j.all[j.cur], "boot")
  <2>1. j.all[j.cur] \in Session
    BY <1>2, <1>3, <1>6, RowOrAbsent DEF JobOK, At
  <2>2. "boot" \in Onward /\ j.cur \in Touches(c)
    BY <1>1, <1>3, Onwards DEF BootLabels, Touches
  <2> QED  BY <1>1, <1>2, <1>6, <2>1, <2>2, SupCallDoes
<1> QED  BY <1>4, <1>5, <1>6 DEF BootLoop

\* A job of the dispatcher that comes to reconcile, or a call that is over.
LEMMA SweepDoes ==
  ASSUME LifeInv, NEW c \in Caller, Busy(c), call[c] = Idle, UNCHANGED supVars,
         marred \subseteq marred', NEW k, job' = [job EXCEPT ![c] = k],
         \/ k = NoJob
         \/ /\ c = Disp /\ job[c].verb # "boot" /\ k.at \in SweepLabels
            /\ k.verb = job[c].verb /\ k.name = job[c].name /\ k.to = job[c].to
  PROVE  Does(c)
<1>1. job'[c] = k
  BY DEF LifeInv, JobInv, JobsTyped
<1>2. k # NoJob => Keeps(c)
  BY KeepsFields DEF LifeInv
<1> QED  BY <1>1, <1>2 DEF Does, OwnWork, Busy, SweepLabels

LEMMA FinishDoes ==
  ASSUME LifeInv, TreeInv, NEW c \in Caller, Finish(c) \/ Reconcile(c)
  PROVE  Does(c)
<1> DEFINE j == job[c]
<1>1. Busy(c) /\ call[c] = Idle /\ j.at \in {"finish"} \cup SweepLabels
  BY DEF Finish, Reconcile, At, SweepLabels
<1>2. j \in JobType /\ JobOK(c) /\ j.todo \subseteq Name /\ OwnWork(c)
  BY <1>1, BusyTyped DEF LifeInv, JobInv, TreeInv
<1>3. j.verb # "boot"
  BY <1>1, <1>2 DEF JobOK, BootLabels, SweepLabels
<1>4. CASE Finish(c)
  <2> DEFINE k == [j EXCEPT !.at = "reap", !.all = rec, !.claim = NoDriver]
  <2>1. UNCHANGED <<supVars, marred>>
        /\ job' = IF c = Disp THEN [job EXCEPT ![c] = k] ELSE [job EXCEPT ![c] = NoJob]
    BY <1>4 DEF Finish
  <2>2. k.at = "reap" /\ k.verb = j.verb /\ k.name = j.name /\ k.to = j.to
    <3> HIDE DEF j
    <3> QED  BY <1>2 DEF JobType
  <2> HIDE DEF k
  <2> QED  BY <1>1, <1>3, <2>1, <2>2, SweepDoes DEF SweepLabels
<1>5. CASE Reconcile(c)
  <2>1. c = Disp
    BY <1>1, <1>2, <1>5 DEF OwnWork, Reconcile, At, SweepLabels
  <2>2. ASSUME NEW l \in SweepLabels, NEW T, job' = [job EXCEPT ![c] = [j EXCEPT !.at = l, !.todo = T]],
               UNCHANGED supVars, marred \subseteq marred'
        PROVE  Does(c)
    <3> DEFINE k == [j EXCEPT !.at = l, !.todo = T]
    <3>1. k.at = l /\ k.verb = j.verb /\ k.name = j.name /\ k.to = j.to
      <4> HIDE DEF j
      <4> QED  BY <1>2 DEF JobType
    <3> HIDE DEF k
    <3> QED  BY <1>1, <1>3, <2>1, <2>2, <3>1, SweepDoes DEF k
  <2>3. ASSUME NEW T, j.at \in SweepLabels, job' = [job EXCEPT ![c] = [j EXCEPT !.todo = T]],
               UNCHANGED supVars, marred \subseteq marred'
        PROVE  Does(c)
    <3> DEFINE k == [j EXCEPT !.todo = T]
    <3>1. k.at = j.at /\ k.verb = j.verb /\ k.name = j.name /\ k.to = j.to
      <4> HIDE DEF j
      <4> QED  BY <1>2 DEF JobType
    <3> HIDE DEF k
    <3> QED  BY <1>1, <1>3, <2>1, <2>3, <3>1, SweepDoes DEF k
  <2>4. CASE At(c, "reap")
    BY <1>5, <2>2, <2>4 DEF Reconcile, At, SweepLabels, hubVars
  <2>5. CASE At(c, "reaping") /\ j.todo # {}
    <3>1. PICK n \in j.todo : GoDead(c, n, "reaping")
      BY <1>5, <2>5 DEF Reconcile, At
    <3>2. UNCHANGED hubVars
      BY <1>5, <2>5 DEF Reconcile, At
    <3> QED  BY <1>1, <1>2, <1>3, <2>1, <3>1, <3>2, GoDeadDoes
  <2>6. CASE At(c, "reaping") /\ j.todo = {}
    BY <1>5, <2>2, <2>6 DEF Reconcile, At, SweepLabels, hubVars
  <2>7. CASE At(c, "raising") /\ j.todo # {}
    <3>1. PICK n \in j.todo : GoLive(n) /\ job' = [job EXCEPT ![c].todo = @ \ {n}]
      BY <1>5, <2>7 DEF Reconcile, At
    <3>2. job' = [job EXCEPT ![c] = [j EXCEPT !.todo = j.todo \ {n}]]
      BY <1>2, <3>1 DEF LifeInv, JobInv, JobsTyped
    <3>3. UNCHANGED supVars /\ marred \subseteq marred' /\ j.at \in SweepLabels
      BY <2>7, <3>1, LiveMars DEF At, SweepLabels
    <3> QED  BY <2>3, <3>2, <3>3
  <2>8. CASE At(c, "raising") /\ j.todo = {}
    <3>1. job' = [job EXCEPT ![c] = NoJob] /\ UNCHANGED <<supVars, marred>>
      BY <1>5, <2>8 DEF Reconcile, At, hubVars
    <3> QED  BY <1>1, <3>1, SweepDoes
  <2> QED  BY <1>5, <2>4, <2>5, <2>6, <2>7, <2>8 DEF Reconcile
<1> QED  BY <1>4, <1>5

\* goDead goes on, and back to what called it.
LEMMA DeadDoes ==
  ASSUME LifeInv, TreeInv, NEW c \in Caller, DeadDelete(c) \/ DeadCancel(c) \/ DeadWait(c)
  PROVE  Does(c)
<1> DEFINE j == job[c]
<1>1. Busy(c) /\ call[c] = Idle /\ j.at \in DeadLabels
  BY DEF DeadDelete, DeadCancel, DeadWait, At, DeadLabels
<1>2. /\ j \in JobType /\ JobOK(c) /\ j.verb # "boot" /\ j.ret \in {"restart.set", "reaping"}
      /\ c # Disp => j.ret = "restart.set"
  <2>1. j \in JobType /\ JobOK(c) /\ OwnWork(c)
    BY <1>1, BusyTyped DEF LifeInv, JobInv, TreeInv
  <2> QED  BY <1>1, <2>1 DEF JobOK, OwnWork, BootLabels, DeadLabels
<1>3. ASSUME NEW l, NEW x, job' = [job EXCEPT ![c] = [j EXCEPT !.at = l, !.drv = x]],
             l \in {"dead.cancel", j.ret}, UNCHANGED supVars, marred \subseteq marred'
      PROVE  Does(c)
  <2> DEFINE k == [j EXCEPT !.at = l, !.drv = x]
  <2>1. k.at = l /\ k.verb = j.verb /\ k.name = j.name /\ k.to = j.to /\ k.ret = j.ret
    <3> HIDE DEF j
    <3> QED  BY <1>2 DEF JobType
  <2> HIDE DEF k
  <2>2. Keeps(c) /\ job'[c] = k
    BY <1>1, <1>2, <1>3, <2>1, KeepsFields DEF LifeInv, k
  <2> QED  BY <1>1, <1>2, <1>3, <2>1, <2>2 DEF Does, OwnWork, SweepLabels, DeadLabels
<1>4. CASE DeadDelete(c)
  BY <1>3, <1>4 DEF DeadDelete
<1>5. CASE DeadCancel(c)
  <2>1. Go(c, "dead.wait") /\ UNCHANGED supVars /\ marred' = marred
    BY <1>5 DEF DeadCancel
  <2>2. Keeps(c) /\ job'[c].at = "dead.wait" /\ job'[c].ret = j.ret
    BY <1>1, <2>1, GoKeeps DEF LifeInv
  <2> QED  BY <1>1, <1>2, <2>1, <2>2 DEF Does, OwnWork, SweepLabels, DeadLabels
<1>6. CASE DeadWait(c)
  BY <1>3, <1>6 DEF DeadWait
<1> QED  BY <1>4, <1>5, <1>6

LEMMA VerbDoes == ASSUME LifeInv, TreeInv, NEW c \in Caller, VerbStep(c) PROVE Does(c)
<1>1. CASE At(c, "other") /\ Go(c, "finish") /\ UNCHANGED <<supVars, hubVars>>
  BY <1>1, Onwards, GoDoes DEF At, hubVars
<1>2. CASE CallerStep(c) /\ UNCHANGED <<hubVars, job>>
  <2>1. Busy(c)
    BY <1>2 DEF CallerStep, TreeInv, OwnCalls
  <2> QED  BY <1>2, <2>1 DEF Does, Keeps, OwnWork, TreeInv, hubVars, Busy
<1> QED  BY <1>1, <1>2, CreateDoes, CloseDoes, SwitchDoes, ResumeDoes, RestartDoes, RewindDoes,
            BootDoes, FinishDoes, DeadDoes DEF VerbStep

\* A call into the supervisor goes on for the name it began with, or returns;
\* only a start launches a loop, of that name.
LEMMA CallGoesOn ==
  ASSUME SupInv, NEW c \in Caller, CallerStep(c)
  PROVE  /\ \A b \in Caller \ {c} : call'[b] = call[b]
         /\ call'[c] # Idle => /\ call'[c].name = call[c].name /\ call'[c].seen = call[c].seen
                               /\ call[c].op # "restart" => call'[c].op = call[c].op
         /\ \A n \in Name : n # call[c].name \/ call[c].op # "start" => AliveOf(n)' \subseteq AliveOf(n)
<1>1. TypeOK /\ call[c] # Idle /\ call[c].op \in {"start", "stop", "restart"} /\ call[c].name \in Name
  BY Callers DEF SupInv, CallerStep, Call
<1>2. ASSUME NEW r \in Run, WaitFor(c, r)
      PROVE  /\ \A b \in Caller \ {c} : call'[b] = call[b]
             /\ call'[c].name = call[c].name /\ call'[c].seen = call[c].seen
             /\ call'[c].op = call[c].op
  BY <1>1, <1>2, WaitTyped
<1>3. ASSUME ToStart(c), call[c].op \in {"start", "restart"}
      PROVE  /\ \A b \in Caller \ {c} : call'[b] = call[b]
             /\ call'[c].name = call[c].name /\ call'[c].seen = call[c].seen
             /\ call'[c].op = "start"
  BY <1>1, <1>3, MovedTyped, ZenonT(40) DEF ToStart
<1>4. ASSUME Return(c) PROVE call'[c] = Idle /\ \A b \in Caller \ {c} : call'[b] = call[b]
  BY <1>1, <1>4, ReturnTyped
<1>5. CASE Launch(c)
  <2>1. PICK r \in Run : /\ phase' = [phase EXCEPT ![r] = "top"]
                         /\ owner' = [owner EXCEPT ![r] = call[c].name]
    BY <1>5 DEF Launch
  <2>2. \A n \in Name : n # call[c].name => AliveOf(n)' \subseteq AliveOf(n)
    BY <1>1, <2>1 DEF AliveOf, Alive, TypeOK
  <2> QED  BY <1>4, <1>5, <2>2 DEF Launch
<1>6. CASE FindRunning(c) \/ StopNothing(c) \/ StopRun(c) \/ Waited(c)
  <2>1. UNCHANGED <<phase, owner>>
    BY <1>6 DEF FindRunning, StopNothing, StopRun, Waited
  <2>2. \A n \in Name : AliveOf(n)' \subseteq AliveOf(n)
    BY <2>1 DEF AliveOf, Alive
  <2>3. runs[call[c].name] \in Run \cup {NoRun}
    BY <1>1 DEF TypeOK
  <2> QED  BY <1>1, <1>2, <1>3, <1>4, <1>6, <2>2, <2>3
           DEF FindRunning, StopNothing, StopRun, Waited, AfterStop
<1> QED  BY <1>5, <1>6 DEF CallerStep

LEMMA DoesKeeps ==
  ASSUME LifeInv, TreeInv, NEW c \in Caller, Does(c), Fine(c)
  PROVE  TreeInv'
<1> DEFINE CallsMove ==
             /\ \A b \in Caller \ {c} : call'[b] = call[b]
             /\ call'[c] # Idle => job'[c] # NoJob /\ (c # Disp => call'[c].name \in Touches(c)')
             /\ \A n \in Name : call[c] = Idle \/ n # call[c].name \/ call[c].op # "start"
                                  => AliveOf(n)' \subseteq AliveOf(n)
<1>0. /\ SupInv /\ Apart /\ marred \subseteq marred' /\ \A b \in Caller \ {c} : job'[b] = job[b]
      /\ JobInv /\ JobInv' /\ [SupNext]_supVars
  BY DEF LifeInv, TreeInv, Does, Fine
<1>1. \A b \in Caller : Touches(b)' \subseteq Touches(b)
  <2>1. ASSUME NEW b \in Caller, b # c PROVE Touches(b)' \subseteq Touches(b)
    BY <1>0, <2>1 DEF Touches, Busy
  <2>2. CASE job' = job
    BY <2>2 DEF Touches, Busy
  <2>3. CASE Busy(c)
    <3>1. job'[c] = NoJob => Touches(c)' \subseteq Touches(c)
      BY DEF Touches, Busy
    <3>2. Keeps(c) => Touches(c)' \subseteq Touches(c)
      BY <2>3 DEF Keeps, Touches
    <3>3. Touches(c)' \subseteq Touches(c)
      BY <3>1, <3>2 DEF Does
    <3> QED  BY <2>1, <3>3
  <2> QED  BY <2>2, <2>3 DEF Does
<1>2. Apart'
  BY <1>0, <1>1 DEF Apart
<1>3. CallsMove
  <2>1. CASE UNCHANGED supVars /\ call[c] = Idle
    BY <2>1 DEF supVars, AliveOf, Alive
  <2>2. CASE CallerStep(c) /\ UNCHANGED <<hubVars, job>>
    <3>1. call[c] # Idle
      BY <2>2 DEF CallerStep
    <3>2. job[c] # NoJob /\ (c # Disp => call[c].name \in Touches(c))
      BY <3>1 DEF TreeInv, OwnCalls, Busy
    <3>3. Touches(c)' = Touches(c) /\ job' = job
      BY <2>2 DEF Touches, Busy
    <3> QED  BY <1>0, <2>2, <3>1, <3>2, <3>3, CallGoesOn
  <2>3. ASSUME NEW op \in {"start", "stop", "restart"}, NEW n \in Name, NEW k \in Conf,
               Begin(c, op, n, k), job'[c] # NoJob, c # Disp => n \in Touches(c)'
        PROVE  CallsMove
    <3>1. call'[c].name = n /\ \A b \in Caller \ {c} : call'[b] = call[b]
      BY <1>0, <2>3, BeginTyped DEF SupInv
    <3>2. \A m \in Name : AliveOf(m)' = AliveOf(m)
      BY <2>3 DEF Begin, AliveOf, Alive
    <3> QED  BY <2>3, <3>1, <3>2
  <2> HIDE DEF CallsMove
  <2> QED  BY <2>1, <2>2, <2>3 DEF Does
<1>4. ASSUME NEW b \in Caller PROVE OwnWork(b)' /\ OwnCalls(b)'
  <2>1. CASE b = c
    BY <1>3, <2>1 DEF Does, OwnCalls, Busy
  <2>2. CASE b # c
    BY <1>0, <1>3, <2>2 DEF TreeInv, OwnWork, OwnCalls, Touches, Busy
  <2> QED  BY <2>1, <2>2
<1>5. ASSUME NEW b \in Caller, b # c PROVE TreeWatched(b)'
  <2> SUFFICES ASSUME Busy(b), job[b].at = "close.tree", job[b].name \notin marred
               PROVE  TreeWatched(b)'
    BY <1>0, <1>5 DEF TreeWatched, Busy
  <2>0. PICK n \in Name : n = job[b].name
    BY <1>0, BusyTyped
  <2>1. job[b] \in JobType /\ n \notin marred /\ JobOK(b)
    BY <1>0, <2>0, BusyTyped DEF JobInv
  <2>2. b = Disp /\ n \in Touches(b)
    BY <2>0, <2>1 DEF JobOK, LockedLabels, BootLabels, Touches
  <2>3. call[c] # Idle => call[c].name # n
    BY <1>0, <1>5, <2>1, <2>2 DEF TreeInv, OwnCalls, Apart
  <2>4. AliveOf(n)' \subseteq AliveOf(n)
    BY <1>3, <2>1, <2>3
  <2>5. call'[b] = call[b] /\ job'[b] = job[b]
    BY <1>0, <1>3, <1>5
  <2>6. TreeWatched(b)
    BY DEF TreeInv
  <2>7. /\ call[b] = Idle => AliveOf(n)' = {}
        /\ call[b] # Idle => call[b].op = "stop" /\ call[b].name = n /\ AliveOf(n)' \subseteq call[b].seen
    BY <2>0, <2>4, <2>6 DEF TreeWatched
  <2> QED  BY <2>0, <2>5, <2>7 DEF TreeWatched
<1>6. TreeWatched(c)'
  <2> SUFFICES ASSUME job'[c] # NoJob, job'[c].at = "close.tree", job'[c].name \notin marred'
               PROVE  TreeWatched(c)'
    BY DEF TreeWatched, Busy
  <2>0. PICK n : n = job[c].name
    OBVIOUS
  <2>1. CASE CallerStep(c) /\ UNCHANGED <<hubVars, job>>
    <3>1. /\ call[c] # Idle /\ call[c].op = "stop" /\ call[c].name = n
          /\ AliveOf(n) \subseteq call[c].seen /\ n \in Name /\ job'[c].name = n
      BY <1>0, <2>0, <2>1, BusyTyped DEF TreeInv, TreeWatched, CallerStep, hubVars, Busy
    <3>2. AliveOf(n)' \subseteq AliveOf(n)
      BY <1>3, <3>1
    <3>3. call'[c] = Idle => AliveOf(n)' = {}
      <4>1. StopEnds
        BY <1>0, StopStep
      <4>2. call'[c] = Idle => \A r \in call[c].seen : ~Alive(r)'
        BY <3>1, <4>1 DEF StopEnds
      <4> QED  BY <3>1, <3>2, <4>2 DEF AliveOf
    <3>4. call'[c] # Idle => call'[c].op = "stop" /\ call'[c].name = n /\ call'[c].seen = call[c].seen
      BY <1>0, <2>1, <3>1, CallGoesOn
    <3>5. call'[c] # Idle => AliveOf(n)' \subseteq call'[c].seen
      BY <3>1, <3>2, <3>4
    <3> QED  BY <3>1, <3>3, <3>4, <3>5 DEF TreeWatched
  <2>2. ASSUME NEW op \in {"start", "stop", "restart"}, NEW m \in Name, NEW k \in Conf,
               Begin(c, op, m, k), op = "stop" /\ m = job[c].name, Keeps(c)
        PROVE  TreeWatched(c)'
    <3>1. /\ call'[c].op = "stop" /\ call'[c].name = n /\ call'[c].seen = AliveOf(n)
          /\ call'[c].at = "enter"
      BY <1>0, <2>0, <2>2, BeginTyped DEF SupInv
    <3>2. AliveOf(n)' = AliveOf(n) /\ job'[c].name = n
      BY <2>0, <2>2 DEF Begin, AliveOf, Alive, Keeps
    <3>3. call'[c] # Idle
      <4>1. Idle.op = "none"
        BY DEF Idle
      <4> QED  BY <3>1, <4>1
    <3> QED  BY <3>1, <3>2, <3>3 DEF TreeWatched
  <2> QED  BY <2>1, <2>2 DEF Does
<1> QED  BY <1>2, <1>4, <1>5, <1>6 DEF TreeInv

\* A call begins, and the history knows the names it shares with the others.
LEMMA BeginsKeeps ==
  ASSUME LifeInv, TreeInv, NEW c \in Caller, ~Busy(c), UNCHANGED supVars, marred \subseteq marred',
         \A b \in Caller \ {c} : job'[b] = job[b],
         Touches(c)' \cap UNION {Touches(b) : b \in Caller} \subseteq marred',
         job'[c].at \notin SweepLabels \cup DeadLabels \cup {"close.tree"}
  PROVE  TreeInv'
<1>1. /\ call' = call /\ call[c] = Idle /\ Apart
      /\ \A n : AliveOf(n)' = AliveOf(n)
  BY DEF supVars, TreeInv, OwnCalls, AliveOf, Alive
<1>2. \A b \in Caller \ {c} : Touches(b)' = Touches(b)
  BY DEF Touches, Busy
<1>3. \A b, d \in Caller : b # d => Touches(b)' \cap Touches(d)' \subseteq marred'
  BY <1>1, <1>2 DEF Apart
<1>4. ASSUME NEW b \in Caller PROVE (OwnWork(b) /\ OwnCalls(b) /\ TreeWatched(b))'
  <2>1. CASE b = c
    BY <1>1, <2>1 DEF OwnWork, OwnCalls, TreeWatched
  <2>2. CASE b # c
    <3>1. job'[b] = job[b] /\ OwnWork(b) /\ OwnCalls(b) /\ TreeWatched(b)
      BY <2>2 DEF TreeInv
    <3>2. OwnWork(b)' /\ OwnCalls(b)'
      BY <1>1, <1>2, <2>2, <3>1 DEF OwnWork, OwnCalls, Busy
    <3>3. TreeWatched(b)'
      BY <1>1, <3>1 DEF TreeWatched, Busy
    <3> QED  BY <3>2, <3>3
  <2> QED  BY <2>1, <2>2
<1> QED  BY <1>3, <1>4 DEF TreeInv, Apart

LEMMA DispatchKeeps ==
  ASSUME LifeInv, TreeInv, NEW v \in Verb, NEW n \in Name, NEW m \in Name, NEW w \in Vendor,
         Dispatch(v, n, m, w)
  PROVE  TreeInv'
<1>1. JobGoes(Disp, v) /\ Disp \in Caller /\ ~Busy(Disp)
  BY DispatchJob, CallerAssumption DEF LifeInv, Dispatch
<1>2. UNCHANGED supVars /\ marred \cup Touched \subseteq marred'
  BY DEF Dispatch
<1>3. v \notin SweepLabels \cup DeadLabels \cup {"close.tree"}
  BY VerbAssumption DEF SweepLabels, DeadLabels
<1> QED  BY <1>1, <1>2, <1>3, BeginsKeeps DEF JobGoes, Touched

LEMMA UnlockedKeeps ==
  ASSUME LifeInv, TreeInv, NEW c \in Unlocked, NEW v \in UnlockedVerb, NEW n \in Name,
         UnlockedCall(c, v, n)
  PROVE  TreeInv'
<1>1. /\ JobGoes(c, v) /\ v \in {"resume", "restart"} /\ c \in Caller /\ ~Busy(c)
      /\ UNCHANGED supVars
  BY UnlockedJob, CallerAssumption DEF LifeInv, UnlockedCall
<1>2. /\ marred \subseteq marred'
      /\ (\E b \in Caller : Busy(b)) => n \in marred'
  BY DEF UnlockedCall
<1>3. Touches(c)' \subseteq {n}
  <2>1. job' = [job EXCEPT ![c] = Job(v, n, n, rec[n])]
    BY DEF UnlockedCall
  <2>2. LET k == Job(v, n, n, rec[n]) IN k.verb = v /\ k.name = n /\ k.to = n
    BY DEF Job
  <2>3. job'[c].verb = v /\ job'[c].name = n /\ job'[c].to = n
    BY <1>1, <2>1, <2>2 DEF LifeInv, JobInv, JobsTyped
  <2> QED  BY <1>1, <2>3 DEF Touches
<1>4. (\E b \in Caller : Busy(b)) \/ UNION {Touches(b) : b \in Caller} = {}
  BY DEF Touches
<1>5. v \notin SweepLabels \cup DeadLabels \cup {"close.tree"}
  BY <1>1 DEF SweepLabels, DeadLabels
<1>6. Touches(c)' \cap UNION {Touches(b) : b \in Caller} \subseteq marred'
  BY <1>2, <1>3, <1>4
<1> QED  BY <1>1, <1>2, <1>5, <1>6, BeginsKeeps DEF JobGoes

\* The bridges, the drivers, the end of the daemon: no call moves, and no loop
\* is launched.
LEMMA OtherKeeps ==
  ASSUME TreeInv, UNCHANGED <<job, call>>, marred \subseteq marred',
         \A n : AliveOf(n)' \subseteq AliveOf(n)
  PROVE  TreeInv'
<1>1. \A b \in Caller : Touches(b)' = Touches(b)
  BY DEF Touches, Busy
<1>2. Apart'
  BY <1>1 DEF TreeInv, Apart
<1>3. ASSUME NEW b \in Caller PROVE (OwnWork(b) /\ OwnCalls(b) /\ TreeWatched(b))'
  <2>1. OwnWork(b) /\ OwnCalls(b) /\ TreeWatched(b)
    BY DEF TreeInv
  <2>2. OwnWork(b)' /\ OwnCalls(b)'
    BY <1>1, <2>1 DEF OwnWork, OwnCalls, Busy
  <2>3. AliveOf(job[b].name)' \subseteq AliveOf(job[b].name)
    <3>1. PICK n : n = job[b].name
      OBVIOUS
    <3> QED  BY <3>1
  <2>4. TreeWatched(b)'
    BY <2>1, <2>3 DEF TreeWatched, Busy
  <2> QED  BY <2>2, <2>4
<1> QED  BY <1>2, <1>3 DEF TreeInv

LEMMA TreeKept == LifeInv /\ TreeInv /\ [Next]_vars => TreeInv'
<1> SUFFICES ASSUME LifeInv, TreeInv, [Next]_vars PROVE TreeInv'
  OBVIOUS
<1>1. ASSUME NEW c \in Caller, VerbStep(c) PROVE TreeInv'
  BY <1>1, VerbDoes, VerbFine, DoesKeeps
<1>2. ASSUME NEW r \in Run, BridgeStep(r) PROVE TreeInv'
  <2>1. LoopStep(r) /\ UNCHANGED <<job, marred>> /\ TypeOK
    BY <1>2 DEF BridgeStep, LifeInv, SupInv
  <2>2. Alive(r) /\ UNCHANGED <<owner, call>> /\ \E p \in Phase : phase' = [phase EXCEPT ![r] = p]
    BY <2>1, LoopMoves
  <2>3. \A n : AliveOf(n)' \subseteq AliveOf(n)
    BY <2>1, <2>2 DEF AliveOf, Alive, TypeOK
  <2> QED  BY <2>1, <2>2, <2>3, OtherKeeps
<1>3. ASSUME UNCHANGED <<job, call, phase, owner>>, marred \subseteq marred' PROVE TreeInv'
  <2>1. \A n : AliveOf(n)' \subseteq AliveOf(n)
    BY <1>3 DEF AliveOf, Alive
  <2> QED  BY <1>3, <2>1, OtherKeeps
<1>4. ASSUME NEW d \in Driver, DriverStep(d) PROVE TreeInv'
  <2>1. UNCHANGED <<job, supVars>>
    BY <1>4 DEF DriverStep, StartTurn, TurnAnswered, StoreToken, DropToken, DriverEnds, StopLive
  <2>2. marred \subseteq marred'
    BY <1>4 DEF DriverStep, StartTurn, TurnAnswered, StoreToken, DropToken, DriverEnds, StopLive,
       Unchanged, SaveWorks, SaveFails
  <2> QED  BY <1>3, <2>1, <2>2 DEF supVars
<1>5. CASE Shutdown
  BY <1>3, <1>5 DEF Shutdown, CtxEnds
<1>6. CASE UNCHANGED vars
  BY <1>3, <1>6 DEF vars, supVars, hubVars
<1> QED  BY <1>1, <1>2, <1>4, <1>5, <1>6, DispatchKeeps, UnlockedKeeps DEF Next

LEMMA TreeInit == Init => TreeInv
<1> SUFFICES ASSUME Init PROVE TreeInv
  OBVIOUS
<1>1. \A c \in Caller : call[c] = Idle
  BY DEF Init, SupInit
<1>2. \A c \in Caller : c # Boot => job[c] = NoJob
  BY DEF Init
<1>3. ASSUME NEW c \in Caller, Busy(c) PROVE job[c].at = "boot"
  BY <1>3, StartInv, SomeNames, FreshJob, <1>2 DEF Init, Busy, Job, Verbs, LifeInv
<1>4. Apart
  BY <1>2 DEF Apart, Touches, Busy
<1>5. \A c \in Caller : OwnWork(c) /\ OwnCalls(c) /\ TreeWatched(c)
  BY <1>1, <1>3 DEF OwnWork, OwnCalls, TreeWatched, SweepLabels, DeadLabels
<1> QED  BY <1>4, <1>5 DEF TreeInv

\* When a close is about to remove the worktree of its session, the loop it has
\* stopped has returned and no other was launched in its place, unless an
\* unlocked call is about the same session (session.go:913-927).
THEOREM TreeIsFreeOnClose == Spec => []TreeIsFree
<1>1. TreeInv => TreeIsFree
  BY DEF TreeInv, TreeWatched, TreeIsFree, At, Untouched
<1>2. Init => LifeInv /\ TreeInv
  BY StartInv, TreeInit
<1>3. LifeInv /\ TreeInv /\ [Next]_vars => (LifeInv /\ TreeInv)'
  BY DaemonStep, TreeKept
<1> QED  BY <1>1, <1>2, <1>3, PTL DEF Spec

-----------------------------------------------------------------------------
(* The daemon at rest. *)

\* What c may act on: a verb under the dispatch lock on any name, through
\* reconcile, an unlocked call on its own.
Acts(c, n) == Busy(c) /\ (c = Disp \/ n \in Touches(c))
Sole(c, n) == \A b \in Caller \ {c} : ~Acts(b, n)

\* While a verb holds the dispatch lock, the history knows the names of the
\* unlocked calls.
LockedOut == Busy(Disp) => \A c \in Unlocked : Touches(c) \subseteq marred

Calls(c, n) == call[c] # Idle /\ call[c].name = n
RestartDead(c) == job[c].at \in DeadLabels /\ job[c].ret = "restart.set"
SweepDead(c) == job[c].at \in DeadLabels /\ job[c].ret = "reaping"

\* Who does what, where a call into the supervisor came from, and which name
\* goes dead.
FreeVerbs == {"resume", "restart", "boot"}
UnlockedLabels == {"resume", "resume.live", "resume.start", "restart", "restart.set", "restart.live",
                   "restart.start", "finish"} \cup DeadLabels \cup BootLabels
From(c) ==
  /\ Busy(c) => /\ job[c].verb \in FreeVerbs <=> c # Disp
                /\ c # Disp => job[c].at \in UnlockedLabels
                /\ RestartDead(c) => job[c].cur = job[c].name
                /\ job[c].at \in {"close.failed", "rename.failed"} => job[c].name \in marred
  /\ call[c] # Idle =>
       /\ call[c].op = "stop" => job[c].at \in {"close.tree", "archive.set", "rename.set", "dead.delete"}
       /\ call[c].op # "stop" => job[c].at \in {"finish", "boot"}
       /\ job[c].at \in {"close.tree", "archive.set", "rename.set"} => call[c].name = job[c].name
       /\ job[c].at = "dead.delete" => call[c].name = job[c].cur

\* The driver in the table is driving, for that name, and nobody cancelled it,
\* until the daemon's context ends.
LiveDrives ==
  \A n \in Name : live[n] # NoDriver =>
    /\ driver[live[n]].at = "driving" /\ driver[live[n]].name = n
    /\ ~driver[live[n]].cancelled

\* c is on its way to start the bridge of n, or has stopped it, or is at it.
StartLabels == {"create.start", "close.tree", "close.remove", "archive.set", "unarchive.start",
                "rename.set", "rename.start", "restart.set", "restart.live", "restart.start",
                "resume.live", "resume.start"}
Target(c) == IF job[c].at = "rename.start" THEN job[c].to ELSE job[c].name
Starting(c, n) ==
  \/ Calls(c, n)
  \/ Busy(c) /\ job[c].at \in StartLabels /\ n = Target(c)
  \/ Busy(c) /\ RestartDead(c) /\ n = job[c].name
  \/ Busy(c) /\ job[c].at \in BootLabels /\ n \in job[c].todo
  \/ Busy(c) /\ job[c].at = "boot.start" /\ n = job[c].cur

\* ... or is about to restart it with another backend.
Switching(c, n) ==
  \/ Busy(c) /\ job[c].at = "switch.restart" /\ job[c].name = n
  \/ Calls(c, n) /\ call[c].op = "restart"

\* The bridge of a name that none but c acts on: where the row and the bridge
\* differ, c is at work.
BridgeBy(c, n) ==
  /\ rec[n] = Absent => runs[n] = NoRun
  /\ Calls(c, n) =>
       /\ call[c].op # "stop" => rec[n] # Absent /\ call[c].conf.vendor = rec[n].vendor
       /\ call[c].at = "wait" => call[c].op # "start" /\ call[c].run = runs[n]
  /\ runs[n] # NoRun => ~stopping[runs[n]] \/ (Calls(c, n) /\ call[c].at = "wait")
  /\ Running(n) => conf[runs[n]].vendor = rec[n].vendor \/ Switching(c, n)
  /\ InUse(n) => runs[n] # NoRun \/ Starting(c, n)

\* The driver of a name that none but c acts on.
Awaits(c, n) == Busy(c) /\ job[c].at \in {"dead.cancel", "dead.wait"} /\ job[c].cur = n
Rising(c, n) ==
  \/ Busy(c) /\ job[c].at \in BootLabels /\ n \in job[c].todo
  \/ /\ Busy(c) /\ job[c].at \in {"resume.live", "dead.cancel", "dead.wait", "restart.set", "restart.live"}
     /\ n = job[c].name
HostedBy(c, n) ==
  /\ live[n] # NoDriver => socket[n] = live[n]
  /\ \A d \in Driver : driver[d].at = "driving" /\ driver[d].cancelled /\ driver[d].name = n
                         => Awaits(c, n) /\ job[c].drv = d
  /\ Awaits(c, n) => live[n] = NoDriver
  /\ Busy(Disp) \/ (InUse(n) <=> live[n] # NoDriver) \/ Rising(c, n)

\* A stop that has returned.
Downs(c) ==
  Busy(c) /\ call[c] = Idle /\ job[c].at \in {"close.tree", "close.remove", "rename.set"}
    /\ job[c].name \notin marred => runs[job[c].name] = NoRun

\* What a job knows of its row.
RowLabels == {"close", "close.tree", "unarchive", "unarchive.start", "rewind", "restart", "restart.set",
              "restart.live", "restart.start", "resume", "resume.live", "resume.start", "rename",
              "rename.set", "create.start"}
UpLabels == {"resume.live", "resume.start", "restart", "restart.set", "restart.live", "restart.start"}
SameVendor(n, s) == rec[n] # Absent /\ rec[n].vendor = s.vendor
Knows(c) ==
  LET j == job[c] IN
  Busy(c) /\ (c = Disp \/ j.name \notin marred) =>
    /\ j.at = "create" => rec[j.name] = Absent
    /\ j.at \in {"rename", "rename.set"} => rec[j.to] = Absent
    /\ j.at = "rename.start" => SameVendor(j.to, j.sess)
    /\ j.at \in RowLabels \/ RestartDead(c) => SameVendor(j.name, j.sess)
    /\ c # Disp => /\ j.at = "resume" => rec[j.name].archived = j.sess.archived
                   /\ j.at \in UpLabels \/ RestartDead(c) => InUse(j.name)

\* The boot loop finds the rows it loaded.
BootKnows(c) ==
  LET j == job[c] IN
  Busy(c) /\ j.at \in BootLabels =>
    \A n \in Name \ marred : n \in j.todo \/ (j.at = "boot.start" /\ n = j.cur)
      => InUse(n) /\ j.all[n].vendor = rec[n].vendor

\* What reconcile has yet to do.
Swept(n) ==
  LET j == job[Disp]  up == live[n] # NoDriver IN
  Busy(Disp) =>
    /\ j.at \in SweepLabels \/ SweepDead(Disp) =>
         InUse(n) <=> j.all[n] # Absent /\ ~j.all[n].archived
    /\ j.at = "reaping" \/ SweepDead(Disp) =>
         /\ up => InUse(n) \/ n \in j.todo \/ (j.at = "dead.delete" /\ n = j.cur)
         /\ n \in j.todo \/ (SweepDead(Disp) /\ n = j.cur) => ~InUse(n)
    /\ j.at = "raising" =>
         /\ up => InUse(n)
         /\ InUse(n) => up \/ n \in j.todo
         /\ n \in j.todo => InUse(n)

Rest ==
  /\ LockedOut /\ LiveDrives
  /\ \A c \in Caller : From(c) /\ Downs(c) /\ Knows(c) /\ BootKnows(c)
  /\ \A n \in Name \ marred :
       Swept(n) /\ \A c \in Caller : Sole(c, n) => BridgeBy(c, n) /\ HostedBy(c, n)

RestInv == outer \/ Rest

\* What an unmarred name is left as by a step that is not about it.
Same(n) ==
  /\ rec'[n] = Absent <=> rec[n] = Absent
  /\ rec[n] # Absent => rec'[n].vendor = rec[n].vendor /\ rec'[n].archived = rec[n].archived
  /\ runs'[n] = runs[n]
  /\ runs[n] # NoRun => stopping'[runs[n]] = stopping[runs[n]] /\ conf'[runs[n]] = conf[runs[n]]
  /\ live'[n] = live[n] /\ (live[n] # NoDriver => socket'[n] = socket[n])
  /\ \A d \in Driver : driver'[d].at = "driving" /\ driver'[d].cancelled /\ driver'[d].name = n
       => driver[d].at = "driving" /\ driver[d].cancelled /\ driver[d].name = n

\* Who holds no dispatch lock adds no row, removes none and changes no backend.
RowsStay == \A n \in Name : /\ rec'[n] = Absent <=> rec[n] = Absent
                            /\ rec[n] # Absent => rec'[n].vendor = rec[n].vendor

\* What a step of c does to the names, where nothing was marred or is by it.
Rests(c) ==
  /\ From(c)'
  /\ LiveDrives'
  /\ Downs(c)' /\ Knows(c)' /\ BootKnows(c)'
  /\ c = Disp => \A n \in Name \ marred' : Swept(n)'
  /\ \A n \in Name \ marred' : Sole(c, n) => BridgeBy(c, n)' /\ HostedBy(c, n)'
  /\ c # Disp => RowsStay /\ \A n \in Name \ marred' : ~Acts(c, n) => Same(n)

\* What held of a name that a step is not about holds after it.
LEMMA SameBy ==
  ASSUME NEW b \in Caller, NEW n \in Name, BridgeBy(b, n), HostedBy(b, n), Same(n),
         job'[b] = job[b], call'[b] = call[b], Busy(Disp)' = Busy(Disp)
  PROVE  BridgeBy(b, n)' /\ HostedBy(b, n)'
<1>1. /\ Calls(b, n)' = Calls(b, n) /\ Starting(b, n)' = Starting(b, n)
      /\ Switching(b, n)' = Switching(b, n)
  BY DEF Calls, Starting, Switching, Busy, RestartDead, Target
<1>2. Awaits(b, n)' = Awaits(b, n) /\ Rising(b, n)' = Rising(b, n)
  BY DEF Awaits, Rising, Busy
<1>3. BridgeBy(b, n)'
  BY <1>1 DEF BridgeBy, Same, Running, InUse
<1>4. HostedBy(b, n)'
  BY <1>2 DEF HostedBy, Same, InUse
<1> QED  BY <1>3, <1>4

\* Who acts on no name is at work on none.
LEMMA IdleBy ==
  ASSUME LifeInv, TreeInv, NEW c \in Caller, From(c), NEW n \in Name, ~Acts(c, n)
  PROVE  /\ ~Calls(c, n) /\ ~Starting(c, n) /\ ~Switching(c, n) /\ ~Awaits(c, n) /\ ~Rising(c, n)
<1>1. CASE ~Busy(c)
  BY <1>1 DEF TreeInv, OwnCalls, Calls, Starting, Switching, Awaits, Rising
<1>2. CASE Busy(c)
  <2>1. c # Disp /\ n \notin Touches(c)
    BY <1>2 DEF Acts
  <2>2. /\ ~Calls(c, n) /\ JobOK(c) /\ OwnWork(c)
    BY <2>1 DEF TreeInv, OwnCalls, Calls, LifeInv, JobInv
  <2>3. job[c].verb = "boot" => job[c].at \in BootLabels /\ n \notin job[c].todo \cup {job[c].cur}
    BY <1>2, <2>1, <2>2 DEF JobOK, Touches
  <2>4. job[c].verb # "boot" => job[c].at \notin BootLabels /\ n \notin {job[c].name, job[c].to}
    BY <1>2, <2>1, <2>2 DEF JobOK, Touches, BootLabels, ReconcileLabels, DeadLabels
  <2>5. job[c].at \in DeadLabels => job[c].ret = "restart.set"
    BY <1>2, <2>1, <2>2 DEF OwnWork
  <2>6. ~Starting(c, n) /\ ~Switching(c, n) /\ ~Rising(c, n)
    BY <2>2, <2>3, <2>4
       DEF Starting, Switching, Rising, Target, RestartDead, BootLabels, StartLabels, DeadLabels
  <2>7. ~Awaits(c, n)
    BY <1>2, <2>3, <2>4, <2>5 DEF Awaits, From, RestartDead, BootLabels, DeadLabels
  <2> QED  BY <2>2, <2>6, <2>7
<1> QED  BY <1>1, <1>2

\* So where two callers do nothing, either will do.
LEMMA EitherBy ==
  ASSUME LifeInv, TreeInv, NEW b \in Caller, NEW c \in Caller, From(b), From(c), NEW n \in Name,
         ~Acts(b, n), ~Acts(c, n), BridgeBy(c, n), HostedBy(c, n)
  PROVE  BridgeBy(b, n) /\ HostedBy(b, n)
<1>1. /\ ~Calls(b, n) /\ ~Starting(b, n) /\ ~Switching(b, n) /\ ~Awaits(b, n) /\ ~Rising(b, n)
      /\ ~Calls(c, n) /\ ~Starting(c, n) /\ ~Switching(c, n) /\ ~Awaits(c, n) /\ ~Rising(c, n)
  BY IdleBy
<1> QED  BY <1>1 DEF BridgeBy, HostedBy

\* Two callers act on a name only if the history knows.
LEMMA OneActs ==
  ASSUME TreeInv, LockedOut, NEW b \in Caller, NEW c \in Caller, b # c, NEW n \in Name \ marred,
         Acts(b, n)
  PROVE  ~Acts(c, n)
<1>1. Caller = {Disp} \cup Unlocked
  BY CallerAssumption
<1>2. Touches(b) \cap Touches(c) \subseteq marred
  BY DEF TreeInv, Apart
<1> QED  BY <1>1, <1>2 DEF LockedOut, Acts

\* What a step of c leaves of the others.
Others(c) ==
  /\ \A b \in Caller \ {c} : job'[b] = job[b] /\ call'[b] = call[b]
  /\ Touches(c)' \subseteq Touches(c) /\ marred \subseteq marred'

\* A step of a verb leaves the other callers where they are.
LEMMA OthersStay ==
  ASSUME LifeInv, TreeInv, NEW c \in Caller, Busy(c), Does(c), Fine(c)
  PROVE  Others(c)
<1>1. SupInv /\ (\A b \in Caller \ {c} : job'[b] = job[b]) /\ marred \subseteq marred'
  BY DEF LifeInv, Does, Fine
<1>2. Touches(c)' \subseteq Touches(c)
  <2>1. job'[c] = NoJob => Touches(c)' \subseteq Touches(c)
    BY DEF Touches, Busy
  <2>2. Keeps(c) => Touches(c)' \subseteq Touches(c)
    BY DEF Keeps, Touches
  <2> QED  BY <2>1, <2>2 DEF Does
<1>3. \A b \in Caller \ {c} : call'[b] = call[b]
  <2>1. CASE UNCHANGED supVars
    BY <2>1 DEF supVars
  <2>2. CASE CallerStep(c)
    BY <1>1, <2>2, CallGoesOn
  <2>3. ASSUME NEW op \in {"start", "stop", "restart"}, NEW n \in Name, NEW k \in Conf,
               Begin(c, op, n, k)
        PROVE  \A b \in Caller \ {c} : call'[b] = call[b]
    BY <1>1, <2>3, BeginTyped DEF SupInv
  <2> QED  BY <2>1, <2>2, <2>3 DEF Does
<1> QED  BY <1>1, <1>2, <1>3 DEF Others

\* The same, after a step.
EitherWay ==
  \A b, c \in Caller : \A n \in Name :
    LifeInv /\ TreeInv /\ From(b) /\ From(c) /\ ~Acts(b, n) /\ ~Acts(c, n)
      /\ BridgeBy(c, n) /\ HostedBy(c, n)
    => BridgeBy(b, n) /\ HostedBy(b, n)

LEMMA EitherStays == EitherWay'
<1>1. EitherWay
  BY EitherBy DEF EitherWay
<1> QED  BY <1>1, PTL

LEMMA EitherNext ==
  ASSUME LifeInv', TreeInv', NEW b \in Caller, NEW c \in Caller, From(b)', From(c)', NEW n \in Name,
         ~Acts(b, n)', ~Acts(c, n)', BridgeBy(c, n)', HostedBy(c, n)'
  PROVE  BridgeBy(b, n)' /\ HostedBy(b, n)'
BY EitherStays DEF EitherWay

\* The invariant after a step of c, from what the step does.
LEMMA RestsKeeps ==
  ASSUME LifeInv, TreeInv, LifeInv', TreeInv', Rest, NEW c \in Caller, Busy(c), Others(c), Rests(c)
  PROVE  Rest'
<1>1. \A b \in Caller \ {c} : /\ job'[b] = job[b] /\ call'[b] = call[b]
                              /\ Busy(b)' = Busy(b) /\ Touches(b)' = Touches(b)
                              /\ \A n : Acts(b, n)' = Acts(b, n)
  BY DEF Others, Busy, Touches, Acts
<1>2. marred \subseteq marred' /\ Disp \in Caller /\ Caller = {Disp} \cup Unlocked /\ LockedOut
  BY CallerAssumption DEF Others, Rest
<1>3. ASSUME NEW b \in Caller \ {c}, NEW n \in Name \ marred', Acts(b, n)
      PROVE  c # Disp /\ n \notin Touches(c) /\ ~Acts(c, n) /\ Same(n)
  <2>1. ~Acts(c, n)
    BY <1>2, <1>3, OneActs
  <2>2. c # Disp
    BY <2>1 DEF Acts
  <2> QED  BY <2>1, <2>2 DEF Acts, Rests
<1>4. LockedOut'
  <2>1. Busy(Disp)' => Busy(Disp)
    BY <1>1, <1>2
  <2>2. \A b \in Caller : Touches(b)' \subseteq Touches(b)
    BY <1>1 DEF Others
  <2> QED  BY <1>2, <2>1, <2>2 DEF LockedOut
<1>5. ASSUME NEW b \in Caller PROVE From(b)'
  <2>1. CASE b = c
    BY <2>1 DEF Rests
  <2>2. CASE b # c
    <3>1. From(b)
      BY DEF Rest
    <3> QED  BY <1>1, <1>2, <2>2, <3>1 DEF From, RestartDead
  <2> QED  BY <2>1, <2>2
<1>6. ASSUME NEW b \in Caller, b # c PROVE (Downs(b) /\ Knows(b) /\ BootKnows(b))'
  <2>0. Downs(b) /\ Knows(b) /\ BootKnows(b) /\ From(b) /\ JobOK(b)
    BY DEF Rest, LifeInv, JobInv
  <2>1. SUFFICES ASSUME Busy(b) PROVE (Downs(b) /\ Knows(b) /\ BootKnows(b))'
    BY <1>1, <1>6 DEF Downs, Knows, BootKnows
  <2>2. PICK n \in Name : n = job[b].name
    BY <2>1, BusyTyped DEF LifeInv
  <2>3. job[b].at \in BootLabels <=> job[b].verb = "boot"
    BY <2>0, <2>1 DEF JobOK, BootLabels, ReconcileLabels, DeadLabels
  <2>4. Downs(b)'
    <3>1. SUFFICES ASSUME call[b] = Idle, job[b].at \in {"close.tree", "close.remove", "rename.set"},
                          n \notin marred'
                   PROVE  runs'[n] = NoRun
      BY <1>1, <1>6, <2>2 DEF Downs
    <3>2. b = Disp
      BY <2>0, <2>1, <3>1 DEF From, UnlockedLabels, DeadLabels, BootLabels
    <3>3. Same(n)
      BY <1>3, <1>6, <2>1, <3>1, <3>2 DEF Acts
    <3>4. runs[n] = NoRun
      BY <1>2, <2>0, <2>1, <2>2, <3>1 DEF Downs
    <3> QED  BY <3>3, <3>4 DEF Same
  <2>5. Knows(b)'
    <3>1. CASE b = Disp
      <4>1. RowsStay /\ job[b].to \in Name
        BY <1>6, <2>1, <3>1, BusyTyped DEF Rests, LifeInv
      <4> QED  BY <1>1, <1>6, <2>0, <2>1, <2>2, <3>1, <4>1 DEF Knows, RowsStay, SameVendor, RestartDead
    <3>2. CASE b # Disp
      <4>1. job[b].at \in UnlockedLabels
        BY <2>0, <2>1, <3>2 DEF From
      <4>2. CASE job[b].verb = "boot"
        BY <1>1, <1>6, <2>1, <2>3, <3>2, <4>2
           DEF Knows, BootLabels, RowLabels, UpLabels, RestartDead, DeadLabels
      <4>3. CASE job[b].verb # "boot" /\ n \notin marred'
        <5>1. Same(n)
          BY <1>3, <1>6, <2>1, <2>2, <4>3 DEF Acts, Touches
        <5> QED  BY <1>1, <1>2, <1>6, <2>0, <2>1, <2>2, <3>2, <4>1, <4>3, <5>1
                
                    DEF Knows, UpLabels, Same, SameVendor, InUse, RestartDead, UnlockedLabels,
                        DeadLabels, BootLabels
      <4>4. CASE n \in marred'
        BY <1>1, <1>6, <2>2, <3>2, <4>4 DEF Knows
      <4> QED  BY <4>2, <4>3, <4>4
    <3> QED  BY <3>1, <3>2
  <2>6. BootKnows(b)'
    <3>1. SUFFICES ASSUME job[b].at \in BootLabels, NEW k \in Name \ marred',
                          k \in job[b].todo \/ (job[b].at = "boot.start" /\ k = job[b].cur)
                   PROVE  (InUse(k) /\ job[b].all[k].vendor = rec[k].vendor)'
      BY <1>1, <1>6 DEF BootKnows
    <3>2. Same(k)
      BY <1>3, <1>6, <2>1, <2>3, <3>1 DEF Acts, Touches
    <3>3. InUse(k) /\ job[b].all[k].vendor = rec[k].vendor
      BY <1>2, <2>0, <2>1, <3>1 DEF BootKnows
    <3> QED  BY <1>1, <1>6, <3>2, <3>3 DEF Same, InUse
  <2> QED  BY <2>4, <2>5, <2>6
<1>7. ASSUME NEW n \in Name \ marred' PROVE Swept(n)'
  <2>1. CASE c = Disp
    BY <1>7, <2>1 DEF Rests
  <2>2. CASE c # Disp
    <3>1. SUFFICES ASSUME Busy(Disp) PROVE Swept(n)'
      BY <1>1, <1>2, <2>2 DEF Swept
    <3>2. Same(n) /\ Swept(n)
      BY <1>2, <1>3, <1>7, <2>2, <3>1 DEF Acts, Rest
    <3>3. job'[Disp] = job[Disp]
      BY <1>1, <1>2, <2>2
    <3> QED  BY <3>2, <3>3 DEF Swept, SweepDead, InUse, Same, Busy
  <2> QED  BY <2>1, <2>2
<1>8. ASSUME NEW n \in Name \ marred', NEW e \in Caller, Sole(e, n)'
      PROVE  BridgeBy(e, n)' /\ HostedBy(e, n)'
  <2>1. CASE e = c
    <3>1. Sole(c, n)
      BY <1>1, <1>8, <2>1 DEF Sole
    <3> QED  BY <1>8, <2>1, <3>1 DEF Rests
  <2>2. CASE e # c /\ Acts(e, n)
    <3>1. c # Disp /\ Same(n)
      BY <1>3, <1>8, <2>2
    <3>2. \A b \in Caller \ {e} : ~Acts(b, n)
      BY <1>2, <1>8, <2>2, OneActs
    <3>3. BridgeBy(e, n) /\ HostedBy(e, n)
      BY <1>2, <3>2 DEF Rest, Sole
    <3>4. job'[e] = job[e] /\ call'[e] = call[e] /\ Busy(Disp)' = Busy(Disp)
      BY <1>1, <1>2, <2>2, <3>1
    <3> QED  BY <3>1, <3>3, <3>4, SameBy
  <2>3. CASE e # c /\ ~Acts(e, n)
    <3>1. ~Acts(e, n)' /\ \A b \in Caller \ {c} : ~Acts(b, n)
      BY <1>1, <1>8, <2>3 DEF Sole
    <3>2. ~Acts(c, n)' /\ Sole(c, n)
      BY <1>8, <2>3, <3>1 DEF Sole
    <3>3. BridgeBy(c, n)' /\ HostedBy(c, n)'
      BY <1>8, <3>2 DEF Rests
    <3> QED  BY <1>5, <3>1, <3>2, <3>3, EitherNext
  <2> QED  BY <2>1, <2>2, <2>3
<1>9. (Downs(c) /\ Knows(c) /\ BootKnows(c) /\ LiveDrives)'
  BY DEF Rests
<1> QED  BY <1>4, <1>5, <1>6, <1>7, <1>8, <1>9 DEF Rest

-----------------------------------------------------------------------------
(* The steps of a caller. *)

\* A job that goes to another label, and changes in nothing else.
Onto(c, l) ==
  /\ Busy(c)' /\ job'[c].at = l
  /\ job'[c].verb = job[c].verb /\ job'[c].name = job[c].name /\ job'[c].to = job[c].to
  /\ job'[c].sess = job[c].sess /\ job'[c].cur = job[c].cur /\ job'[c].ret = job[c].ret
  /\ job'[c].all = job[c].all /\ job'[c].todo = job[c].todo /\ job'[c].drv = job[c].drv

\* A verb that goes on, or fails.
LEMMA GoOnto ==
  ASSUME JobInv, NEW c \in Caller, Busy(c), NEW l, Go(c, l) \/ (Fail(c) /\ l = "finish")
  PROVE  Onto(c, l)
<1> DEFINE j == job[c]
           k == IF Go(c, l) THEN [j EXCEPT !.at = l] ELSE [j EXCEPT !.at = "finish", !.ok = FALSE]
<1>1. j \in JobType
  BY BusyTyped
<1>2. job' = [job EXCEPT ![c] = k]
  BY DEF Go, Fail
<1>3. /\ k.verb = j.verb /\ k.name = j.name /\ k.to = j.to /\ k.todo = j.todo /\ k.cur = j.cur
      /\ k.at = l /\ k.ret = j.ret /\ k.sess = j.sess /\ k.all = j.all /\ k.drv = j.drv
  <2> HIDE DEF j
  <2> QED  BY <1>1 DEF JobType
<1> HIDE DEF k
<1>4. Keeps(c) /\ job'[c] = k
  BY <1>2, <1>3, KeepsFields
<1> QED  BY <1>3, <1>4 DEF Onto, Keeps

\* What is known of the caller that steps.
LEMMA Known ==
  ASSUME LifeInv, TreeInv, Rest, NEW c \in Caller, Busy(c)
  PROVE  /\ From(c) /\ Downs(c) /\ Knows(c) /\ BootKnows(c) /\ LiveDrives
         /\ JobOK(c) /\ OwnWork(c) /\ OwnCalls(c)
         /\ job[c].name \in Name /\ job[c].to \in Name /\ job[c].cur \in Name /\ job[c].todo \subseteq Name
         /\ \A n \in Name \ marred : Swept(n) /\ (Sole(c, n) => BridgeBy(c, n) /\ HostedBy(c, n))
BY BusyTyped DEF Rest, LifeInv, JobInv, TreeInv

\* A step that only moves on.
LEMMA MoveRests ==
  ASSUME LifeInv, TreeInv, Rest, NEW c \in Caller, NEW a, NEW l, At(c, a), Onto(c, l),
         UNCHANGED <<supVars, rec, live, driver, socket, marred>>,
         \/ a = "close.tree" /\ l = "close.remove"
         \/ a = "rewind" /\ l \in {"restart", "finish"}
         \/ a = "other" /\ l = "finish"
  PROVE  Rests(c)
<1>1. /\ Busy(c) /\ job[c].at = a /\ call[c] = Idle
      /\ UNCHANGED <<call, runs, stopping, conf, rec, live, driver, socket, marred>>
  BY DEF At, supVars
<1>2. /\ From(c) /\ Downs(c) /\ Knows(c) /\ BootKnows(c) /\ LiveDrives /\ JobOK(c)
      /\ \A n \in Name \ marred : Swept(n) /\ (Sole(c, n) => BridgeBy(c, n) /\ HostedBy(c, n))
  BY <1>1, Known
<1>3. c = Disp
  BY <1>1, <1>2 DEF From, UnlockedLabels, DeadLabels, BootLabels
<1>4. From(c)' /\ LiveDrives' /\ Downs(c)' /\ Knows(c)' /\ BootKnows(c)'
  BY <1>1, <1>2, <1>3
     DEF Onto, From, LiveDrives, Downs, Knows, BootKnows, RestartDead, DeadLabels, BootLabels,
         RowLabels, UpLabels, SameVendor
<1>5. ASSUME NEW n \in Name \ marred' PROVE Swept(n)'
  BY <1>1, <1>3 DEF Swept, Onto, SweepLabels, SweepDead, DeadLabels
<1>6. ASSUME NEW n \in Name \ marred', Sole(c, n) PROVE BridgeBy(c, n)'
  <2>1. BridgeBy(c, n)
    BY <1>1, <1>2, <1>6
  <2> QED  BY <1>1, <2>1
              DEF BridgeBy, Calls, Running, InUse, Starting, Switching, Onto, StartLabels, Target,
                  RestartDead, DeadLabels, BootLabels
<1>7. ASSUME NEW n \in Name \ marred', Sole(c, n) PROVE HostedBy(c, n)'
  <2>1. HostedBy(c, n)
    BY <1>1, <1>2, <1>7
  <2> QED  BY <1>1, <1>3, <2>1 DEF HostedBy, InUse, Rising, Awaits, Onto, BootLabels
<1> QED  BY <1>3, <1>4, <1>5, <1>6, <1>7 DEF Rests

\* A call that begins, and one that moves on, is for a conversation.
LEMMA BeginCall ==
  ASSUME TypeOK, NEW c \in Caller, NEW op \in {"start", "stop", "restart"}, NEW n \in Name,
         NEW k \in Conf, Begin(c, op, n, k)
  PROVE  /\ call'[c] # Idle /\ call'[c].at = "enter" /\ call'[c].op = op
         /\ call'[c].name = n /\ call'[c].conf = k
         /\ UNCHANGED <<runs, phase, owner, conf, stopping, cancelled, outer>>
<1>1. /\ call'[c].at = "enter" /\ call'[c].op = op /\ call'[c].name = n
      /\ UNCHANGED <<runs, phase, owner, conf, stopping, cancelled, outer>>
  BY BeginTyped DEF Begin
<1>2. call'[c] # Idle
  <2>1. Idle.op = "none"
    BY DEF Idle
  <2> QED  BY <1>1, <2>1
<1>3. call'[c].conf = k
  <2> DEFINE new == [op |-> op, at |-> "enter", name |-> n, conf |-> k, run |-> NoRun, seen |-> AliveOf(n)]
  <2>1. call' = [call EXCEPT ![c] = new] /\ new.conf = k
    BY DEF Begin
  <2> HIDE DEF new
  <2> QED  BY <2>1 DEF TypeOK
<1> QED  BY <1>1, <1>2, <1>3

\* A verb calls the supervisor: from where, for what and about which name.
Asks(c, a, op, n, l) ==
  \/ /\ op = "start" /\ l = "finish"
     /\ \/ /\ a \in {"create.start", "close.tree", "close.failed", "unarchive.start", "rename.failed",
                     "restart.start", "resume.start"}
           /\ n = job[c].name
        \/ a = "rename.start" /\ n = job[c].to
  \/ op = "start" /\ a = "boot.start" /\ l = "boot" /\ n = job[c].cur
  \/ op = "restart" /\ a = "switch.restart" /\ l = "finish" /\ n = job[c].name
  \/ /\ op = "stop" /\ n = job[c].name
     /\ <<a, l>> \in {<<"close", "close.tree">>, <<"archive", "archive.set">>, <<"rename", "rename.set">>}

\* A verb that calls the supervisor.
LEMMA CallRests ==
  ASSUME LifeInv, TreeInv, Rest, NEW c \in Caller, NEW a, At(c, a),
         NEW op \in {"start", "stop", "restart"}, NEW n \in Name, NEW s \in Session, NEW l,
         SupCall(c, op, n, s, l), Asks(c, a, op, n, l),
         op = "stop" \/ n \in marred \/ SameVendor(n, s)
  PROVE  Rests(c)
<1>1. /\ Busy(c) /\ job[c].at = a /\ call[c] = Idle /\ TypeOK /\ Onto(c, l)
      /\ Begin(c, op, n, ConfOf(s)) /\ ConfOf(s) \in Conf /\ ConfOf(s).vendor = s.vendor
      /\ UNCHANGED <<rec, live, driver, socket, marred>>
  BY GoOnto, ConfAssumption DEF At, SupCall, LifeInv, SupInv, hubVars, Session, ConfOf
<1>2. /\ call'[c] # Idle /\ call'[c].at = "enter" /\ call'[c].op = op
      /\ call'[c].name = n /\ call'[c].conf.vendor = s.vendor
      /\ UNCHANGED <<runs, conf, stopping>>
  BY <1>1, BeginCall
<1>3. /\ From(c) /\ Downs(c) /\ Knows(c) /\ BootKnows(c) /\ LiveDrives /\ JobOK(c)
      /\ \A m \in Name \ marred : Swept(m) /\ (Sole(c, m) => BridgeBy(c, m) /\ HostedBy(c, m))
  BY <1>1, Known
<1>4. From(c)'
  BY <1>1, <1>2, <1>3 DEF Onto, From, Asks, UnlockedLabels, RestartDead, DeadLabels, BootLabels
<1>5. LiveDrives' /\ Downs(c)' /\ Knows(c)' /\ BootKnows(c)'
  <2>1. LiveDrives' /\ Downs(c)'
    BY <1>1, <1>2, <1>3 DEF LiveDrives, Downs
  <2>2. Knows(c)'
    BY <1>1, <1>3 DEF Onto, Knows, Asks, RestartDead, DeadLabels, RowLabels, UpLabels, SameVendor, InUse
  <2>3. BootKnows(c)'
    BY <1>1, <1>3 DEF Onto, BootKnows, Asks, BootLabels, InUse
  <2> QED  BY <2>1, <2>2, <2>3
<1>6. ASSUME c = Disp, NEW m \in Name \ marred' PROVE Swept(m)'
  BY <1>1, <1>6 DEF Swept, Onto, Asks, SweepLabels, SweepDead, DeadLabels
<1>7. ASSUME NEW m \in Name \ marred', Sole(c, m) PROVE BridgeBy(c, m)'
  <2>1. BridgeBy(c, m)
    BY <1>1, <1>3, <1>7
  <2>2. Calls(c, m)' <=> m = n
    BY <1>2 DEF Calls
  <2>3. ~Calls(c, m)
    BY <1>1 DEF Calls
  <2>4. Switching(c, m) => Switching(c, m)'
    BY <1>1, <1>2, <2>2, <2>3 DEF Switching, Asks
  <2>5. Starting(c, m) => Starting(c, m)'
    BY <1>1, <1>2, <2>2, <2>3
       DEF Starting, Onto, Asks, StartLabels, Target, RestartDead, DeadLabels, BootLabels
  <2> QED  BY <1>1, <1>2, <2>1, <2>2, <2>3, <2>4, <2>5 DEF BridgeBy, Running, InUse, SameVendor
<1>8. ASSUME NEW m \in Name \ marred', Sole(c, m) PROVE HostedBy(c, m)'
  <2>1. HostedBy(c, m) /\ ~Awaits(c, m) /\ ~Awaits(c, m)'
    BY <1>1, <1>3, <1>8 DEF Awaits, Asks, Onto
  <2>2. Busy(Disp)' = Busy(Disp)
    <3>1. Disp \in Caller /\ Go(c, l)
      BY CallerAssumption DEF SupCall
    <3> QED  BY <1>1, <3>1 DEF Onto, Go, LifeInv, JobInv, JobsTyped, Busy
  <2>3. Rising(c, m) => Rising(c, m)'
    BY <1>1 DEF Rising, Onto, Asks, BootLabels
  <2> QED  BY <1>1, <2>1, <2>2, <2>3 DEF HostedBy, InUse
<1>9. RowsStay /\ \A m \in Name \ marred' : Same(m)
  BY <1>1, <1>2 DEF RowsStay, Same
<1> QED  BY <1>4, <1>5, <1>6, <1>7, <1>8, <1>9 DEF Rests

\* A session goes dead: in a restart, or in reconcile.
LEMMA GoDeadRests ==
  ASSUME LifeInv, TreeInv, Rest, NEW c \in Caller, NEW n \in Name, NEW l, GoDead(c, n, l),
         UNCHANGED hubVars,
         \/ At(c, "restart") /\ l = "restart.set" /\ n = job[c].name
         \/ At(c, "reaping") /\ l = "reaping" /\ n \in job[c].todo
  PROVE  Rests(c)
<1> DEFINE j == job[c]
           T == j.todo \ {n}
           k == [j EXCEPT !.at = "dead.delete", !.ret = l, !.cur = n, !.todo = T]
<1>1. /\ Busy(c) /\ j.at \in {"restart", "reaping"} /\ call[c] = Idle /\ TypeOK
      /\ UNCHANGED <<rec, live, driver, socket, marred>>
      /\ j.at = "restart" => l = "restart.set" /\ n = j.name
      /\ j.at = "reaping" => l = "reaping" /\ n \in j.todo
  BY DEF At, LifeInv, SupInv, hubVars
<1>2. job' = [job EXCEPT ![c] = k] /\ Begin(c, "stop", n, CHOOSE x \in Conf : TRUE) /\ j \in JobType
  BY <1>1, BusyTyped DEF GoDead, LifeInv
<1>3. /\ k.at = "dead.delete" /\ k.verb = j.verb /\ k.name = j.name /\ k.to = j.to /\ k.ret = l
      /\ k.cur = n /\ k.todo = j.todo \ {n} /\ k.sess = j.sess /\ k.all = j.all
  <2> HIDE DEF j
  <2> QED  BY <1>2 DEF JobType
<1> HIDE DEF k
<1>4. /\ Busy(c)' /\ job'[c].at = "dead.delete" /\ job'[c].verb = j.verb /\ job'[c].name = j.name
      /\ job'[c].ret = l /\ job'[c].cur = n /\ job'[c].todo = j.todo \ {n} /\ job'[c].sess = j.sess
      /\ job'[c].all = j.all
  <2>1. Keeps(c) /\ job'[c] = k
    BY <1>1, <1>2, <1>3, BusyTyped, KeepsFields, Known DEF LifeInv, JobOK, BootLabels
  <2> QED  BY <1>3, <2>1 DEF Keeps
<1>5. /\ call'[c] # Idle /\ call'[c].at = "enter" /\ call'[c].op = "stop" /\ call'[c].name = n
      /\ UNCHANGED <<runs, conf, stopping>>
  BY <1>1, <1>2, SomeNames, BeginCall
<1>6. /\ From(c) /\ Downs(c) /\ Knows(c) /\ BootKnows(c) /\ LiveDrives /\ JobOK(c) /\ OwnWork(c)
      /\ \A m \in Name \ marred : Swept(m) /\ (Sole(c, m) => BridgeBy(c, m) /\ HostedBy(c, m))
  BY <1>1, Known
<1> HIDE DEF j
<1>7. From(c)'
  BY <1>1, <1>4, <1>5, <1>6 DEF j, From, UnlockedLabels, RestartDead, DeadLabels, BootLabels
<1>8. LiveDrives' /\ Downs(c)' /\ Knows(c)' /\ BootKnows(c)'
  <2>1. LiveDrives' /\ Downs(c)' /\ BootKnows(c)'
    BY <1>1, <1>4, <1>5, <1>6 DEF LiveDrives, Downs, BootKnows, BootLabels
  <2>2. Knows(c)'
    BY <1>1, <1>4, <1>6 DEF j, Knows, RestartDead, DeadLabels, RowLabels, UpLabels, SameVendor, InUse
  <2> QED  BY <2>1, <2>2
<1>9. ASSUME c = Disp, NEW m \in Name \ marred' PROVE Swept(m)'
  BY <1>1, <1>4, <1>6, <1>9 DEF j, Swept, SweepLabels, SweepDead, DeadLabels, InUse
<1>10. ASSUME NEW m \in Name \ marred', Sole(c, m) PROVE BridgeBy(c, m)'
  <2>1. BridgeBy(c, m) /\ ~Calls(c, m)
    BY <1>1, <1>6, <1>10 DEF Calls
  <2>2. ~Switching(c, m) /\ ~Starting(c, m)
    BY <1>1, <2>1 DEF j, Switching, Starting, StartLabels, RestartDead, DeadLabels, BootLabels
  <2> QED  BY <1>1, <1>5, <2>1, <2>2 DEF BridgeBy, Calls, Running, InUse
<1>11. ASSUME NEW m \in Name \ marred', Sole(c, m) PROVE HostedBy(c, m)'
  <2>1. HostedBy(c, m) /\ ~Awaits(c, m) /\ ~Awaits(c, m)' /\ ~Rising(c, m)
    BY <1>1, <1>4, <1>6, <1>11 DEF j, Awaits, Rising, BootLabels
  <2>2. Busy(Disp)' = Busy(Disp)
    BY <1>1, <1>2, <1>4, CallerAssumption DEF LifeInv, JobInv, JobsTyped, Busy
  <2> QED  BY <1>1, <2>1, <2>2 DEF HostedBy, InUse
<1>12. RowsStay /\ \A m \in Name \ marred' : Same(m)
  BY <1>1, <1>5 DEF RowsStay, Same
<1> QED  BY <1>7, <1>8, <1>9, <1>10, <1>11, <1>12 DEF Rests

\* The rows other than n are left alone; that of n keeps its place and backend.
RowKept(n) ==
  /\ \A k \in Name \ {n} : rec'[k] = rec[k]
  /\ rec'[n] = Absent <=> rec[n] = Absent
  /\ rec[n] # Absent => rec'[n].vendor = rec[n].vendor

\* What a save leaves in memory, by the label it is made at.
Saves(c, a, l) ==
  LET n == job[c].name  m == job[c].to  s == job[c].sess IN
  \/ a = "create" /\ l = "create.start" /\ rec' = [rec EXCEPT ![n] = s]
  \/ a = "close.remove" /\ l = "finish" /\ rec' = [rec EXCEPT ![n] = Absent]
  \/ a = "archive.set" /\ l = "finish" /\ RowKept(n) /\ (rec[n] # Absent => rec'[n].archived)
  \/ a = "unarchive" /\ l = "unarchive.start" /\ RowKept(n)
  \/ /\ a = "resume" /\ l = "resume.live" /\ RowKept(n)
     /\ rec[n] # Absent => IF s.archived THEN ~rec'[n].archived ELSE rec'[n].archived = rec[n].archived
  \/ a = "rename.set" /\ l = "rename.start" /\ rec' = [rec EXCEPT ![m] = rec[n], ![n] = Absent]
  \/ /\ a = "switch" /\ l = "switch.restart" /\ \A k \in Name \ {n} : rec'[k] = rec[k]
     /\ rec'[n] = Absent <=> rec[n] = Absent
     /\ rec[n] # Absent => rec'[n].archived = rec[n].archived
  \/ /\ a = "restart.set" /\ l = "restart.live" /\ RowKept(n)
     /\ rec[n] # Absent => rec'[n].archived = rec[n].archived
  \/ /\ a \in {"create", "close.remove", "archive.set", "unarchive", "resume", "rename.set", "switch",
              "restart.set"}
     /\ l = IF a = "close.remove" THEN "close.failed" ELSE IF a = "rename.set" THEN "rename.failed" ELSE "finish"
     /\ n \in marred' /\ (\A k \in Name \ marred' : rec'[k] = rec[k])
     /\ a \in {"resume", "restart.set"} => RowKept(n)

\* A verb that writes the rows.
LEMMA SaveRests ==
  ASSUME LifeInv, TreeInv, Rest, NEW c \in Caller, NEW a, NEW l, At(c, a), Onto(c, l),
         UNCHANGED <<supVars, live, driver, socket>>, marred \subseteq marred', Saves(c, a, l),
         \A b \in Caller \ {c} : job'[b] = job[b]
  PROVE  Rests(c)
<1>0. PICK n \in Name, m \in Name, s \in Session :
        n = job[c].name /\ m = job[c].to /\ s = job[c].sess
  <2>1. a \in LockedLabels \cup FreeLabels
    BY DEF Saves, LockedLabels, FreeLabels
  <2> QED  BY <2>1, AtVerb
<1>1. /\ Busy(c) /\ job[c].at = a /\ call[c] = Idle
      /\ UNCHANGED <<call, runs, stopping, conf, live, driver, socket>>
  BY DEF At, supVars
<1>2. /\ From(c) /\ Downs(c) /\ Knows(c) /\ BootKnows(c) /\ LiveDrives /\ JobOK(c)
      /\ \A k \in Name \ marred : Swept(k) /\ (Sole(c, k) => BridgeBy(c, k) /\ HostedBy(c, k))
  BY <1>1, Known
<1>3. /\ a \in {"create", "close.remove", "archive.set", "unarchive", "resume", "rename.set", "switch",
               "restart.set"}
      /\ a \in LockedLabels \cup FreeLabels
  BY DEF Saves, LockedLabels, FreeLabels
<1>4. /\ job[c].verb # "boot" /\ Touches(c) = {n, m} /\ s \in Session /\ s # Absent
      /\ a \in LockedLabels => c = Disp
  BY <1>0, <1>3, VerbTouches, AtVerb
<1>5. c # Disp => a \in {"resume", "restart.set"}
  BY <1>1, <1>2, <1>3 DEF From, UnlockedLabels, DeadLabels, BootLabels
<1>6. /\ job'[c].at = l /\ Busy(c)' /\ call'[c] = Idle
      /\ l \in {"create.start", "finish", "unarchive.start", "resume.live", "rename.start", "switch.restart",
                "restart.live", "close.failed", "rename.failed"}
  BY <1>1 DEF Onto, Saves
<1>7. /\ Absent \notin {s} /\ rec \in [Name -> Sessions]
  BY <1>4 DEF LifeInv, RecTyped
<1>8. From(c)' /\ LiveDrives' /\ Downs(c)' /\ BootKnows(c)'
  <2>1. From(c)'
    BY <1>0, <1>1, <1>2, <1>5, <1>6
       DEF Onto, Saves, From, UnlockedLabels, RestartDead, DeadLabels, BootLabels
  <2>2. LiveDrives'
    BY <1>0, <1>1, <1>2 DEF LiveDrives
  <2>3. Downs(c)' /\ BootKnows(c)'
    BY <1>6 DEF Downs, BootKnows, BootLabels
  <2> QED  BY <1>0, <2>1, <2>2, <2>3
<1>9. Knows(c)'
  BY <1>0, <1>1, <1>2, <1>4, <1>5, <1>6, <1>7, SMTT(30)
     DEF Onto, Saves, RowKept, Knows, RestartDead, DeadLabels, RowLabels, UpLabels, SameVendor, InUse
<1>10. ASSUME c = Disp, NEW k \in Name \ marred' PROVE Swept(k)'
  BY <1>0, <1>6, <1>10 DEF Swept, SweepLabels, SweepDead, DeadLabels
<1>11. ASSUME NEW k \in Name \ marred', Sole(c, k) PROVE BridgeBy(c, k)' /\ HostedBy(c, k)'
  <2>1. /\ BridgeBy(c, k) /\ HostedBy(c, k) /\ ~Calls(c, k) /\ ~Calls(c, k)' /\ k \notin marred
        /\ ~Awaits(c, k) /\ ~Awaits(c, k)'
    BY <1>0, <1>1, <1>2, <1>3, <1>6, <1>7, <1>11 DEF Calls, Awaits
  <2>2. Busy(Disp)' = Busy(Disp)
    BY <1>0, <1>1, <1>6, CallerAssumption DEF Busy
  <2>3. /\ rec[k] = Absent => runs[k] = NoRun
        /\ runs[k] # NoRun => ~stopping[runs[k]]
        /\ Running(k) => conf[runs[k]].vendor = rec[k].vendor
        /\ InUse(k) => runs[k] # NoRun \/ Starting(c, k)
    BY <1>0, <1>1, <1>3, <2>1 DEF BridgeBy, Switching
  <2>4. /\ rec'[k] = Absent => runs[k] = NoRun
        /\ Running(k) => conf[runs[k]].vendor = rec'[k].vendor \/ Switching(c, k)'
        /\ InUse(k)' => runs[k] # NoRun \/ Starting(c, k)'
    <3>1. CASE rec'[k] = rec[k] /\ ~Starting(c, k)
      BY <1>0, <2>3, <3>1 DEF InUse
    <3>2. CASE k \notin {n, m}
      <4>1. rec'[k] = rec[k]
        BY <1>0, <1>4, <1>7, <1>11, <3>2 DEF Saves, RowKept
      <4>2. ~Starting(c, k)
        BY <1>0, <1>1, <1>3, <2>1, <3>2 DEF Starting, Target, RestartDead, DeadLabels, BootLabels
      <4> QED  BY <1>0, <3>1, <4>1, <4>2
    <3>3. CASE a \in {"create", "archive.set", "unarchive", "resume", "switch", "restart.set"} /\ k = n
      <4>1. rec'[n] = Absent => rec[n] = Absent
        BY <1>0, <1>2, <1>4, <1>7, <1>11, <3>3 DEF Saves, RowKept
      <4>2. Running(n) => conf[runs[n]].vendor = rec'[n].vendor \/ Switching(c, n)'
        <5>1. a = "create" => ~Running(n)
          BY <1>0, <1>1, <1>2, <1>5, <2>3, <3>3 DEF Knows, Running
        <5> QED  BY <1>0, <1>2, <1>6, <1>7, <1>11, <2>3, <3>3, <5>1
                    DEF Saves, RowKept, Switching, Onto, Running
      <4>3. InUse(n)' => runs[n] # NoRun \/ Starting(c, n)'
        BY <1>0, <1>1, <1>2, <1>6, <1>7, <1>11, <2>1, <2>3, <3>3
          
              DEF Saves, RowKept, InUse, Starting, Onto, StartLabels, Target, RestartDead, DeadLabels,
                  BootLabels
      <4> QED  BY <1>0, <2>3, <3>3, <4>1, <4>2, <4>3
    <3>4. CASE a \in {"close.remove", "rename.set"} /\ k = n
      <4>1. runs[n] = NoRun /\ rec'[n] = Absent
        BY <1>0, <1>1, <1>2, <1>7, <1>11, <2>1, <3>4 DEF Downs, Saves
      <4> QED  BY <1>0, <3>4, <4>1 DEF Running, InUse
    <3>5. CASE a = "rename.set" /\ k = m /\ m # n
      <4>1. rec[m] = Absent /\ runs[m] = NoRun
        BY <1>0, <1>1, <1>2, <1>5, <2>3, <3>5 DEF Knows
      <4>2. rec'[m] = rec[m] \/ Starting(c, m)'
        BY <1>0, <1>2, <1>6, <1>7, <1>11, <3>5 DEF Saves, Starting, StartLabels, Target, Onto
      <4> QED  BY <1>0, <3>5, <4>1, <4>2 DEF Running, InUse
    <3>6. CASE a # "rename.set" /\ k = m /\ m # n
      <4>1. rec'[k] = rec[k]
        BY <1>0, <1>2, <1>7, <1>11, <3>6 DEF Saves, RowKept
      <4>2. ~Starting(c, k)
        BY <1>0, <1>1, <1>3, <2>1, <3>6 DEF Starting, Target, RestartDead, DeadLabels, BootLabels
      <4> QED  BY <1>0, <3>1, <4>1, <4>2
    <3> QED  BY <1>0, <1>3, <3>2, <3>3, <3>4, <3>5, <3>6
  <2>5. BridgeBy(c, k)'
    BY <1>0, <1>1, <2>1, <2>3, <2>4 DEF BridgeBy, Running
  <2>6. CASE c = Disp
    BY <1>0, <1>1, <2>1, <2>2, <2>5, <2>6 DEF HostedBy
  <2>7. CASE c # Disp
    <3>1. Rising(c, k) => Rising(c, k)'
      BY <1>0, <1>1, <1>5, <1>6, <1>7, <1>11, <2>7 DEF Rising, BootLabels, Onto, Saves
    <3>2. (InUse(k)' <=> InUse(k)) \/ Rising(c, k)'
      BY <1>0, <1>1, <1>2, <1>5, <1>6, <1>7, <1>11, <2>7 DEF Rising, Onto, Saves, RowKept, InUse
    <3> QED  BY <1>0, <1>1, <2>1, <2>2, <2>5, <3>1, <3>2 DEF HostedBy
  <2> QED  BY <1>0, <2>5, <2>6, <2>7
<1>12. c # Disp => RowsStay /\ \A k \in Name \ marred' : ~Acts(c, k) => Same(k)
  BY <1>0, <1>1, <1>2, <1>4, <1>5 DEF Saves, RowKept, RowsStay, Same, Acts
<1> QED  BY <1>0, <1>8, <1>9, <1>10, <1>7, <1>11, <1>12 DEF Rests

\* A session goes live: in a restart, a resume, the boot loop or reconcile.
Raises(c, a, n, l) ==
  /\ Busy(c)' /\ job'[c].at = l
  /\ job'[c].verb = job[c].verb /\ job'[c].name = job[c].name /\ job'[c].to = job[c].to
  /\ job'[c].sess = job[c].sess /\ job'[c].ret = job[c].ret /\ job'[c].all = job[c].all
  /\ \/ <<a, l>> \in {<<"restart.live", "restart.start">>, <<"resume.live", "resume.start">>} /\ n = job[c].name
     \/ /\ a = "boot" /\ l = "boot.start" /\ n \in job[c].todo /\ job'[c].cur = n
        /\ job'[c].todo = job[c].todo \ {n}
     \/ a = "raising" /\ l = "raising" /\ n \in job[c].todo /\ job'[c].todo = job[c].todo \ {n}

\* A caller that takes a session live.
LEMMA LiveRests ==
  ASSUME LifeInv, TreeInv, Rest, NEW c \in Caller, NEW a, NEW l, NEW n \in Name, At(c, a), GoLive(n),
         Raises(c, a, n, l), \A b \in Caller \ {c} : job'[b] = job[b]
  PROVE  Rests(c)
<1>1. /\ Busy(c) /\ job[c].at = a /\ call[c] = Idle
      /\ UNCHANGED <<call, runs, stopping, conf, rec>> /\ marred \subseteq marred'
  BY DEF At, supVars, GoLive
<1>2. /\ From(c) /\ Downs(c) /\ Knows(c) /\ BootKnows(c) /\ LiveDrives /\ JobOK(c) /\ OwnWork(c)
      /\ job[c].name \in Name /\ job[c].todo \subseteq Name
      /\ \A k \in Name \ marred : Swept(k) /\ (Sole(c, k) => BridgeBy(c, k) /\ HostedBy(c, k))
  BY <1>1, Known
<1>3. /\ job'[c].at = l /\ Busy(c)' /\ call'[c] = Idle
      /\ <<a, l>> \in {<<"restart.live", "restart.start">>, <<"resume.live", "resume.start">>,
                       <<"boot", "boot.start">>, <<"raising", "raising">>}
  BY <1>1 DEF Raises
<1>4. DriverTyped
  BY DEF LifeInv
\* What becomes of the drivers.
<1>5. /\ \A k \in Name \ {n} : live'[k] = live[k] /\ socket'[k] = socket[k]
      /\ n \notin marred' => live'[n] # NoDriver
      /\ live[n] # NoDriver => live'[n] = live[n] /\ socket'[n] = socket[n]
      /\ live[n] = NoDriver /\ live'[n] # NoDriver =>
           /\ live'[n] \in Driver /\ socket'[n] = live'[n] /\ driver[live'[n]].at # "driving"
           /\ driver'[live'[n]].at = "driving" /\ driver'[live'[n]].name = n
           /\ ~driver'[live'[n]].cancelled
      /\ \A d \in Driver : driver'[d] = driver[d] \/ (live[n] = NoDriver /\ d = live'[n])
  <2>1. CASE UNCHANGED <<live, driver, socket>> /\ (live[n] # NoDriver \/ n \in marred')
    BY <2>1
  <2>2. ASSUME NEW d \in Driver, driver[d].at # "driving", live[n] = NoDriver,
               live' = [live EXCEPT ![n] = d],
               driver' = [driver EXCEPT ![d] = [at |-> "driving", name |-> n, cancelled |-> FALSE]],
               socket' = [socket EXCEPT ![n] = d]
        PROVE  <1>5!1 /\ <1>5!2 /\ <1>5!3 /\ <1>5!4 /\ <1>5!5
    BY <1>4, <2>2, DriverAssumption DEF DriverTyped
  <2> QED  BY <2>1, <2>2 DEF GoLive, Fresh
<1>6. From(c)' /\ Downs(c)' /\ Knows(c)' /\ BootKnows(c)'
  <2>1. From(c)' /\ Downs(c)'
    BY <1>1, <1>2, <1>3 DEF Raises, From, Downs, UnlockedLabels, RestartDead, DeadLabels, BootLabels
  <2>2. Knows(c)'
    BY <1>1, <1>2, <1>3
       DEF Raises, Knows, RestartDead, DeadLabels, RowLabels, UpLabels, SameVendor, InUse
  <2>3. BootKnows(c)'
    BY <1>1, <1>2, <1>3 DEF Raises, BootKnows, BootLabels, InUse
  <2> QED  BY <2>1, <2>2, <2>3
<1>7. LiveDrives'
  <2>1. ASSUME NEW k \in Name, live'[k] # NoDriver
        PROVE  driver'[live'[k]].at = "driving" /\ driver'[live'[k]].name = k /\ ~driver'[live'[k]].cancelled
    <3>1. CASE live'[k] = live[k]
      <4>1. driver[live[k]].at = "driving" /\ live[k] \in Driver
        BY <1>2, <1>4, <2>1, <3>1 DEF LiveDrives, DriverTyped
      <4>2. driver'[live[k]] = driver[live[k]]
        BY <1>5, <4>1, DriverAssumption
      <4> QED  BY <1>2, <2>1, <3>1, <4>2 DEF LiveDrives
    <3>2. CASE live'[k] # live[k]
      BY <1>5, <2>1, <3>2
    <3> QED  BY <3>1, <3>2
  <2> QED  BY <2>1 DEF LiveDrives
<1>8. ASSUME c = Disp, NEW k \in Name \ marred' PROVE Swept(k)'
  <2>1. CASE a # "raising"
    BY <1>3, <1>8, <2>1 DEF Swept, SweepLabels, SweepDead, DeadLabels
  <2>2. CASE a = "raising"
    <3>1. /\ Swept(k) /\ n \in job[c].todo /\ job'[c].todo = job[c].todo \ {n} /\ l = "raising"
          /\ job'[c].all = job[c].all
      BY <1>1, <1>2, <1>3, <1>8, <2>2 DEF Raises
    <3>2. CASE k = n
      BY <1>1, <1>3, <1>5, <1>8, <2>2, <3>1, <3>2 DEF Swept, SweepLabels, SweepDead, DeadLabels, InUse
    <3>3. CASE k # n
      BY <1>1, <1>3, <1>5, <1>8, <2>2, <3>1, <3>3 DEF Swept, SweepLabels, SweepDead, DeadLabels, InUse
    <3> QED  BY <3>2, <3>3
  <2> QED  BY <2>1, <2>2
<1>9. ASSUME NEW k \in Name \ marred', Sole(c, k) PROVE BridgeBy(c, k)' /\ HostedBy(c, k)'
  <2>1. BridgeBy(c, k) /\ HostedBy(c, k) /\ ~Calls(c, k) /\ ~Calls(c, k)' /\ ~Awaits(c, k) /\ ~Awaits(c, k)'
    BY <1>1, <1>2, <1>3, <1>9 DEF Calls, Awaits
  <2>2. ~Switching(c, k) /\ (Starting(c, k) => Starting(c, k)')
    BY <1>1, <1>3, <2>1
       DEF Switching, Starting, Raises, StartLabels, Target, RestartDead, DeadLabels, BootLabels
  <2>3. BridgeBy(c, k)'
    BY <1>1, <2>1, <2>2 DEF BridgeBy, Running, InUse
  <2>4. Busy(Disp)' = Busy(Disp)
    BY <1>1, <1>3, CallerAssumption DEF Busy
  <2>5. live'[k] # NoDriver => socket'[k] = live'[k]
    BY <1>5, <2>1 DEF HostedBy
  <2>6. ASSUME NEW d \in Driver, driver'[d].at = "driving", driver'[d].cancelled, driver'[d].name = k
        PROVE  FALSE
    <3>1. driver'[d] = driver[d]
      BY <1>5, <2>6, DriverAssumption
    <3> QED  BY <2>1, <2>6, <3>1 DEF HostedBy
  <2>7. Busy(Disp)' \/ (InUse(k)' <=> live'[k] # NoDriver) \/ Rising(c, k)'
    <3>1. CASE Busy(Disp)
      BY <2>4, <3>1
    <3>2. CASE ~Busy(Disp) /\ k = n
      <4>1. c # Disp
        BY <1>1, <3>2
      <4>2. InUse(n)
        BY <1>1, <1>2, <1>3, <1>9, <3>2, <4>1
           DEF Knows, BootKnows, Raises, UpLabels, RestartDead, BootLabels, OwnWork, SweepLabels
      <4> QED  BY <1>1, <1>5, <1>9, <3>2, <4>2 DEF InUse
    <3>3. CASE ~Busy(Disp) /\ k # n
      <4>1. Rising(c, k) => Rising(c, k)'
        BY <1>1, <1>3, <3>3 DEF Rising, Raises, BootLabels
      <4> QED  BY <1>1, <1>5, <2>1, <3>3, <4>1 DEF HostedBy, InUse
    <3> QED  BY <3>1, <3>2, <3>3
  <2>8. HostedBy(c, k)'
    BY <2>1, <2>5, <2>6, <2>7 DEF HostedBy
  <2> QED  BY <2>3, <2>8
<1>10. RowsStay
  BY <1>1 DEF RowsStay
<1>11. ASSUME c # Disp, NEW k \in Name \ marred', ~Acts(c, k) PROVE Same(k)
  <2>1. k # n
    <3>1. job[c].verb = "boot" <=> a = "boot"
      BY <1>1, <1>2, <1>3 DEF JobOK, BootLabels, ReconcileLabels, DeadLabels
    <3> QED  BY <1>1, <1>2, <1>3, <1>11, <3>1 DEF Raises, Acts, Touches, OwnWork, SweepLabels
  <2>2. ASSUME NEW d \in Driver, driver'[d].at = "driving", driver'[d].cancelled, driver'[d].name = k
        PROVE  driver'[d] = driver[d]
    BY <1>5, <2>2, DriverAssumption
  <2> QED  BY <1>1, <1>5, <2>1, <2>2 DEF Same
<1> QED  BY <1>6, <1>7, <1>8, <1>9, <1>10, <1>11 DEF Rests

\* A job is over: an unlocked call, the boot loop, reconcile.
LEMMA EndRests ==
  ASSUME LifeInv, TreeInv, Rest, NEW c \in Caller, NEW a, At(c, a), job'[c] = NoJob,
         \A b \in Caller \ {c} : job'[b] = job[b],
         UNCHANGED <<supVars, rec, live, driver, socket, marred>>,
         \/ a = "finish" /\ c # Disp
         \/ a \in {"boot", "raising"} /\ job[c].todo = {}
  PROVE  Rests(c)
<1>1. /\ Busy(c) /\ job[c].at = a /\ call[c] = Idle /\ ~Busy(c)' /\ call'[c] = Idle
      /\ UNCHANGED <<runs, stopping, conf, rec, live, driver, socket, marred>>
  BY DEF At, supVars, Busy
<1>2. /\ From(c) /\ LiveDrives /\ OwnWork(c)
      /\ \A k \in Name \ marred : Swept(k) /\ (Sole(c, k) => BridgeBy(c, k) /\ HostedBy(c, k))
  BY <1>1, Known
<1>3. From(c)' /\ LiveDrives' /\ Downs(c)' /\ Knows(c)' /\ BootKnows(c)'
  BY <1>1, <1>2 DEF From, LiveDrives, Downs, Knows, BootKnows
<1>4. c = Disp => \A k \in Name \ marred' : Swept(k)'
  BY <1>1 DEF Swept
<1>5. ASSUME NEW k \in Name \ marred', Sole(c, k) PROVE BridgeBy(c, k)' /\ HostedBy(c, k)'
  <2>1. /\ BridgeBy(c, k) /\ HostedBy(c, k) /\ ~Calls(c, k) /\ ~Calls(c, k)'
        /\ ~Awaits(c, k) /\ ~Awaits(c, k)'
    BY <1>1, <1>2, <1>5 DEF Calls, Awaits
  <2>2. ~Switching(c, k) /\ ~Starting(c, k) /\ ~Rising(c, k)
    BY <1>1, <2>1 DEF Switching, Starting, Rising, StartLabels, RestartDead, DeadLabels, BootLabels
  <2>3. BridgeBy(c, k)'
    BY <1>1, <2>1, <2>2 DEF BridgeBy, Running, InUse
  <2>4. Busy(Disp)' \/ (InUse(k) <=> live[k] # NoDriver)
    <3>1. CASE c = Disp
      <4>1. a = "raising" /\ Swept(k)
        BY <1>1, <1>2, <1>5, <3>1
           DEF From, FreeVerbs, Swept, JobOK, LifeInv, JobInv, BootLabels, ReconcileLabels, DeadLabels
      <4> QED  BY <1>1, <3>1, <4>1 DEF Swept
    <3>2. CASE c # Disp
      BY <1>1, <2>1, <2>2, <3>2, CallerAssumption DEF HostedBy, Busy
    <3> QED  BY <3>1, <3>2
  <2>5. HostedBy(c, k)'
    BY <1>1, <2>1, <2>4 DEF HostedBy, InUse
  <2> QED  BY <2>3, <2>5
<1>6. RowsStay /\ \A k \in Name \ marred' : Same(k)
  BY <1>1 DEF RowsStay, Same
<1> QED  BY <1>3, <1>4, <1>5, <1>6 DEF Rests

\* The dispatcher comes to reconcile, and goes through it.
Sweeps(a, l) ==
  LET j == job[Disp]  k == job'[Disp] IN
  \/ a = "finish" /\ l = "reap" /\ k.all = rec
  \/ /\ a = "reap" /\ l = "reaping" /\ k.all = j.all
     /\ k.todo = {n \in Name : live[n] # NoDriver /\ (j.all[n] = Absent \/ j.all[n].archived)}
  \/ /\ a = "reaping" /\ l = "raising" /\ k.all = j.all /\ j.todo = {}
     /\ k.todo = {n \in Name : j.all[n] # Absent /\ ~j.all[n].archived}

\* reconcile goes on from one of its parts to the next.
LEMMA SweepRests ==
  ASSUME LifeInv, TreeInv, Rest, NEW c \in Caller, c = Disp, NEW a, NEW l, At(c, a), Busy(c)',
         job'[c].at = l, job'[c].verb = job[c].verb, Sweeps(a, l),
         UNCHANGED <<supVars, rec, live, driver, socket, marred>>
  PROVE  Rests(c)
<1>1. /\ Busy(c) /\ job[c].at = a /\ call[c] = Idle /\ call'[c] = Idle
      /\ UNCHANGED <<runs, stopping, conf, rec, live, driver, socket, marred>>
      /\ a \in {"finish", "reap", "reaping"} /\ l \in {"reap", "reaping", "raising"}
  BY DEF At, supVars, Sweeps
<1>2. /\ From(c) /\ LiveDrives
      /\ \A k \in Name \ marred : Swept(k) /\ (Sole(c, k) => BridgeBy(c, k) /\ HostedBy(c, k))
  BY <1>1, Known
<1>3. From(c)' /\ LiveDrives' /\ Downs(c)' /\ Knows(c)' /\ BootKnows(c)'
  BY <1>1, <1>2
     DEF From, LiveDrives, Downs, Knows, BootKnows, RestartDead, DeadLabels, BootLabels, RowLabels
<1>4. ASSUME NEW k \in Name \ marred' PROVE Swept(k)'
  BY <1>1, <1>2, <1>4 DEF Swept, Sweeps, SweepLabels, SweepDead, DeadLabels, InUse
<1>5. ASSUME NEW k \in Name \ marred', Sole(c, k) PROVE BridgeBy(c, k)' /\ HostedBy(c, k)'
  <2>1. /\ BridgeBy(c, k) /\ HostedBy(c, k) /\ ~Calls(c, k) /\ ~Calls(c, k)'
        /\ ~Awaits(c, k) /\ ~Awaits(c, k)'
    BY <1>1, <1>2, <1>5 DEF Calls, Awaits
  <2>2. ~Switching(c, k) /\ ~Starting(c, k)
    BY <1>1, <2>1 DEF Switching, Starting, StartLabels, RestartDead, DeadLabels, BootLabels
  <2>3. BridgeBy(c, k)' /\ HostedBy(c, k)'
    BY <1>1, <2>1, <2>2 DEF BridgeBy, Running, InUse, HostedBy
  <2> QED  BY <2>3
<1> QED  BY <1>3, <1>4, <1>5 DEF Rests

\* goDead takes the session out of the table, ...
LEMMA DeleteRests ==
  ASSUME LifeInv, TreeInv, Rest, NEW c \in Caller, DeadDelete(c)
  PROVE  Rests(c)
<1>0. PICK n \in Name, d \in Driver \cup {NoDriver} : n = job[c].cur /\ d = live[n]
  BY BusyTyped DEF DeadDelete, At, LifeInv, DriverTyped
<1>1. /\ Busy(c) /\ job[c].at = "dead.delete" /\ call[c] = Idle /\ call'[c] = Idle
      /\ UNCHANGED <<runs, stopping, conf, rec, driver, socket, marred>>
      /\ job' = [job EXCEPT ![c] = [job[c] EXCEPT !.at = "dead.cancel", !.drv = d]]
      /\ live' = [live EXCEPT ![n] = NoDriver]
  BY <1>0 DEF DeadDelete, At, supVars
<1>2. /\ From(c) /\ Downs(c) /\ Knows(c) /\ LiveDrives /\ JobOK(c) /\ OwnWork(c) /\ DriverTyped
      /\ job[c] \in JobType
      /\ \A k \in Name \ marred : Swept(k) /\ (Sole(c, k) => BridgeBy(c, k) /\ HostedBy(c, k))
  BY <1>1, Known, BusyTyped DEF LifeInv
<1>3. /\ Busy(c)' /\ job'[c].at = "dead.cancel" /\ job'[c].verb = job[c].verb
      /\ job'[c].name = job[c].name /\ job'[c].ret = job[c].ret /\ job'[c].cur = n
      /\ job'[c].todo = job[c].todo /\ job'[c].sess = job[c].sess /\ job'[c].all = job[c].all
      /\ job'[c].drv = d
      /\ \A b \in Caller \ {c} : job'[b] = job[b]
  <2> DEFINE j == job[c]
             k == [j EXCEPT !.at = "dead.cancel", !.drv = d]
  <2>1. /\ k.at = "dead.cancel" /\ k.verb = j.verb /\ k.name = j.name /\ k.to = j.to /\ k.ret = j.ret
        /\ k.cur = j.cur /\ k.todo = j.todo /\ k.sess = j.sess /\ k.all = j.all /\ k.drv = d
    <3> HIDE DEF j
    <3> QED  BY <1>2 DEF JobType
  <2>2. job' = [job EXCEPT ![c] = k]
    BY <1>1
  <2> HIDE DEF k
  <2>3. Keeps(c) /\ job'[c] = k
    BY <1>1, <2>1, <2>2, KeepsFields DEF LifeInv
  <2> QED  BY <1>0, <2>1, <2>2, <2>3 DEF Keeps, LifeInv, JobInv, JobsTyped
<1>4. live'[n] = NoDriver /\ \A k \in Name \ {n} : live'[k] = live[k]
  BY <1>1, <1>2 DEF DriverTyped
<1>5. From(c)' /\ Downs(c)' /\ Knows(c)' /\ BootKnows(c)'
  BY <1>0, <1>1, <1>2, <1>3 DEF From, Downs, Knows, BootKnows, RestartDead, UnlockedLabels, DeadLabels,
     BootLabels, RowLabels, UpLabels, SameVendor, InUse
<1>6. LiveDrives'
  BY <1>1, <1>2, <1>4 DEF LiveDrives
<1>7. ASSUME c = Disp, NEW k \in Name \ marred' PROVE Swept(k)'
  <2>1. Swept(k)
    BY <1>1, <1>2, <1>7
  <2> QED  BY <1>0, <1>1, <1>3, <1>4, <1>7, <2>1 DEF Swept, SweepLabels, SweepDead, DeadLabels, InUse
<1>8. c # Disp => RestartDead(c) /\ n = job[c].name
  BY <1>0, <1>1, <1>2 DEF OwnWork, RestartDead, DeadLabels, From
<1>9. ASSUME NEW k \in Name \ marred', Sole(c, k) PROVE BridgeBy(c, k)' /\ HostedBy(c, k)'
  <2>1. BridgeBy(c, k) /\ HostedBy(c, k) /\ ~Calls(c, k) /\ ~Calls(c, k)' /\ ~Awaits(c, k) /\ ~Rising(c, k)
    BY <1>1, <1>2, <1>9 DEF Calls, Awaits, Rising, BootLabels
  <2>2. ~Switching(c, k) /\ (Starting(c, k) => Starting(c, k)')
    BY <1>1, <1>3, <2>1 DEF Switching, Starting, StartLabels, RestartDead, DeadLabels, BootLabels
  <2>3. BridgeBy(c, k)'
    BY <1>1, <2>1, <2>2 DEF BridgeBy, Running, InUse
  <2>4. Awaits(c, k)' <=> k = n
    BY <1>3 DEF Awaits
  <2>5. Busy(Disp)' = Busy(Disp)
    BY <1>1, <1>3, CallerAssumption DEF Busy
  <2>6. live'[k] # NoDriver => socket'[k] = live'[k]
    BY <1>1, <1>4, <2>1 DEF HostedBy
  <2>7. ASSUME NEW e \in Driver, driver'[e].at = "driving", driver'[e].cancelled, driver'[e].name = k
        PROVE  FALSE
    BY <1>1, <2>1, <2>7 DEF HostedBy
  <2>8. Busy(Disp)' \/ (InUse(k)' <=> live'[k] # NoDriver) \/ Rising(c, k)'
    <3>1. CASE c = Disp
      BY <1>3, <3>1
    <3>2. CASE c # Disp /\ k = n
      BY <1>3, <1>8, <3>2 DEF Rising
    <3>3. CASE c # Disp /\ k # n
      BY <1>1, <1>4, <2>1, <2>5, <3>3 DEF HostedBy, InUse
    <3> QED  BY <3>1, <3>2, <3>3
  <2>9. HostedBy(c, k)'
    BY <1>4, <2>4, <2>6, <2>7, <2>8 DEF HostedBy
  <2> QED  BY <2>3, <2>9
<1>10. RowsStay
  BY <1>1 DEF RowsStay
<1>11. ASSUME c # Disp, NEW k \in Name \ marred', ~Acts(c, k) PROVE Same(k)
  <2>1. job[c].verb # "boot"
    BY <1>1, <1>2 DEF JobOK, BootLabels
  <2>2. k # n
    BY <1>1, <1>8, <1>11, <2>1 DEF Acts, Touches
  <2> QED  BY <1>1, <1>4, <2>2 DEF Same
<1> QED  BY <1>5, <1>6, <1>7, <1>9, <1>10, <1>11 DEF Rests

\* ... cancels it, which nothing in the table is any more, ...
LEMMA CancelRests ==
  ASSUME LifeInv, TreeInv, Rest, NEW c \in Caller, DeadCancel(c)
  PROVE  Rests(c)
<1>0. PICK n \in Name, d \in Driver \cup {NoDriver} : n = job[c].cur /\ d = job[c].drv
  BY BusyTyped DEF DeadCancel, At, LifeInv, JobType
<1>1. /\ Busy(c) /\ job[c].at = "dead.cancel" /\ call[c] = Idle /\ call'[c] = Idle
      /\ UNCHANGED <<runs, stopping, conf, rec, live, socket, marred>>
      /\ Go(c, "dead.wait")
      /\ driver' = IF d = NoDriver THEN driver ELSE [driver EXCEPT ![d].cancelled = TRUE]
  BY <1>0 DEF DeadCancel, At, supVars
<1>2. /\ From(c) /\ Downs(c) /\ Knows(c) /\ LiveDrives /\ JobOK(c) /\ OwnWork(c) /\ DriverTyped
      /\ HubTable /\ Held(c)
      /\ \A k \in Name \ marred : Swept(k) /\ (Sole(c, k) => BridgeBy(c, k) /\ HostedBy(c, k))
  BY <1>1, Known DEF LifeInv, HubInv, HubTable
<1>3. /\ Busy(c)' /\ job'[c].at = "dead.wait" /\ job'[c].verb = job[c].verb
      /\ job'[c].name = job[c].name /\ job'[c].ret = job[c].ret /\ job'[c].cur = n
      /\ job'[c].todo = job[c].todo /\ job'[c].sess = job[c].sess /\ job'[c].all = job[c].all
      /\ job'[c].drv = d
      /\ \A b \in Caller \ {c} : job'[b] = job[b]
  <2>1. JobInv /\ Busy(c) /\ Go(c, "dead.wait")
    BY <1>1 DEF LifeInv
  <2>2. /\ Keeps(c) /\ job'[c].at = "dead.wait" /\ job'[c].ret = job[c].ret
        /\ job'[c].todo = job[c].todo /\ job'[c].cur = job[c].cur
    BY <2>1, GoKeeps
  <2>3. /\ job'[c].sess = job[c].sess /\ job'[c].all = job[c].all /\ job'[c].drv = job[c].drv
        /\ \A b \in Caller \ {c} : job'[b] = job[b]
    <3> DEFINE j == job[c]
               k == [j EXCEPT !.at = "dead.wait"]
    <3>1. job \in [Caller -> JobType \cup {NoJob}] /\ j \in JobType
      BY <2>1, BusyTyped DEF JobInv, JobsTyped
    <3>2. k.sess = j.sess /\ k.all = j.all /\ k.drv = j.drv
      <4> HIDE DEF j
      <4> QED  BY <3>1 DEF JobType
    <3>3. job' = [job EXCEPT ![c] = k]
      BY <2>1 DEF Go
    <3> HIDE DEF k
    <3> QED  BY <3>1, <3>2, <3>3
  <2> QED  BY <1>0, <2>2, <2>3 DEF Keeps
<1>4. /\ d # NoDriver => /\ d \in Driver /\ driver[d].name = n /\ driver'[d].name = n
                         /\ \A k \in Name : live[k] # d
      /\ \A e \in Driver \ {d} : driver'[e] = driver[e]
  <2>1. d # NoDriver => d \in Driver /\ driver[d].name = n /\ \A k \in Name : live[k] # d
    BY <1>0, <1>1, <1>2 DEF Held, HubTable
  <2>2. d # NoDriver => driver'[d].name = n
    BY <1>1, <1>2, <2>1 DEF DriverTyped
  <2> QED  BY <1>1, <1>2, <2>1, <2>2 DEF DriverTyped
<1>5. From(c)' /\ Downs(c)' /\ Knows(c)' /\ BootKnows(c)'
  BY <1>0, <1>1, <1>2, <1>3 DEF From, Downs, Knows, BootKnows, RestartDead, UnlockedLabels, DeadLabels,
     BootLabels, RowLabels, UpLabels, SameVendor, InUse
<1>6. LiveDrives'
  <2> SUFFICES ASSUME NEW k \in Name, live[k] # NoDriver
               PROVE  driver'[live[k]] = driver[live[k]]
    <3>1. LiveDrives /\ live' = live
      BY <1>1, <1>2
    <3> QED  BY <3>1 DEF LiveDrives
  <2>1. live \in [Name -> Driver \cup {NoDriver}]
    BY <1>2 DEF DriverTyped
  <2> QED  BY <1>4, <2>1
<1>7. ASSUME c = Disp, NEW k \in Name \ marred' PROVE Swept(k)'
  <2>1. Swept(k)
    BY <1>1, <1>2, <1>7
  <2> QED  BY <1>0, <1>1, <1>3, <1>7, <2>1 DEF Swept, SweepLabels, SweepDead, DeadLabels, InUse
<1>8. c # Disp => RestartDead(c) /\ n = job[c].name
  BY <1>0, <1>1, <1>2 DEF OwnWork, RestartDead, DeadLabels, From
<1>9. ASSUME NEW k \in Name \ marred', Sole(c, k) PROVE BridgeBy(c, k)' /\ HostedBy(c, k)'
  <2>1. BridgeBy(c, k) /\ HostedBy(c, k) /\ ~Calls(c, k) /\ ~Calls(c, k)'
    BY <1>1, <1>2, <1>9 DEF Calls
  <2>2. ~Switching(c, k) /\ (Starting(c, k) => Starting(c, k)')
    BY <1>1, <1>3, <2>1 DEF Switching, Starting, StartLabels, RestartDead, DeadLabels, BootLabels
  <2>3. BridgeBy(c, k)'
    BY <1>1, <2>1, <2>2 DEF BridgeBy, Running, InUse
  <2>4. (Awaits(c, k) <=> k = n) /\ (Awaits(c, k)' <=> k = n)
    BY <1>0, <1>1, <1>3 DEF Awaits
  <2>5. Busy(Disp)' = Busy(Disp)
    BY <1>1, <1>3, CallerAssumption DEF Busy
  <2>6. ASSUME NEW e \in Driver, driver'[e].at = "driving", driver'[e].cancelled, driver'[e].name = k
        PROVE  Awaits(c, k)' /\ job'[c].drv = e
    <3>1. CASE e = d
      BY <1>3, <1>4, <2>4, <2>6, <3>1, DriverAssumption
    <3>2. CASE e # d
      BY <1>0, <1>3, <1>4, <2>1, <2>4, <2>6, <3>2 DEF HostedBy
    <3> QED  BY <3>1, <3>2
  <2>7. Busy(Disp) \/ (InUse(k) <=> live[k] # NoDriver) \/ Rising(c, k)'
    <3>1. CASE c = Disp
      BY <1>1, <3>1
    <3>2. CASE c # Disp
      BY <1>1, <1>3, <1>8, <2>1, <3>2 DEF HostedBy, Rising, BootLabels
    <3> QED  BY <3>1, <3>2
  <2>8. HostedBy(c, k)'
    BY <1>1, <2>1, <2>4, <2>5, <2>6, <2>7 DEF HostedBy, InUse
  <2> QED  BY <2>3, <2>8
<1>10. RowsStay
  BY <1>1 DEF RowsStay
<1>11. ASSUME c # Disp, NEW k \in Name \ marred', ~Acts(c, k) PROVE Same(k)
  <2>1. job[c].verb # "boot"
    BY <1>1, <1>2 DEF JobOK, BootLabels
  <2>2. k # n
    BY <1>1, <1>8, <1>11, <2>1 DEF Acts, Touches
  <2>3. ASSUME NEW e \in Driver, driver'[e].at = "driving", driver'[e].cancelled, driver'[e].name = k
        PROVE  driver'[e] = driver[e]
    BY <1>4, <2>2, <2>3, DriverAssumption
  <2> QED  BY <1>1, <2>3 DEF Same
<1> QED  BY <1>5, <1>6, <1>7, <1>9, <1>10, <1>11 DEF Rests

\* ... then waits for it, and marks the name if it does not come.
LEMMA WaitRests ==
  ASSUME LifeInv, TreeInv, Rest, NEW c \in Caller, DeadWait(c)
  PROVE  Rests(c)
<1>0. PICK n \in Name : n = job[c].cur
  BY BusyTyped DEF DeadWait, At, LifeInv
<1>1. /\ Busy(c) /\ job[c].at = "dead.wait" /\ call[c] = Idle /\ call'[c] = Idle
      /\ UNCHANGED <<runs, stopping, conf, rec, live, driver, socket>> /\ marred \subseteq marred'
      /\ job' = [job EXCEPT ![c] = [job[c] EXCEPT !.at = job[c].ret, !.drv = NoDriver]]
      /\ n \in marred' \/ (job[c].drv # NoDriver => driver[job[c].drv].at = "ended")
  BY <1>0 DEF DeadWait, At, supVars
<1>2. /\ From(c) /\ Downs(c) /\ Knows(c) /\ LiveDrives /\ JobOK(c) /\ OwnWork(c)
      /\ job[c] \in JobType
      /\ \A k \in Name \ marred : Swept(k) /\ (Sole(c, k) => BridgeBy(c, k) /\ HostedBy(c, k))
  BY <1>1, Known, BusyTyped DEF LifeInv
<1>3. /\ Busy(c)' /\ job'[c].at = job[c].ret /\ job'[c].verb = job[c].verb
      /\ job'[c].name = job[c].name /\ job'[c].cur = n
      /\ job'[c].todo = job[c].todo /\ job'[c].sess = job[c].sess /\ job'[c].all = job[c].all
      /\ \A b \in Caller \ {c} : job'[b] = job[b]
      /\ job[c].ret \in {"restart.set", "reaping"}
  <2> DEFINE j == job[c]
             k == [j EXCEPT !.at = j.ret, !.drv = NoDriver]
  <2>1. /\ k.at = j.ret /\ k.verb = j.verb /\ k.name = j.name /\ k.to = j.to
        /\ k.cur = j.cur /\ k.todo = j.todo /\ k.sess = j.sess /\ k.all = j.all
    <3> HIDE DEF j
    <3> QED  BY <1>2 DEF JobType
  <2>2. job' = [job EXCEPT ![c] = k]
    BY <1>1
  <2> HIDE DEF k
  <2>3. Keeps(c) /\ job'[c] = k
    BY <1>1, <2>1, <2>2, KeepsFields DEF LifeInv
  <2>4. j.ret \in {"restart.set", "reaping"}
    BY <1>1, <1>2 DEF JobOK, DeadLabels
  <2> QED  BY <1>0, <2>1, <2>2, <2>3, <2>4 DEF Keeps, LifeInv, JobInv, JobsTyped
<1>4. c # Disp => RestartDead(c) /\ n = job[c].name /\ job[c].ret = "restart.set"
  BY <1>0, <1>1, <1>2 DEF OwnWork, RestartDead, DeadLabels, From
<1>5. From(c)' /\ LiveDrives' /\ Downs(c)' /\ Knows(c)' /\ BootKnows(c)'
  <2>1. From(c)' /\ LiveDrives' /\ Downs(c)' /\ BootKnows(c)'
    BY <1>1, <1>2, <1>3, <1>4 DEF From, LiveDrives, Downs, BootKnows, RestartDead, UnlockedLabels,
       DeadLabels, BootLabels
  <2>2. Knows(c)'
    BY <1>1, <1>2, <1>3, <1>4 DEF Knows, RestartDead, DeadLabels, RowLabels, UpLabels, SameVendor, InUse
  <2> QED  BY <2>1, <2>2
<1>6. ASSUME c = Disp, NEW k \in Name \ marred' PROVE Swept(k)'
  <2>1. Swept(k)
    BY <1>1, <1>2, <1>6
  <2> QED  BY <1>0, <1>1, <1>3, <1>6, <2>1 DEF Swept, SweepLabels, SweepDead, DeadLabels, InUse
<1>7. ASSUME NEW k \in Name \ marred', Sole(c, k) PROVE BridgeBy(c, k)' /\ HostedBy(c, k)'
  <2>1. BridgeBy(c, k) /\ HostedBy(c, k) /\ ~Calls(c, k) /\ ~Calls(c, k)' /\ ~Awaits(c, k)'
    BY <1>1, <1>2, <1>3, <1>7 DEF Calls, Awaits
  <2>2. ~Switching(c, k) /\ (Starting(c, k) => Starting(c, k)')
    BY <1>1, <1>3, <2>1
       DEF Switching, Starting, StartLabels, Target, RestartDead, DeadLabels, BootLabels
  <2>3. BridgeBy(c, k)'
    BY <1>1, <2>1, <2>2 DEF BridgeBy, Running, InUse
  <2>4. Busy(Disp)' = Busy(Disp)
    BY <1>1, <1>3, CallerAssumption DEF Busy
  <2>5. Awaits(c, k) <=> k = n
    BY <1>0, <1>1 DEF Awaits
  <2>6. ASSUME NEW e \in Driver, driver[e].at = "driving", driver[e].cancelled, driver[e].name = k
        PROVE  FALSE
    <3>1. k = n /\ job[c].drv = e
      BY <2>1, <2>5, <2>6 DEF HostedBy
    <3> QED  BY <1>1, <1>7, <2>6, <3>1, DriverAssumption
  <2>7. Busy(Disp) \/ (InUse(k) <=> live[k] # NoDriver) \/ Rising(c, k)'
    <3>1. CASE c = Disp
      BY <1>1, <3>1
    <3>2. CASE c # Disp
      BY <1>1, <1>3, <1>4, <2>1, <3>2 DEF HostedBy, Rising, BootLabels
    <3> QED  BY <3>1, <3>2
  <2>8. HostedBy(c, k)'
    BY <1>1, <2>1, <2>4, <2>6, <2>7 DEF HostedBy, InUse
  <2> QED  BY <2>3, <2>8
<1>8. RowsStay /\ \A k \in Name \ marred' : Same(k)
  BY <1>1 DEF RowsStay, Same
<1> QED  BY <1>5, <1>6, <1>7, <1>8 DEF Rests

\* What a step of a call into the supervisor does to the table, by the name it is for.
CallDoes(c, n) ==
  \/ /\ call[c].op = "start" /\ call[c].at = "enter" /\ runs[n] = NoRun /\ call'[c] = Idle
     /\ runs'[n] # NoRun /\ ~stopping'[runs'[n]] /\ conf'[runs'[n]] = call[c].conf
  \/ /\ call[c].op = "start" /\ call[c].at = "enter" /\ runs[n] # NoRun /\ runs'[n] = runs[n]
     /\ stopping'[runs[n]] = stopping[runs[n]] /\ conf'[runs[n]] = conf[runs[n]]
     /\ ~stopping[runs[n]] => call'[c] = Idle
  \/ /\ call[c].op \in {"stop", "restart"} /\ runs'[n] = NoRun
     /\ call[c].at = "enter" \/ (call[c].at = "wait" /\ call[c].run = runs[n])
     /\ IF call[c].op = "stop" THEN call'[c] = Idle
        ELSE /\ call'[c] # Idle /\ call'[c].name = n /\ call'[c].conf = call[c].conf
             /\ call'[c].op = "start" /\ call'[c].at = "enter"
  \/ /\ call[c].op \in {"stop", "restart"} /\ call[c].at = "enter" /\ runs[n] # NoRun /\ runs'[n] = runs[n]
     /\ stopping'[runs[n]] /\ conf'[runs[n]] = conf[runs[n]]
     /\ call'[c] # Idle /\ call'[c].name = n /\ call'[c].conf = call[c].conf
     /\ call'[c].op = call[c].op /\ call'[c].at = "wait" /\ call'[c].run = runs[n]
  \/ call[c].at = "wait" /\ (call[c].op = "start" \/ call[c].run # runs[n])

LEMMA MovedConf == ASSUME NEW k, NEW op, NEW at, NEW r PROVE Moved(k, op, at, r).conf = k.conf
BY DEF Moved

\* ... and to the other names, nothing.
LEMMA CallEffect ==
  ASSUME SupInv, NEW c \in Caller, CallerStep(c), NEW n \in Name, n = call[c].name
  PROVE  /\ CallDoes(c, n)
         /\ \A k \in Name \ {n} :
              /\ runs'[k] = runs[k]
              /\ runs[k] # NoRun => stopping'[runs[k]] = stopping[runs[k]] /\ conf'[runs[k]] = conf[runs[k]]
         /\ call'[c] # Idle => /\ call'[c].name = n /\ (call'[c].op = "stop" <=> call[c].op = "stop")
                               /\ call'[c].op = "restart" => call[c].op = "restart"
<1>1. /\ TypeOK /\ TableInv /\ call[c] # Idle /\ call[c].op \in {"start", "stop", "restart"}
      /\ call[c].at \in {"enter", "wait"} /\ Idle.op = "none"
      /\ runs[n] \in Run \cup {NoRun}
      /\ \A r \in Run : phase[r] = "unused" => ~stopping[r]
      /\ \A k \in Name \ {n} : runs[k] # NoRun => runs[k] \in Run /\ runs[k] # runs[n]
  <2>1. TypeOK /\ TableInv /\ call[c] # Idle /\ call[c] \in Call /\ Idle.op = "none"
    BY Callers DEF SupInv, CallerStep, Idle
  <2> QED  BY <2>1 DEF TypeOK, TableInv, Call
<1>2. ASSUME NEW op \in {"start", "stop", "restart"}, NEW at \in {"enter", "wait"},
             NEW r \in Run \cup {NoRun}, at = "wait" => r # NoRun,
             call' = [call EXCEPT ![c] = Moved(call[c], op, at, r)]
      PROVE  /\ call'[c] # Idle /\ call'[c].op = op /\ call'[c].at = at /\ call'[c].run = r
             /\ call'[c].name = n /\ call'[c].conf = call[c].conf
  <2>1. call'[c].op = op /\ call'[c].at = at /\ call'[c].run = r /\ call'[c].name = n
    BY <1>1, <1>2, MovedTyped
  <2>2. call'[c].conf = call[c].conf
    BY <1>1, <1>2, MovedConf DEF TypeOK
  <2> QED  BY <1>1, <2>1, <2>2
<1>3. Return(c) => call'[c] = Idle
  BY <1>1 DEF Return, TypeOK
<1>4. CASE Launch(c)
  <2>1. PICK r \in Run : /\ phase[r] = "unused" /\ runs' = [runs EXCEPT ![n] = r]
                         /\ conf' = [conf EXCEPT ![r] = call[c].conf]
    BY <1>4 DEF Launch
  <2>2. /\ call[c].op = "start" /\ call[c].at = "enter" /\ runs[n] = NoRun /\ call'[c] = Idle
        /\ stopping' = stopping
    BY <1>3, <1>4 DEF Launch
  <2>3. \A k \in Name \ {n} : runs[k] # NoRun => runs[k] # r
    BY <2>1, <1>1 DEF TableInv
  <2> QED  BY <1>1, <2>1, <2>2, <2>3, RunAssumption DEF CallDoes, TypeOK
<1>5. CASE FindRunning(c)
  <2>1. /\ call[c].op = "start" /\ call[c].at = "enter" /\ runs[n] # NoRun
        /\ UNCHANGED <<runs, stopping, conf>>
        /\ IF stopping[runs[n]] THEN WaitFor(c, runs[n]) ELSE Return(c)
    BY <1>5 DEF FindRunning
  <2>2. call'[c] # Idle => /\ call'[c].name = n /\ (call'[c].op = "stop" <=> call[c].op = "stop")
                           /\ call'[c].op = "restart" => call[c].op = "restart"
    BY <1>1, <1>2, <1>3, <2>1 DEF WaitFor
  <2> QED  BY <1>3, <2>1, <2>2 DEF CallDoes
<1>6. ASSUME call[c].op \in {"stop", "restart"}, AfterStop(c)
      PROVE  IF call[c].op = "stop" THEN call'[c] = Idle
             ELSE /\ call'[c] # Idle /\ call'[c].name = n /\ call'[c].conf = call[c].conf
                  /\ call'[c].op = "start" /\ call'[c].at = "enter"
  BY <1>2, <1>3, <1>6 DEF AfterStop, ToStart
<1>7. CASE StopNothing(c)
  BY <1>6, <1>7 DEF StopNothing, CallDoes
<1>8. CASE StopRun(c)
  <2>1. /\ call[c].op \in {"stop", "restart"} /\ call[c].at = "enter" /\ runs[n] # NoRun
        /\ UNCHANGED <<runs, conf>> /\ stopping' = [stopping EXCEPT ![runs[n]] = TRUE]
        /\ WaitFor(c, runs[n])
    BY <1>8 DEF StopRun
  <2>2. /\ call'[c] # Idle /\ call'[c].op = call[c].op /\ call'[c].at = "wait" /\ call'[c].run = runs[n]
        /\ call'[c].name = n /\ call'[c].conf = call[c].conf
    BY <1>1, <1>2, <2>1 DEF WaitFor
  <2>3. stopping'[runs[n]]
    BY <1>1, <2>1 DEF TypeOK
  <2>4. \A k \in Name \ {n} : runs[k] # NoRun => stopping'[runs[k]] = stopping[runs[k]]
    BY <1>1, <2>1 DEF TypeOK
  <2> QED  BY <2>1, <2>2, <2>3, <2>4 DEF CallDoes
<1>9. CASE Waited(c)
  <2>1. /\ call[c].at = "wait" /\ UNCHANGED <<stopping, conf>>
        /\ runs' = IF runs[n] = call[c].run THEN [runs EXCEPT ![n] = NoRun] ELSE runs
        /\ IF call[c].op = "start" THEN ToStart(c) ELSE AfterStop(c)
    BY <1>9 DEF Waited, Forget
  <2>2. call'[c] # Idle => /\ call'[c].name = n /\ (call'[c].op = "stop" <=> call[c].op = "stop")
                           /\ call'[c].op = "restart" => call[c].op = "restart"
    BY <1>1, <1>2, <1>6, <2>1 DEF ToStart
  <2>3. CallDoes(c, n)
    <3>1. CASE call[c].op = "start" \/ call[c].run # runs[n]
      BY <2>1, <3>1 DEF CallDoes
    <3>2. CASE call[c].op # "start" /\ call[c].run = runs[n]
      <4>1. runs'[n] = NoRun
        BY <1>1, <2>1, <3>2 DEF TypeOK
      <4> QED  BY <1>1, <1>6, <2>1, <3>2, <4>1 DEF CallDoes
    <3> QED  BY <3>1, <3>2
  <2>4. \A k \in Name \ {n} : runs'[k] = runs[k]
    BY <1>1, <2>1 DEF TypeOK
  <2> QED  BY <2>1, <2>2, <2>3, <2>4
<1> QED  BY <1>4, <1>5, <1>7, <1>8, <1>9 DEF CallerStep

\* A step of a call into the supervisor.
LEMMA CalledRests ==
  ASSUME LifeInv, TreeInv, Rest, NEW c \in Caller, CallerStep(c), UNCHANGED <<hubVars, job>>
  PROVE  Rests(c)
<1>1. /\ call[c] # Idle /\ Busy(c) /\ Busy(c)' /\ job' = job /\ SupInv
      /\ UNCHANGED <<rec, live, driver, socket, marred>>
  BY DEF CallerStep, TreeInv, OwnCalls, LifeInv, hubVars, Busy
<1>2. PICK n \in Name : n = call[c].name
  BY <1>1, Callers DEF SupInv
<1>3. /\ CallDoes(c, n)
      /\ \A k \in Name \ {n} :
           /\ runs'[k] = runs[k]
           /\ runs[k] # NoRun => stopping'[runs[k]] = stopping[runs[k]] /\ conf'[runs[k]] = conf[runs[k]]
      /\ call'[c] # Idle => call'[c].name = n /\ (call'[c].op = "stop" <=> call[c].op = "stop")
  BY <1>1, <1>2, CallEffect
<1>4. /\ From(c) /\ Downs(c) /\ Knows(c) /\ BootKnows(c) /\ LiveDrives /\ JobOK(c) /\ OwnWork(c)
      /\ OwnCalls(c)
      /\ \A k \in Name \ marred : Swept(k) /\ (Sole(c, k) => BridgeBy(c, k) /\ HostedBy(c, k))
  BY <1>1, Known
<1>5. \A k \in Name : /\ Calls(c, k) <=> k = n
                      /\ Calls(c, k)' <=> k = n /\ call'[c] # Idle
  BY <1>1, <1>2, <1>3 DEF Calls
<1>7. From(c)' /\ LiveDrives' /\ Knows(c)' /\ BootKnows(c)'
  <2>1. From(c)'
    BY <1>1, <1>2, <1>3, <1>4 DEF From, RestartDead
  <2>2. LiveDrives' /\ Knows(c)' /\ BootKnows(c)'
    BY <1>1, <1>4 DEF LiveDrives, Knows, BootKnows, RestartDead, SameVendor, InUse
  <2> QED  BY <2>1, <2>2
<1>8. ASSUME c = Disp, NEW k \in Name \ marred' PROVE Swept(k)'
  BY <1>1, <1>4, <1>8 DEF Swept, SweepDead, InUse
<1>9. Downs(c)'
  <2>1. SUFFICES ASSUME call'[c] = Idle, job[c].at \in {"close.tree", "close.remove", "rename.set"},
                        NEW m, m = job[c].name, m \notin marred
                 PROVE  runs'[m] = NoRun
    BY <1>1 DEF Downs
  <2>2. call[c].op = "stop" /\ m = n
    BY <1>1, <1>2, <1>4, <2>1 DEF From
  <2>3. c = Disp
    BY <1>1, <1>4, <2>1 DEF From, UnlockedLabels, DeadLabels, BootLabels
  <2>4. Sole(c, n)
    BY <1>1, <2>1, <2>2, <2>3, CallerAssumption DEF Sole, Acts, Rest, LockedOut
  <2>5. BridgeBy(c, n)
    BY <1>4, <2>1, <2>2, <2>4
  <2> QED  BY <1>3, <1>5, <2>1, <2>2, <2>5 DEF BridgeBy, CallDoes
<1>10. ASSUME NEW k \in Name \ {n} PROVE Same(k)
  BY <1>1, <1>3, <1>10 DEF Same
<1>11. ASSUME NEW k \in Name \ marred', Sole(c, k) PROVE HostedBy(c, k)'
  <2>1. HostedBy(c, k)
    BY <1>1, <1>4, <1>11
  <2> QED  BY <1>1, <2>1 DEF HostedBy, InUse, Awaits, Rising, Busy
<1>12. ASSUME NEW k \in Name \ marred', Sole(c, k), k # n PROVE BridgeBy(c, k)'
  <2>1. BridgeBy(c, k) /\ ~Calls(c, k) /\ ~Calls(c, k)'
    BY <1>1, <1>4, <1>5, <1>12
  <2>2. Starting(c, k)' = Starting(c, k) /\ Switching(c, k)' = Switching(c, k)
    BY <1>1, <2>1 DEF Starting, Switching, Busy, RestartDead, Target
  <2>3. Same(k)
    BY <1>10, <1>12
  <2> QED  BY <2>1, <2>2, <2>3 DEF BridgeBy, Same, Running, InUse
<1>13. ASSUME n \notin marred', Sole(c, n) PROVE BridgeBy(c, n)'
  <2>1. BridgeBy(c, n) /\ Calls(c, n) /\ rec' = rec
    BY <1>1, <1>4, <1>5, <1>13
  <2>2. ~(Busy(c) /\ job[c].at = "switch.restart" /\ job[c].name = n)
    BY <1>1, <1>4, Callers DEF From, SupInv, Call
  <2>3. CASE call[c].op = "start"
    BY <1>1, <1>3, <1>5, <2>1, <2>2, <2>3 DEF BridgeBy, CallDoes, Running, InUse, Switching
  <2>4. CASE call[c].op = "restart"
    <3>1. call'[c] # Idle => Starting(c, n)'
      BY <1>5 DEF Starting
    <3>2. call'[c] # Idle /\ call'[c].op = "restart" => Switching(c, n)'
      BY <1>5 DEF Switching
    <3> QED  BY <1>1, <1>3, <1>5, <2>1, <2>2, <2>4, <3>1, <3>2 DEF BridgeBy, CallDoes, Running, InUse
  <2>5. CASE call[c].op = "stop"
    <3>1. InUse(n) => Starting(c, n)'
      <4>1. CASE job[c].at \in {"close.tree", "archive.set", "rename.set"}
        BY <1>1, <1>2, <1>4, <4>1 DEF From, Starting, StartLabels, Target
      <4>2. CASE job[c].at = "dead.delete" /\ job[c].ret = "restart.set"
        BY <1>1, <1>2, <1>4, <4>2 DEF From, Starting, RestartDead, DeadLabels
      <4>3. CASE job[c].at = "dead.delete" /\ job[c].ret = "reaping"
        <5>1. c = Disp /\ SweepDead(c) /\ n = job[c].cur
          BY <1>1, <1>2, <1>4, <4>3 DEF OwnWork, From, SweepDead, DeadLabels
        <5> QED  BY <1>1, <1>4, <1>13, <5>1 DEF Swept
      <4> QED  BY <1>1, <1>4, <2>5, <4>1, <4>2, <4>3 DEF From, JobOK, DeadLabels
    <3> QED  BY <1>1, <1>3, <1>5, <2>1, <2>5, <3>1 DEF BridgeBy, CallDoes, Running, InUse
  <2> QED  BY <1>1, <2>3, <2>4, <2>5, Callers DEF SupInv, Call
<1>14. c # Disp => RowsStay /\ \A k \in Name \ marred' : ~Acts(c, k) => Same(k)
  <2>1. c # Disp /\ Busy(c) => Acts(c, n)
    BY <1>1, <1>2, <1>4 DEF Acts, OwnCalls
  <2> QED  BY <1>1, <1>10, <2>1 DEF RowsStay
<1> QED  BY <1>7, <1>8, <1>9, <1>11, <1>12, <1>13, <1>14 DEF Rests

-----------------------------------------------------------------------------
(* The conversations. *)

\* The conversation a bridge launched with k reports, and what is recorded of it.
Own(v) == [vendor |-> v, conv |-> "own"]
Yield(k) == IF k.token = NoToken THEN Own(k.vendor) ELSE k.token
Tells(t, n) == t # NoToken /\ (rec[n].token = t \/ (rec[n].token = NoToken /\ t = Own(rec[n].vendor)))
Fits(k, n) ==
  /\ rec[n] # Absent /\ k.vendor = rec[n].vendor
  /\ IF k.token = NoToken THEN rec[n].token \in {NoToken, Own(k.vendor)} ELSE rec[n].token = k.token

\* A turn that has a token to report, or may come to one.
Talks(d, n) == driver[d].name = n /\ turn[d].at \in {"busy", "result"}
Still(n) == \A d \in Driver : ~Talks(d, n)
Prompt(n) == \A d \in Driver : Talks(d, n) => live[n] = d
Claimed(n) == live[n] # NoDriver => turn[live[n]].at = "claimed"

\* A name that is recorded: its token is one of its vendor, and what its bridge,
\* the calls for it and the turns of its drivers carry is that token, or will be.
RowTold(n) == rec[n].token # NoToken => rec[n].token.vendor = rec[n].vendor
RunTold(n) == runs[n] # NoRun => Fits(conf[runs[n]], n) \/ \E b \in Caller : Switching(b, n)
CallTold(n) == \A b \in Caller : Calls(b, n) /\ call[b].op # "stop" => Fits(call[b].conf, n)
TurnTold(n) ==
  \A d \in Driver : driver[d].name = n =>
    /\ turn[d].at = "result" => Tells(turn[d].token, n)
    /\ turn[d].at = "busy" => Tells(Yield(conf[turn[d].run]), n)
TurnRuns(n) ==
  \A d \in Driver : driver[d].name = n /\ turn[d].at = "busy" => phase[turn[d].run] # "unused"
Told(n) == TurnRuns(n) /\ (rec[n] # Absent => RowTold(n) /\ RunTold(n) /\ CallTold(n) /\ TurnTold(n))

\* The verb a step belongs to.
Paths(c) ==
  /\ Busy(c) => /\ job[c].at \in {"switch", "switch.restart"} => job[c].verb = "switch"
                /\ job[c].at \in {"rename", "rename.set"} => job[c].verb = "rename"
  /\ call[c] # Idle /\ call[c].op = "restart" => Busy(c) /\ job[c].verb = "switch" /\ call[c].name = job[c].name

\* What a job knows of the conversation of its session.
SessLabels == {"close", "close.tree", "create.start", "unarchive", "unarchive.start", "rename",
               "rename.set", "resume", "resume.live", "resume.start"}
CutLabels == {"restart.live", "restart.start"}
Recalls(c) ==
  LET j == job[c] IN
  Busy(c) =>
    /\ j.name \notin marred =>
         /\ j.at = "create" => j.sess.token = NoToken
         /\ j.at \in SessLabels => Fits(ConfOf(j.sess), j.name)
         /\ j.at \in CutLabels => rec[j.name].token = CutToken(c)
         /\ j.at \in CutLabels \cup {"restart.set"} \/ (RestartDead(c) /\ call[c] = Idle)
              => runs[j.name] = NoRun
    /\ j.at = "rename.start" /\ j.to \notin marred => Fits(ConfOf(j.sess), j.to)
    /\ j.at \in {"rename", "rename.set"} /\ j.name \in marred => j.to \in marred
    /\ j.at \in BootLabels => \A n \in Name \ marred : n \in j.todo \/ (j.at = "boot.start" /\ n = j.cur)
         => Fits(ConfOf(j.all[n]), n)

\* Where no turn of n may be about.
Hushes(c, n) ==
  LET j == job[c] IN
  /\ Busy(c)
  /\ \/ n = j.name /\ (j.verb \in {"restart", "switch"} \/ j.at \in {"create", "restart", "restart.set"} \/ RestartDead(c))
     \/ n = j.to /\ j.at \in {"rename", "rename.set"}
Claims(c) == job[c].verb # "restart" /\ (job[c].at \in {"restart", "restart.set"} \/ RestartDead(c))
Hushed(c) ==
  /\ \A n \in Name \ marred : Hushes(c, n) => Still(n)
  /\ Busy(c) /\ job[c].name \notin marred =>
       /\ job[c].at = "rewind" => Prompt(job[c].name)
       /\ Claims(c) => Claimed(job[c].name)

\* Only a rewind claims a turn.
Unclaimed == \A c \in Caller \ {Disp} : Busy(c) => job[c].claim = NoDriver

Tok ==
  /\ Unclaimed
  /\ \A c \in Caller : Paths(c) /\ Recalls(c) /\ Hushed(c)
  /\ \A n \in Name \ marred : Told(n)

TokInv == outer \/ Tok

\* The row of n keeps its backend, and its conversation, but for the one a turn began.
Grows(n) ==
  /\ rec'[n] = Absent <=> rec[n] = Absent
  /\ rec[n] # Absent =>
       /\ rec'[n].vendor = rec[n].vendor
       /\ rec'[n].token # rec[n].token => rec[n].token = NoToken /\ rec'[n].token = Own(rec[n].vendor)

\* What a step that is not about n leaves of it, and of its turns.
Hushing(n) == (Still(n) => Still(n)') /\ (Prompt(n) => Prompt(n)') /\ (Claimed(n) => Claimed(n)')
Steady(n) == Grows(n) /\ runs'[n] = runs[n] /\ Hushing(n)

\* What a step of c does to the conversations.
Toks(c) ==
  /\ Paths(c)' /\ Recalls(c)' /\ Hushed(c)'
  /\ \A n \in Name \ marred' : Told(n)' /\ (~Acts(c, n) => Steady(n))
  /\ c # Disp => marred' \subseteq marred \cup Touches(c)

\* A conversation that fits the row fits it when the row has grown.
LEMMA FitsOn ==
  ASSUME RecTyped, NEW n \in Name, Grows(n), NEW k, Fits(k, n)
  PROVE  Fits(k, n)'
BY DEF Fits, Grows

LEMMA OwnTyped ==
  ASSUME NEW v \in Vendor
  PROVE  Own(v) \in Token /\ Own(v) # NoToken /\ Own(v).vendor = v
BY TokenAssumption DEF Own, Token

\* ... and so do the tokens that turns report.
LEMMA TellsOn ==
  ASSUME RecTyped, NEW n \in Name, rec[n] # Absent, Grows(n), NEW t, Tells(t, n)
  PROVE  Tells(t, n)'
BY DEF Tells, Grows

\* A turn on a bridge that fits will tell of the row.
LEMMA YieldTells ==
  ASSUME RecTyped, NEW n \in Name, NEW k, Fits(k, n)
  PROVE  Tells(Yield(k), n)
<1>1. rec[n] \in Session
  BY RowOrAbsent DEF RecTyped, Fits
<1>2. Own(rec[n].vendor) # NoToken
  BY <1>1, OwnTyped DEF Session
<1> QED  BY <1>2 DEF Fits, Tells, Yield

\* What n is told stays true when nothing is asked or begun for it, and its bridge is right.
LEMMA ToldOn ==
  ASSUME LifeInv, NEW n \in Name, Told(n), Grows(n), rec[n] # Absent => RunTold(n)',
         rec[n] # Absent =>
           \A b \in Caller : Calls(b, n)' /\ call'[b].op # "stop" => Fits(call'[b].conf, n),
         \A d \in Driver : driver'[d].name = n /\ turn'[d].at \in {"busy", "result"}
            => driver[d].name = n /\ turn'[d] = turn[d],
         \A r \in Run : phase[r] # "unused" => phase'[r] # "unused" /\ conf'[r] = conf[r]
  PROVE  Told(n)'
<1>0. RecTyped /\ TurnInv
  BY DEF LifeInv
<1>1. TurnRuns(n)'
  BY <1>0 DEF Told, TurnRuns, TurnInv
<1>2. SUFFICES ASSUME rec'[n] # Absent PROVE (RowTold(n) /\ RunTold(n) /\ CallTold(n) /\ TurnTold(n))'
  BY <1>1 DEF Told
<1>3. rec[n] # Absent
  BY <1>2 DEF Grows
<1>4. RowTold(n) /\ RunTold(n) /\ CallTold(n) /\ TurnTold(n)
  BY <1>3 DEF Told
<1>5. RowTold(n)'
  <2>1. Own(rec[n].vendor).vendor = rec[n].vendor
    BY DEF Own
  <2> QED  BY <1>3, <1>4, <2>1 DEF RowTold, Grows
<1>6. RunTold(n)'
  BY <1>3
<1>7. CallTold(n)'
  <2>1. SUFFICES ASSUME NEW b \in Caller, Calls(b, n)', call'[b].op # "stop" PROVE Fits(call[b].conf, n)'
    BY DEF CallTold
  <2>2. PICK k : k = call'[b].conf
    OBVIOUS
  <2>3. Fits(k, n)
    BY <1>3, <2>1, <2>2
  <2>4. Fits(k, n)'
    BY <1>0, <2>3, FitsOn
  <2> QED  BY <2>2, <2>4 DEF Fits
<1>8. TurnTold(n)'
  <2>1. SUFFICES ASSUME NEW d \in Driver, driver'[d].name = n, turn'[d].at \in {"busy", "result"}
                 PROVE  /\ turn'[d].at = "result" => Tells(turn[d].token, n)'
                        /\ turn'[d].at = "busy" => Tells(Yield(conf[turn[d].run]), n)'
    BY DEF TurnTold
  <2>2. driver[d].name = n /\ turn'[d] = turn[d]
    BY <2>1
  <2>3. ASSUME turn[d].at = "result" PROVE Tells(turn[d].token, n)'
    <3>1. PICK t : t = turn[d].token
      OBVIOUS
    <3>2. Tells(t, n)
      BY <1>4, <2>2, <2>3, <3>1 DEF TurnTold
    <3>3. Tells(t, n)'
      BY <1>0, <1>3, <3>2, TellsOn
    <3> QED  BY <2>2, <3>1, <3>3 DEF Tells
  <2>4. ASSUME turn[d].at = "busy" PROVE Tells(Yield(conf[turn[d].run]), n)'
    <3>1. PICK t : t = Yield(conf[turn[d].run])
      OBVIOUS
    <3>2. Tells(t, n)
      BY <1>4, <2>2, <2>4, <3>1 DEF TurnTold
    <3>3. Tells(t, n)'
      BY <1>0, <1>3, <3>2, TellsOn
    <3>4. turn[d].run \in Run /\ phase[turn[d].run] # "unused"
      BY <1>0, <2>2, <2>4 DEF Told, TurnRuns, TurnInv
    <3>5. conf'[turn'[d].run] = conf[turn[d].run]
      BY <2>2, <3>4
    <3> QED  BY <2>2, <3>1, <3>3, <3>5 DEF Tells, Yield
  <2> QED  BY <2>1, <2>2, <2>3, <2>4
<1> QED  BY <1>5, <1>6, <1>7, <1>8

\* ... as it is if it stays the same.
LEMMA ToldStays ==
  ASSUME LifeInv, NEW n \in Name, Told(n), Grows(n), runs'[n] = runs[n],
         runs[n] # NoRun => conf'[runs[n]] = conf[runs[n]],
         rec[n] # Absent =>
           \A b \in Caller : Calls(b, n)' /\ call'[b].op # "stop" => Fits(call'[b].conf, n),
         rec[n] # Absent => \A b \in Caller : Switching(b, n) => \E e \in Caller : Switching(e, n)',
         \A d \in Driver : driver'[d].name = n /\ turn'[d].at \in {"busy", "result"}
            => driver[d].name = n /\ turn'[d] = turn[d],
         \A r \in Run : phase[r] # "unused" => phase'[r] # "unused" /\ conf'[r] = conf[r]
  PROVE  Told(n)'
<1>1. ASSUME rec[n] # Absent PROVE RunTold(n)'
  <2>1. SUFFICES ASSUME runs[n] # NoRun, ~\E b \in Caller : Switching(b, n)' PROVE Fits(conf[runs[n]], n)'
    BY DEF RunTold
  <2>2. Fits(conf[runs[n]], n)
    BY <1>1, <2>1 DEF Told, RunTold
  <2>3. PICK k : k = conf[runs[n]]
    OBVIOUS
  <2>4. Fits(k, n)'
    BY <2>2, <2>3, FitsOn DEF LifeInv
  <2> QED  BY <2>1, <2>3, <2>4 DEF Fits
<1> QED  BY <1>1, ToldOn

\* Who holds no dispatch lock claims no turn.
LEMMA ClaimKept ==
  ASSUME LifeInv, TreeInv, Rest, NEW c \in Caller, c # Disp, Busy(c), Busy(c)', VerbStep(c)
  PROVE  job'[c].claim = job[c].claim
<1> DEFINE j == job[c]
<1>0. j \in JobType /\ j.at \in UnlockedLabels /\ j.at \notin SweepLabels /\ j.todo \subseteq Name
  BY Known, BusyTyped DEF LifeInv, From, OwnWork
<1>1. ASSUME NEW k, job' = [job EXCEPT ![c] = k] PROVE job'[c] = k
  BY <1>1 DEF LifeInv, JobInv, JobsTyped
<1>2. ASSUME NEW l, Go(c, l) \/ Fail(c) PROVE job'[c].claim = j.claim
  <2> DEFINE k == IF Go(c, l) THEN [j EXCEPT !.at = l] ELSE [j EXCEPT !.at = "finish", !.ok = FALSE]
  <2>1. job' = [job EXCEPT ![c] = k]
    BY <1>2 DEF Go, Fail
  <2>2. k.claim = j.claim
    <3> HIDE DEF j
    <3> QED  BY <1>0 DEF JobType
  <2> HIDE DEF k
  <2> QED  BY <1>1, <2>1, <2>2
<1>3. ASSUME NEW n, NEW l, GoDead(c, n, l) PROVE job'[c].claim = j.claim
  <2> DEFINE T == j.todo \ {n}
             k == [j EXCEPT !.at = "dead.delete", !.ret = l, !.cur = n, !.todo = T]
  <2>1. job' = [job EXCEPT ![c] = k]
    BY <1>3 DEF GoDead
  <2>2. k.claim = j.claim
    <3> HIDE DEF j, T
    <3> QED  BY <1>0 DEF JobType
  <2> HIDE DEF k
  <2> QED  BY <1>1, <2>1, <2>2
<1>4. CASE DeadDelete(c) \/ DeadWait(c)
  <2> DEFINE d == live[j.cur]
             k == IF j.at = "dead.delete" THEN [j EXCEPT !.at = "dead.cancel", !.drv = d]
                  ELSE [j EXCEPT !.at = j.ret, !.drv = NoDriver]
  <2>1. job' = [job EXCEPT ![c] = k]
    BY <1>4 DEF DeadDelete, DeadWait, At
  <2>2. k.claim = j.claim
    <3> HIDE DEF j, d
    <3> QED  BY <1>0 DEF JobType
  <2> HIDE DEF k
  <2> QED  BY <1>1, <2>1, <2>2
<1>5. CASE BootLoop(c)
  <2>1. CASE At(c, "boot.start")
    BY <1>2, <1>5, <2>1 DEF BootLoop, At, SupCall
  <2>2. CASE At(c, "boot") /\ j.todo = {} /\ job' = [job EXCEPT ![c] = NoJob]
    BY <1>1, <2>2 DEF Busy
  <2>3. ASSUME NEW n \in j.todo, job' = [job EXCEPT ![c].at = "boot.start", ![c].cur = n, ![c].todo = @ \ {n}]
        PROVE  job'[c].claim = j.claim
    <3> DEFINE T == j.todo \ {n}
               k == [j EXCEPT !.at = "boot.start", !.cur = n, !.todo = T]
    <3>1. job' = [job EXCEPT ![c] = k]
      BY <2>3
    <3>2. k.claim = j.claim
      <4> HIDE DEF j, T
      <4> QED  BY <1>0 DEF JobType
    <3> HIDE DEF k
    <3> QED  BY <1>1, <3>1, <3>2
  <2> QED  BY <1>5, <2>1, <2>2, <2>3 DEF BootLoop
<1>6. CASE Restart(c)
  BY <1>2, <1>3, <1>6 DEF Restart, WriteIfChanged, Write, SupCall
<1>7. CASE Resume(c)
  BY <1>2, <1>7 DEF Resume, WriteIfChanged, Write, SupCall
<1>8. CASE Finish(c)
  BY <1>1, <1>8 DEF Finish, Busy
<1>10. CASE DeadCancel(c)
  BY <1>2, <1>10 DEF DeadCancel
<1>9. ~(Create(c) \/ Close(c) \/ Archive(c) \/ Unarchive(c) \/ Rename(c) \/ Switch(c)
        \/ Rewind(c) \/ RewindBusy(c) \/ Reconcile(c) \/ At(c, "other"))
  BY <1>0 DEF Create, Close, Archive, Unarchive, Rename, Switch, Rewind, RewindBusy, Reconcile, At,
     UnlockedLabels, DeadLabels, BootLabels, SweepLabels
<1> QED  BY <1>4, <1>5, <1>6, <1>7, <1>8, <1>9, <1>10 DEF VerbStep

\* A call into the supervisor leaves the bridges there are what they are.
LEMMA CallKeepsRuns ==
  ASSUME SupInv, NEW c \in Caller, CallerStep(c), NEW r \in Run, phase[r] # "unused"
  PROVE  phase'[r] # "unused" /\ conf'[r] = conf[r]
<1>0. TypeOK
  BY DEF SupInv
<1>1. CASE Launch(c)
  <2>1. PICK q \in Run : /\ phase[q] = "unused" /\ phase' = [phase EXCEPT ![q] = "top"]
                         /\ conf' = [conf EXCEPT ![q] = call[c].conf]
    BY <1>1 DEF Launch
  <2> QED  BY <1>0, <2>1 DEF TypeOK
<1>2. CASE FindRunning(c) \/ StopNothing(c) \/ StopRun(c) \/ Waited(c)
  BY <1>2 DEF FindRunning, StopNothing, StopRun, Waited
<1> QED  BY <1>1, <1>2 DEF CallerStep

-----------------------------------------------------------------------------
(* The steps that neither write a row nor are a call under way. *)

\* No bridge, no row, no call for a bridge and no turn that talks is new.
Quietly(c) ==
  /\ UNCHANGED <<rec, runs, conf, phase>> /\ marred \subseteq marred'
  /\ \A d \in Driver : turn'[d].at \in {"busy", "result"}
       => turn'[d] = turn[d] /\ driver'[d].name = driver[d].name
  /\ call[c] = Idle /\ job[c].at # "switch.restart" /\ (call'[c] # Idle => call'[c].op = "stop")
  /\ \A b \in Caller \ {c} : job'[b] = job[b] /\ call'[b] = call[b]
  /\ c # Disp => turn' = turn /\ \A n \in Name : ~Acts(c, n) => live'[n] = live[n]

\* What is known of the caller that steps.
LEMMA KnownToks ==
  ASSUME Tok, NEW c \in Caller
  PROVE  /\ Paths(c) /\ Recalls(c) /\ Hushed(c)
         /\ c # Disp /\ Busy(c) => job[c].claim = NoDriver
         /\ \A n \in Name \ marred : Told(n)
BY DEF Tok, Unclaimed

LEMMA QuietTold ==
  ASSUME LifeInv, Tok, NEW c \in Caller, Quietly(c), NEW n \in Name
  PROVE  /\ n \notin marred => Told(n)'
         /\ Grows(n) /\ runs'[n] = runs[n]
         /\ Still(n) => Still(n)'
         /\ Prompt(n) /\ live'[n] = live[n] => Prompt(n)'
<1>1. Grows(n) /\ runs'[n] = runs[n]
  BY DEF Quietly, Grows
<1>2. \A d \in Driver : Talks(d, n)' => Talks(d, n)
  BY DEF Quietly, Talks
<1>3. ASSUME n \notin marred PROVE Told(n)'
  <2>1. Told(n)
    BY <1>3, KnownToks
  <2>2. \A b \in Caller : Calls(b, n)' /\ call'[b].op # "stop" => Calls(b, n) /\ call'[b] = call[b]
    BY DEF Quietly, Calls
  <2>3. rec[n] # Absent => \A b \in Caller : Calls(b, n)' /\ call'[b].op # "stop" => Fits(call'[b].conf, n)
    BY <2>1, <2>2 DEF Told, CallTold
  <2>4. \A b \in Caller : Switching(b, n) => Switching(b, n)'
    BY DEF Quietly, Switching, Calls, Busy
  <2>5. \A d \in Driver : driver'[d].name = n /\ turn'[d].at \in {"busy", "result"}
            => driver[d].name = n /\ turn'[d] = turn[d]
    BY DEF Quietly
  <2>6. \A r \in Run : phase[r] # "unused" => phase'[r] # "unused" /\ conf'[r] = conf[r]
    BY DEF Quietly
  <2>7. conf' = conf
    BY DEF Quietly
  <2> QED  BY <1>1, <2>1, <2>3, <2>4, <2>5, <2>6, <2>7, ToldStays
<1> QED  BY <1>1, <1>2, <1>3 DEF Still, Prompt

\* Such a step, from what it makes of its own job.
LEMMA QuietToks ==
  ASSUME LifeInv, Tok, NEW c \in Caller, Busy(c), Quietly(c), Paths(c)', Recalls(c)', Hushed(c)',
         c # Disp => marred' \subseteq marred \cup Touches(c)
  PROVE  Toks(c)
<1>1. ASSUME NEW n \in Name \ marred' PROVE Told(n)' /\ (~Acts(c, n) => Steady(n))
  <2>1. n \in Name \ marred
    BY DEF Quietly
  <2>2. Told(n)' /\ Grows(n) /\ runs'[n] = runs[n] /\ (Still(n) => Still(n)')
        /\ (Prompt(n) /\ live'[n] = live[n] => Prompt(n)')
    BY <2>1, QuietTold
  <2>3. ~Acts(c, n) => live'[n] = live[n] /\ (Claimed(n) => Claimed(n)')
    BY DEF Quietly, Claimed, Acts
  <2> QED  BY <2>2, <2>3 DEF Steady, Hushing
<1> QED  BY <1>1 DEF Toks

\* What hushes a name goes on doing so.
LEMMA HushOn ==
  ASSUME LifeInv, Tok, NEW c \in Caller, Busy(c), NEW n \in Name, n = job[c].name,
         marred \subseteq marred', \A k \in Name : Still(k) => Still(k)',
         Busy(c)' => /\ job'[c].name = n /\ job'[c].at # "rewind"
                     /\ \A k \in Name \ marred' : Hushes(c, k)' => Hushes(c, k)
                     /\ Claims(c)' => Claims(c) /\ (Claimed(n) => Claimed(n)')
  PROVE  Hushed(c)'
<1>1. SUFFICES ASSUME Busy(c)' PROVE Hushed(c)'
  BY DEF Hushed, Hushes
<1>2. Hushed(c)
  BY KnownToks
<1>3. ASSUME NEW k \in Name \ marred', Hushes(c, k)' PROVE Still(k)'
  BY <1>1, <1>2, <1>3 DEF Hushed
<1>4. n \notin marred' /\ Claims(c)' => Claimed(n)'
  BY <1>1, <1>2 DEF Hushed
<1> QED  BY <1>1, <1>3, <1>4 DEF Hushed

LEMMA HushKept ==
  ASSUME LifeInv, Tok, NEW c \in Caller, Busy(c), Quietly(c), NEW n \in Name, n = job[c].name,
         Busy(c)' => /\ job'[c].name = n /\ job'[c].at # "rewind"
                     /\ \A k \in Name : Hushes(c, k)' => Hushes(c, k)
                     /\ Claims(c)' => Claims(c) /\ (Claimed(n) => Claimed(n)')
  PROVE  Hushed(c)'
<1>1. \A k \in Name : Still(k) => Still(k)'
  BY QuietTold
<1>2. marred \subseteq marred'
  BY DEF Quietly
<1> QED  BY <1>1, <1>2, HushOn

LEMMA MoveToks ==
  ASSUME LifeInv, TreeInv, Rest, Tok, NEW c \in Caller, NEW a, NEW l, At(c, a), Onto(c, l),
         UNCHANGED <<supVars, rec, live, driver, socket, marred, turn>>,
         \A b \in Caller \ {c} : job'[b] = job[b],
         \/ a = "close.tree" /\ l = "close.remove"
         \/ a = "rewind" /\ l = "finish"
         \/ a = "other" /\ l = "finish"
  PROVE  Toks(c)
<1>1. Busy(c) /\ job[c].at = a /\ call[c] = Idle /\ call'[c] = Idle /\ Busy(c)' /\ job'[c].at = l
  BY DEF At, Onto, supVars
<1>2. PICK n \in Name : n = job[c].name
  BY <1>1, BusyTyped DEF LifeInv
<1>3. Quietly(c)
  BY <1>1 DEF Quietly, supVars
<1>4. Paths(c)' /\ Recalls(c)'
  BY <1>1 DEF Paths, Recalls, SessLabels, CutLabels, BootLabels, RestartDead, DeadLabels
<1>5. Hushed(c)'
  BY <1>1, <1>2, <1>3, HushKept DEF Onto, Hushes, Claims, RestartDead, DeadLabels
<1> QED  BY <1>1, <1>3, <1>4, <1>5, QuietToks

\* A rewind claims the turn of the session.
LEMMA ClaimToks ==
  ASSUME LifeInv, TreeInv, Rest, Tok, NEW c \in Caller, Rewind(c), Onto(c, "restart"),
         \A b \in Caller \ {c} : job'[b] = job[b]
  PROVE  Toks(c)
<1>1. /\ Busy(c) /\ job[c].at = "rewind" /\ call[c] = Idle /\ call'[c] = Idle /\ Busy(c)'
      /\ job'[c].at = "restart" /\ UNCHANGED <<supVars, rec, live, driver, marred>>
  BY DEF Rewind, At, Onto, supVars
<1>2. PICK n \in Name : n = job[c].name
  BY <1>1, BusyTyped DEF LifeInv
<1>3. /\ live[n] # NoDriver => turn[live[n]] = IdleTurn /\ live[n] \in Driver
      /\ turn' = IF live[n] = NoDriver THEN turn ELSE [turn EXCEPT ![live[n]] = [at |-> "claimed"]]
      /\ DOMAIN turn = Driver
  BY <1>2 DEF Rewind, LifeInv, DriverTyped, TurnInv
<1>4. /\ \A d \in Driver : turn'[d].at \in {"busy", "result"} => turn'[d] = turn[d]
      /\ live[n] # NoDriver => turn'[live[n]].at = "claimed"
  BY <1>3
<1>5. c = Disp
  BY <1>1, Known DEF From, UnlockedLabels, DeadLabels, BootLabels
<1>6. Quietly(c)
  BY <1>1, <1>4, <1>5 DEF Quietly, supVars
<1>7. Paths(c)' /\ Recalls(c)'
  BY <1>1 DEF Paths, Recalls, SessLabels, CutLabels, BootLabels, RestartDead, DeadLabels
<1>8. Hushed(c)'
  <2>1. ASSUME NEW k \in Name \ marred', Hushes(c, k)' PROVE Still(k)'
    <3>1. k = n
      BY <1>1, <1>2, <2>1 DEF Hushes, Onto, RestartDead, DeadLabels
    <3>2. Prompt(n)
      BY <1>1, <1>2, <2>1, <3>1, KnownToks DEF Hushed
    <3>3. Still(n)
      <4>1. IdleTurn.at = "idle"
        BY DEF IdleTurn
      <4> QED  BY <1>3, <3>2, <4>1, DriverAssumption DEF Still, Prompt, Talks
    <3> QED  BY <1>6, <3>1, <3>3, QuietTold
  <2>2. Claimed(n)'
    BY <1>1, <1>4 DEF Claimed
  <2> QED  BY <1>1, <1>2, <2>1, <2>2 DEF Hushed, Onto
<1> QED  BY <1>1, <1>5, <1>6, <1>7, <1>8, QuietToks

\* A session goes dead: nobody talks of it any more.
LEMMA GoDeadToks ==
  ASSUME LifeInv, TreeInv, Rest, Tok, NEW c \in Caller, NEW n \in Name, NEW l, GoDead(c, n, l),
         UNCHANGED hubVars, \A b \in Caller \ {c} : job'[b] = job[b],
         \/ At(c, "restart") /\ l = "restart.set" /\ n = job[c].name
         \/ At(c, "reaping") /\ l = "reaping" /\ n \in job[c].todo
  PROVE  Toks(c)
<1> DEFINE j == job[c]
           T == j.todo \ {n}
           k == [j EXCEPT !.at = "dead.delete", !.ret = l, !.cur = n, !.todo = T]
<1>1. /\ Busy(c) /\ j.at \in {"restart", "reaping"} /\ call[c] = Idle /\ TypeOK
      /\ UNCHANGED <<rec, live, driver, turn, marred>>
      /\ j.at = "restart" => l = "restart.set"
      /\ j.at = "reaping" => l = "reaping"
  BY DEF At, LifeInv, SupInv, hubVars
<1>2. job' = [job EXCEPT ![c] = k] /\ Begin(c, "stop", n, CHOOSE x \in Conf : TRUE) /\ j \in JobType
  BY <1>1, BusyTyped DEF GoDead, LifeInv
<1>3. /\ k.at = "dead.delete" /\ k.verb = j.verb /\ k.name = j.name /\ k.to = j.to /\ k.ret = l
  <2> HIDE DEF j
  <2> QED  BY <1>2 DEF JobType
<1> HIDE DEF k
<1>4. /\ job'[c].at = "dead.delete" /\ job'[c].verb = j.verb /\ job'[c].name = j.name
      /\ job'[c].ret = l /\ job'[c].to = j.to
  BY <1>2, <1>3 DEF LifeInv, JobInv, JobsTyped
<1>5. /\ call'[c] # Idle /\ call'[c].op = "stop" /\ UNCHANGED <<runs, conf, phase>>
      /\ \A b \in Caller \ {c} : call'[b] = call[b]
  BY <1>1, <1>2, SomeNames, BeginCall, BeginTyped
<1>6. PICK m \in Name : m = job[c].name
  BY <1>1, BusyTyped DEF LifeInv
<1>7. Quietly(c)
  BY <1>1, <1>5 DEF Quietly
<1>8. Paths(c)' /\ Recalls(c)'
  BY <1>4, <1>5 DEF Paths, Recalls, SessLabels, CutLabels, BootLabels, RestartDead, DeadLabels
<1>9. Hushed(c)'
  <2>1. Claimed(m) => Claimed(m)'
    BY <1>1 DEF Claimed
  <2> QED  BY <1>1, <1>4, <1>6, <1>7, <2>1, HushKept DEF j, Hushes, Claims, RestartDead, DeadLabels
<1> QED  BY <1>1, <1>7, <1>8, <1>9, QuietToks

\* ... it is taken out of the table, ...
LEMMA DeleteToks ==
  ASSUME LifeInv, TreeInv, Rest, Tok, NEW c \in Caller, \A b \in Caller \ {c} : job'[b] = job[b],
         DeadDelete(c)
  PROVE  Toks(c)
<1> DEFINE j == job[c]
<1>0. PICK n \in Name, m \in Name, d \in Driver \cup {NoDriver} : n = j.cur /\ d = live[n] /\ m = j.name
  BY BusyTyped DEF DeadDelete, At, LifeInv, DriverTyped
<1> DEFINE k == [j EXCEPT !.at = "dead.cancel", !.drv = d]
<1>1. /\ Busy(c) /\ j.at = "dead.delete" /\ call[c] = Idle /\ call'[c] = Idle
      /\ UNCHANGED <<runs, conf, phase, rec, driver, turn, marred, call>>
      /\ job' = [job EXCEPT ![c] = k] /\ live' = [live EXCEPT ![n] = NoDriver]
  BY <1>0 DEF DeadDelete, At, supVars
<1>2. From(c) /\ OwnWork(c) /\ DriverTyped /\ j \in JobType
  BY <1>1, Known, BusyTyped DEF LifeInv
<1>3. /\ k.at = "dead.cancel" /\ k.verb = j.verb /\ k.name = j.name /\ k.to = j.to /\ k.ret = j.ret
  <2> HIDE DEF j
  <2> QED  BY <1>2 DEF JobType
<1> HIDE DEF k
<1>4. /\ job'[c].at = "dead.cancel" /\ job'[c].verb = j.verb /\ job'[c].name = j.name
      /\ job'[c].ret = j.ret /\ job'[c].to = j.to
  BY <1>1, <1>3 DEF LifeInv, JobInv, JobsTyped
<1>5. live'[n] = NoDriver /\ \A x \in Name \ {n} : live'[x] = live[x]
  BY <1>1, <1>2 DEF DriverTyped
<1>6. RestartDead(c) => n = m
  BY <1>0, <1>1, <1>2 DEF From
<1>7. c # Disp => Acts(c, n)
  BY <1>0, <1>1, <1>2, <1>6 DEF OwnWork, RestartDead, DeadLabels, Acts, Touches
<1>8. Quietly(c)
  BY <1>1, <1>5, <1>7 DEF Quietly
<1>9. Paths(c)' /\ Recalls(c)'
  <2>1. Recalls(c)
    BY KnownToks
  <2> QED  BY <1>1, <1>4, <2>1 DEF Paths, Recalls, SessLabels, CutLabels, BootLabels, RestartDead, DeadLabels
<1>10. Hushed(c)'
  <2>1. RestartDead(c) => Claimed(m)'
    BY <1>5, <1>6 DEF Claimed
  <2> QED  BY <1>0, <1>1, <1>4, <1>8, <2>1, HushKept DEF Hushes, Claims, RestartDead, DeadLabels
<1> QED  BY <1>1, <1>8, <1>9, <1>10, QuietToks

\* ... cancelled ...
LEMMA CancelToks ==
  ASSUME LifeInv, TreeInv, Rest, Tok, NEW c \in Caller, \A b \in Caller \ {c} : job'[b] = job[b],
         DeadCancel(c)
  PROVE  Toks(c)
<1> DEFINE j == job[c]
<1>0. PICK m \in Name, d \in Driver \cup {NoDriver} : d = j.drv /\ m = j.name
  BY BusyTyped DEF DeadCancel, At, LifeInv, JobType
<1>1. /\ Busy(c) /\ j.at = "dead.cancel" /\ call[c] = Idle /\ call'[c] = Idle
      /\ UNCHANGED <<runs, conf, phase, rec, live, turn, marred, call>>
      /\ Go(c, "dead.wait")
      /\ driver' = IF d = NoDriver THEN driver ELSE [driver EXCEPT ![d].cancelled = TRUE]
  BY <1>0 DEF DeadCancel, At, supVars
<1>2. DriverTyped
  BY DEF LifeInv
<1>3. /\ job'[c].at = "dead.wait" /\ job'[c].verb = j.verb /\ job'[c].name = j.name
      /\ job'[c].ret = j.ret /\ job'[c].to = j.to
  BY <1>1, GoKeeps DEF LifeInv, Keeps
<1>4. \A e \in Driver : driver'[e].name = driver[e].name
  BY <1>1, <1>2 DEF DriverTyped
<1>5. Quietly(c)
  BY <1>1, <1>4 DEF Quietly
<1>6. Paths(c)' /\ Recalls(c)'
  <2>1. Recalls(c)
    BY KnownToks
  <2> QED  BY <1>1, <1>3, <2>1 DEF Paths, Recalls, SessLabels, CutLabels, BootLabels, RestartDead, DeadLabels
<1>7. Hushed(c)'
  <2>1. Claimed(m) => Claimed(m)'
    BY <1>1 DEF Claimed
  <2> QED  BY <1>0, <1>1, <1>3, <1>5, <2>1, HushKept DEF Hushes, Claims, RestartDead, DeadLabels
<1> QED  BY <1>1, <1>5, <1>6, <1>7, QuietToks

\* ... and waited for.
LEMMA WaitToks ==
  ASSUME LifeInv, TreeInv, Rest, Tok, NEW c \in Caller, \A b \in Caller \ {c} : job'[b] = job[b],
         DeadWait(c)
  PROVE  Toks(c)
<1> DEFINE j == job[c]
           k == [j EXCEPT !.at = j.ret, !.drv = NoDriver]
<1>0. PICK n \in Name, m \in Name : n = j.cur /\ m = j.name
  BY BusyTyped DEF DeadWait, At, LifeInv
<1>1. /\ Busy(c) /\ j.at = "dead.wait" /\ call[c] = Idle /\ call'[c] = Idle
      /\ UNCHANGED <<runs, conf, phase, rec, turn, call, live, driver>>
      /\ marred \subseteq marred' /\ marred' \subseteq marred \cup {n}
      /\ job' = [job EXCEPT ![c] = k]
  BY <1>0 DEF DeadWait, At, supVars
<1>2. From(c) /\ OwnWork(c) /\ JobOK(c) /\ j \in JobType
  BY <1>1, Known, BusyTyped DEF LifeInv
<1>3. /\ k.at = j.ret /\ k.verb = j.verb /\ k.name = j.name /\ k.to = j.to /\ k.sess = j.sess
  <2> HIDE DEF j
  <2> QED  BY <1>2 DEF JobType
<1> HIDE DEF k
<1>4. /\ job'[c].at = j.ret /\ job'[c].verb = j.verb /\ job'[c].name = j.name /\ job'[c].to = j.to
      /\ job'[c].sess = j.sess /\ j.ret \in {"restart.set", "reaping"}
  BY <1>1, <1>2, <1>3 DEF LifeInv, JobInv, JobsTyped, JobOK, DeadLabels
<1>5. j.ret = "restart.set" => RestartDead(c)
  BY <1>1 DEF RestartDead, DeadLabels
<1>6. c # Disp => n \in Touches(c)
  BY <1>0, <1>1, <1>2 DEF OwnWork, RestartDead, DeadLabels, Touches, From
<1>7. Quietly(c)
  BY <1>1 DEF Quietly
<1>8. Paths(c)' /\ Recalls(c)'
  <2>1. Recalls(c)
    BY KnownToks
  <2> QED  BY <1>0, <1>1, <1>4, <1>5, <2>1
              DEF Paths, Recalls, SessLabels, CutLabels, BootLabels, RestartDead, DeadLabels
<1>9. Hushed(c)'
  <2>1. Claimed(m) => Claimed(m)'
    BY <1>1 DEF Claimed
  <2> QED  BY <1>0, <1>1, <1>4, <1>5, <1>7, <2>1, HushKept DEF Hushes, Claims, RestartDead, DeadLabels
<1> QED  BY <1>1, <1>6, <1>7, <1>8, <1>9, QuietToks

\* A session goes live, with a driver that has no turn.
LEMMA LiveToks ==
  ASSUME LifeInv, TreeInv, Rest, Tok, NEW c \in Caller, NEW a, NEW l, NEW n \in Name, At(c, a), GoLive(n),
         Raises(c, a, n, l), \A b \in Caller \ {c} : job'[b] = job[b]
  PROVE  Toks(c)
<1>1. /\ Busy(c) /\ job[c].at = a /\ call[c] = Idle /\ call'[c] = Idle
      /\ UNCHANGED <<call, runs, conf, phase, rec, turn>>
      /\ marred \subseteq marred' /\ marred' \subseteq marred \cup {n}
  BY DEF At, supVars, GoLive
<1>2. /\ From(c) /\ JobOK(c) /\ OwnWork(c) /\ DriverTyped /\ Recalls(c)
      /\ job[c].name \in Name
  BY <1>1, Known, KnownToks DEF LifeInv
<1>3. /\ job'[c].at = l /\ Busy(c)'
      /\ <<a, l>> \in {<<"restart.live", "restart.start">>, <<"resume.live", "resume.start">>,
                       <<"boot", "boot.start">>, <<"raising", "raising">>}
  BY <1>1 DEF Raises
<1>4. /\ \A k \in Name \ {n} : live'[k] = live[k]
      /\ \A d \in Driver : driver'[d] = driver[d] \/ turn[d] = IdleTurn
  <2>1. CASE UNCHANGED <<live, driver>>
    BY <2>1
  <2>2. ASSUME NEW d \in Driver, Fresh(d), live' = [live EXCEPT ![n] = d],
               driver' = [driver EXCEPT ![d] = [at |-> "driving", name |-> n, cancelled |-> FALSE]]
        PROVE  <1>4!1 /\ <1>4!2
    BY <1>2, <2>2 DEF DriverTyped, Fresh
  <2> QED  BY <2>1, <2>2 DEF GoLive
<1>5. c # Disp => n \in Touches(c)
  <2>1. job[c].verb = "boot" <=> a = "boot"
    BY <1>1, <1>2, <1>3 DEF JobOK, BootLabels, ReconcileLabels, DeadLabels
  <2> QED  BY <1>1, <1>2, <1>3, <2>1 DEF Raises, Touches, OwnWork, SweepLabels
<1>6. Quietly(c)
  <2>1. IdleTurn.at = "idle"
    BY DEF IdleTurn
  <2> QED  BY <1>1, <1>3, <1>4, <1>5, <2>1 DEF Quietly, Acts
<1>7. Paths(c)' /\ Recalls(c)'
  <2>1. Paths(c)'
    BY <1>1, <1>3 DEF Paths
  <2>2. CutToken(c)' = CutToken(c)
    BY DEF CutToken, Raises
  <2>3. Recalls(c)'
    <3>1. ASSUME l \in {"restart.start", "resume.start"} PROVE Recalls(c)'
      <4>0. PICK m \in Name : m = job[c].name
        BY <1>2
      <4>1. PICK s : s = ConfOf(job[c].sess)
        OBVIOUS
      <4>2. ConfOf(job[c].sess)' = s /\ (Fits(s, m) => Fits(s, m)')
        BY <1>1, <4>1 DEF Raises, ConfOf, Fits
      <4> QED  BY <1>1, <1>2, <1>3, <2>2, <3>1, <4>0, <4>1, <4>2
                  DEF Raises, Recalls, SessLabels, CutLabels, BootLabels, RestartDead, DeadLabels
    <3>2. ASSUME l = "boot.start" PROVE Recalls(c)'
      <4>1. ASSUME NEW m \in Name \ marred', m \in job'[c].todo \/ m = job'[c].cur
            PROVE  Fits(ConfOf(job[c].all[m]), m)'
        <5>1. PICK s : s = ConfOf(job[c].all[m])
          OBVIOUS
        <5>2. Fits(s, m)
          BY <1>1, <1>2, <1>3, <3>2, <4>1, <5>1 DEF Raises, Recalls, BootLabels
        <5>3. job'[c].all = job[c].all
          BY DEF Raises
        <5> QED  BY <1>1, <5>1, <5>2, <5>3 DEF ConfOf, Fits
      <4> QED  BY <1>3, <3>2, <4>1 DEF Recalls, SessLabels, CutLabels, BootLabels, RestartDead, DeadLabels
    <3>3. ASSUME l = "raising" PROVE Recalls(c)'
      BY <1>3, <3>3 DEF Recalls, SessLabels, CutLabels, BootLabels, RestartDead, DeadLabels
    <3> QED  BY <1>3, <3>1, <3>2, <3>3
  <2> QED  BY <2>1, <2>3
<1>8. Hushed(c)'
  <2>1. PICK m \in Name : m = job[c].name
    BY <1>2
  <2> QED  BY <1>1, <1>3, <1>6, <2>1, HushKept DEF Raises, Hushes, Claims, RestartDead, DeadLabels
<1> QED  BY <1>1, <1>5, <1>6, <1>7, <1>8, QuietToks

\* A job is over.
LEMMA EndToks ==
  ASSUME LifeInv, TreeInv, Rest, Tok, NEW c \in Caller, NEW a, At(c, a), job'[c] = NoJob,
         \A b \in Caller \ {c} : job'[b] = job[b],
         UNCHANGED <<supVars, rec, live, driver, socket, marred, turn>>,
         a \in {"finish", "boot", "raising"}
  PROVE  Toks(c)
<1>1. /\ Busy(c) /\ job[c].at = a /\ call[c] = Idle /\ call'[c] = Idle /\ ~Busy(c)'
      /\ UNCHANGED <<call, runs, conf, phase>>
  BY DEF At, supVars, Busy
<1>2. Quietly(c)
  BY <1>1 DEF Quietly
<1>3. Paths(c)' /\ Recalls(c)' /\ Hushed(c)'
  BY <1>1 DEF Paths, Recalls, Hushed, Hushes
<1> QED  BY <1>1, <1>2, <1>3, QuietToks

\* reconcile goes on; a rewind has released the turn it claimed.
LEMMA SweepToks ==
  ASSUME LifeInv, TreeInv, Rest, Tok, NEW c \in Caller, c = Disp, NEW a, NEW l, At(c, a), Busy(c)',
         job'[c].at = l, job'[c].verb = job[c].verb, job'[c].name = job[c].name, Sweeps(a, l),
         UNCHANGED <<supVars, rec, live, driver, socket, marred>>,
         \A b \in Caller \ {c} : job'[b] = job[b],
         turn' = turn \/ turn' = [turn EXCEPT ![job[c].claim] = IdleTurn]
  PROVE  Toks(c)
<1>1. /\ Busy(c) /\ job[c].at = a /\ call[c] = Idle /\ call'[c] = Idle
      /\ UNCHANGED <<call, runs, conf, phase>>
      /\ a \in {"finish", "reap", "reaping"} /\ l \in {"reap", "reaping", "raising"}
  BY DEF At, supVars, Sweeps
<1>2. PICK n \in Name : n = job[c].name
  BY <1>1, BusyTyped DEF LifeInv
<1>3. \A d \in Driver : turn'[d].at \in {"busy", "result"} => turn'[d] = turn[d]
  <2>1. IdleTurn.at = "idle" /\ DOMAIN turn = Driver
    BY DEF IdleTurn, LifeInv, TurnInv
  <2> QED  BY <2>1
<1>4. Quietly(c)
  BY <1>1, <1>3 DEF Quietly
<1>5. Paths(c)' /\ Recalls(c)'
  BY <1>1 DEF Paths, Recalls, SessLabels, CutLabels, BootLabels, RestartDead, DeadLabels
<1>6. Hushed(c)'
  BY <1>1, <1>2, <1>4, HushKept DEF Hushes, Claims, RestartDead, DeadLabels
<1> QED  BY <1>1, <1>4, <1>5, <1>6, QuietToks

-----------------------------------------------------------------------------
(* The calls and the writes. *)

\* A verb that asks for a bridge asks for one that continues the recorded conversation.
LEMMA CallToks ==
  ASSUME LifeInv, TreeInv, Rest, Tok, NEW c \in Caller, NEW a, At(c, a),
         NEW op \in {"start", "stop", "restart"}, NEW n \in Name, NEW s \in Session, NEW l,
         SupCall(c, op, n, s, l), Asks(c, a, op, n, l), \A b \in Caller \ {c} : job'[b] = job[b],
         op = "stop" \/ n \in marred \/ Fits(ConfOf(s), n)
  PROVE  Toks(c)
<1>1. /\ Busy(c) /\ job[c].at = a /\ call[c] = Idle /\ TypeOK /\ Onto(c, l)
      /\ Begin(c, op, n, ConfOf(s)) /\ ConfOf(s) \in Conf
      /\ UNCHANGED <<rec, live, driver, turn, marred>>
  BY GoOnto, ConfAssumption DEF At, SupCall, LifeInv, SupInv, hubVars, Session, ConfOf
<1>2. /\ call'[c] # Idle /\ call'[c].op = op /\ call'[c].name = n /\ call'[c].conf = ConfOf(s)
      /\ UNCHANGED <<runs, conf, phase>>
      /\ \A b \in Caller \ {c} : call'[b] = call[b]
  BY <1>1, BeginCall, BeginTyped
<1>3. Paths(c) /\ Recalls(c) /\ \A k \in Name \ marred : Told(k)
  BY KnownToks
<1>4. ASSUME NEW k \in Name
      PROVE  Grows(k) /\ runs'[k] = runs[k] /\ Still(k)' = Still(k) /\ Prompt(k)' = Prompt(k)
             /\ Claimed(k)' = Claimed(k)
  BY <1>1, <1>2 DEF Grows, Still, Prompt, Claimed, Talks
<1>5. ASSUME NEW k \in Name \ marred' PROVE Told(k)'
  <2>1. Told(k)
    BY <1>1, <1>3
  <2>2. ASSUME rec[k] # Absent, NEW b \in Caller, Calls(b, k)', call'[b].op # "stop"
        PROVE  Fits(call'[b].conf, k)
    <3>1. CASE b = c
      BY <1>1, <1>2, <2>2, <3>1 DEF Calls
    <3>2. CASE b # c
      BY <1>2, <2>1, <2>2, <3>2 DEF Calls, Told, CallTold
    <3> QED  BY <3>1, <3>2
  <2>3. ASSUME NEW b \in Caller, Switching(b, k) PROVE Switching(b, k)'
    <3>1. CASE b = c
      BY <1>1, <1>2, <2>3, <3>1 DEF Switching, Calls, Asks
    <3>2. CASE b # c
      BY <1>2, <2>3, <3>2 DEF Switching, Calls, Busy
    <3> QED  BY <3>1, <3>2
  <2> QED  BY <1>1, <1>2, <1>4, <2>1, <2>2, <2>3, ToldStays
<1>6. Paths(c)'
  BY <1>1, <1>2, <1>3 DEF Paths, Onto, Asks
<1>7. Recalls(c)'
  <2>1. PICK x \in Name : x = job[c].name
    BY <1>1, BusyTyped DEF LifeInv
  <2>2. PICK k : k = ConfOf(job[c].sess)
    OBVIOUS
  <2>3. ConfOf(job[c].sess)' = k /\ (Fits(k, x) => Fits(k, x)')
    BY <1>1, <2>2 DEF ConfOf, Onto, Fits
  <2>4. ASSUME l = "boot", NEW m \in Name \ marred', m \in job[c].todo
        PROVE  Fits(ConfOf(job[c].all[m]), m)'
    <3>1. PICK y : y = ConfOf(job[c].all[m])
      OBVIOUS
    <3>2. Fits(y, m)
      BY <1>1, <1>3, <2>4, <3>1 DEF Asks, Recalls, BootLabels
    <3>3. job'[c].all = job[c].all
      BY <1>1 DEF Onto
    <3> QED  BY <1>1, <3>1, <3>2, <3>3 DEF ConfOf, Fits
  <2> QED  BY <1>1, <1>2, <1>3, <2>1, <2>2, <2>3, <2>4
              DEF Onto, Asks, Recalls, SessLabels, CutLabels, BootLabels, RestartDead, DeadLabels
<1>8. Hushed(c)'
  <2>1. PICK x \in Name : x = job[c].name
    BY <1>1, BusyTyped DEF LifeInv
  <2>2. \A k \in Name : Still(k) => Still(k)'
    BY <1>4
  <2>3. l # "rewind" /\ l \notin DeadLabels
    BY DEF Asks, DeadLabels
  <2>4. ~Claims(c)'
    BY <1>1, <2>3 DEF Asks, Onto, Claims, RestartDead
  <2>5. \A k \in Name : Hushes(c, k)' => Hushes(c, k)
    BY <1>1, <2>3 DEF Asks, Onto, Hushes, RestartDead
  <2> QED  BY <1>1, <2>1, <2>2, <2>3, <2>4, <2>5, HushOn DEF Onto
<1>9. \A k \in Name : Steady(k)
  BY <1>4 DEF Steady, Hushing
<1> QED  BY <1>1, <1>5, <1>6, <1>7, <1>8, <1>9 DEF Toks

\* What a save makes of the recorded conversation.
SavesToo(c, a, l) ==
  LET n == job[c].name IN
  /\ a \in {"archive.set", "unarchive", "resume"} /\ rec[n] # Absent => rec'[n].token = rec[n].token
  /\ l = "switch.restart" => rec'[n].token = NoToken
  /\ l = "restart.live" /\ rec[n] # Absent => rec'[n].token = CutToken(c)
  /\ l = "rename.failed" => job[c].to \in marred'

\* A verb that writes the rows, of a name that nobody else is about.
LEMMA SaveToks ==
  ASSUME LifeInv, TreeInv, Rest, Tok, NEW c \in Caller, NEW a, NEW l, At(c, a), Onto(c, l),
         UNCHANGED <<supVars, live, driver, socket, turn>>, marred \subseteq marred',
         c # Disp => marred' \subseteq marred \cup {job[c].name},
         Saves(c, a, l), SavesToo(c, a, l), \A b \in Caller \ {c} : job'[b] = job[b]
  PROVE  Toks(c)
<1>0. PICK n \in Name, m \in Name, s \in Session :
        n = job[c].name /\ m = job[c].to /\ s = job[c].sess
  <2>1. a \in LockedLabels \cup FreeLabels
    BY DEF Saves, LockedLabels, FreeLabels
  <2> QED  BY <2>1, AtVerb
<1>1. /\ Busy(c) /\ job[c].at = a /\ call[c] = Idle /\ call'[c] = Idle /\ Busy(c)' /\ job'[c].at = l
      /\ UNCHANGED <<call, runs, conf, phase, live, driver>>
  BY DEF At, supVars, Onto
<1>2. /\ From(c) /\ Knows(c) /\ Paths(c) /\ Recalls(c) /\ Hushed(c)
      /\ \A k \in Name \ marred : Told(k) /\ (Sole(c, k) => BridgeBy(c, k) /\ HostedBy(c, k))
  BY <1>1, Known, KnownToks
<1>3. /\ a \in {"create", "close.remove", "archive.set", "unarchive", "resume", "rename.set", "switch",
               "restart.set"}
      /\ a \in LockedLabels \cup FreeLabels
      /\ l \in {"create.start", "finish", "unarchive.start", "resume.live", "rename.start", "switch.restart",
                "restart.live", "close.failed", "rename.failed"}
  BY DEF Saves, LockedLabels, FreeLabels
<1>4. /\ Touches(c) = {n, m} /\ s # Absent /\ (a \in LockedLabels => c = Disp)
  BY <1>0, <1>3, VerbTouches, AtVerb
<1>5. c # Disp => a \in {"resume", "restart.set"}
  BY <1>1, <1>2, <1>3 DEF From, UnlockedLabels, DeadLabels, BootLabels
<1>6. RecTyped /\ rec \in [Name -> Sessions]
  BY DEF LifeInv, RecTyped
<1>7. CutToken(c) = [vendor |-> s.vendor, conv |-> "cut"] /\ CutToken(c)' = CutToken(c)
  BY <1>0 DEF CutToken, Onto
\* A row that grows.
<1>8. ASSUME NEW k \in Name
      PROVE  runs'[k] = runs[k] /\ Still(k)' = Still(k) /\ Prompt(k)' = Prompt(k) /\ Claimed(k)' = Claimed(k)
  BY <1>1 DEF Still, Prompt, Claimed, Talks
<1>9. ASSUME NEW k \in Name \ marred', Grows(k) PROVE Told(k)'
  <2>1. Told(k)
    BY <1>2
  <2>2. rec[k] # Absent => \A b \in Caller : Calls(b, k)' /\ call'[b].op # "stop" => Fits(call'[b].conf, k)
    BY <1>1, <2>1 DEF Calls, Told, CallTold
  <2>3. \A b \in Caller : Switching(b, k) => Switching(b, k)'
    BY <1>1, <1>3 DEF Switching, Calls, Busy
  <2> QED  BY <1>1, <1>9, <2>1, <2>2, <2>3, ToldStays
\* A row that is replaced.
<1>10. ASSUME NEW k \in Name \ marred', Acts(c, k), Still(k),
              rec'[k] # Absent => RowTold(k)' /\ (runs[k] = NoRun \/ Switching(c, k)')
       PROVE  Told(k)'
  <2>1. TurnRuns(k)'
    <3>1. Told(k)
      BY <1>2
    <3> QED  BY <1>1, <3>1 DEF Told, TurnRuns
  <2>2. \A b \in Caller : ~Calls(b, k)'
    <3>1. \A b \in Caller \ {c} : ~Acts(b, k)
      BY <1>10, OneActs DEF Rest
    <3>2. \A b \in Caller : Calls(b, k) => Acts(b, k)
      BY DEF TreeInv, OwnCalls, Calls, Acts
    <3> QED  BY <1>1, <3>1, <3>2 DEF Calls
  <2>3. TurnTold(k)'
    BY <1>1, <1>10 DEF Still, Talks, TurnTold
  <2>4. rec'[k] # Absent => RunTold(k)'
    BY <1>1, <1>10 DEF RunTold
  <2> QED  BY <1>10, <2>1, <2>2, <2>3, <2>4 DEF Told, CallTold
<1>11. ASSUME NEW k \in Name \ marred', rec'[k] = rec[k] PROVE Told(k)' /\ Grows(k)
  BY <1>9, <1>11 DEF Grows
<1>12. a \in {"archive.set", "unarchive", "resume"} /\ n \notin marred' => Grows(n)
  BY <1>0, <1>6 DEF Saves, SavesToo, RowKept, Grows
<1>13. ASSUME NEW k \in Name \ marred' PROVE Told(k)'
  <2>1. CASE rec'[k] = rec[k]
    BY <1>11, <2>1
  <2>2. CASE a \in {"archive.set", "unarchive", "resume"} /\ k = n
    BY <1>9, <1>12, <2>2
  <2>3. CASE a = "close.remove" /\ k = n
    <3>1. rec'[k] = Absent
      BY <1>0, <1>6, <1>13, <2>3 DEF Saves
    <3>2. TurnRuns(k)'
      <4>1. Told(k)
        BY <1>2
      <4> QED  BY <1>1, <4>1 DEF Told, TurnRuns
    <3> QED  BY <3>1, <3>2 DEF Told
  <2>4. CASE a = "create" /\ k = n
    <3>1. Acts(c, k) /\ Still(k)
      BY <1>0, <1>1, <1>2, <1>4, <2>4 DEF Acts, Hushed, Hushes
    <3>2. Sole(c, k)
      BY <3>1, OneActs DEF Sole, Rest
    <3>3. runs[k] = NoRun
      BY <1>0, <1>1, <1>2, <1>5, <2>4, <3>2 DEF Knows, BridgeBy
    <3>4. rec'[k] = s /\ s.token = NoToken
      BY <1>0, <1>1, <1>2, <1>6, <1>13, <2>4 DEF Saves, Recalls
    <3>5. RowTold(k)'
      BY <3>4 DEF RowTold
    <3> QED  BY <1>10, <3>1, <3>3, <3>5
  <2>5. CASE a = "rename.set" /\ k = m /\ rec'[k] # rec[k]
    <3>1. Acts(c, k) /\ Still(k)
      BY <1>0, <1>1, <1>2, <1>4, <2>5 DEF Acts, Hushed, Hushes
    <3>2. Sole(c, k)
      BY <3>1, OneActs DEF Sole, Rest
    <3>3. runs[k] = NoRun
      BY <1>0, <1>1, <1>2, <1>5, <2>5, <3>2 DEF Knows, BridgeBy
    <3>4. rec'[k] = Absent \/ rec'[k] = rec[n]
      BY <1>0, <1>6, <1>13, <2>5 DEF Saves
    <3>5. n \notin marred
      BY <1>0, <1>1, <1>2, <2>5 DEF Recalls
    <3>6. Told(n)
      BY <1>2, <3>5
    <3>7. rec'[k] # Absent => RowTold(k)'
      BY <3>4, <3>6 DEF Told, RowTold
    <3> QED  BY <1>10, <3>1, <3>3, <3>7
  <2>6. CASE a = "rename.set" /\ k = n /\ k # m
    <3>1. rec'[k] = Absent
      BY <1>0, <1>6, <1>13, <2>6 DEF Saves
    <3>2. TurnRuns(k)'
      <4>1. Told(k)
        BY <1>2
      <4> QED  BY <1>1, <4>1 DEF Told, TurnRuns
    <3> QED  BY <3>1, <3>2 DEF Told
  <2>7. CASE a = "switch" /\ k = n
    <3>1. Acts(c, k) /\ Still(k)
      BY <1>0, <1>1, <1>2, <1>4, <2>7 DEF Acts, Hushed, Hushes, Paths
    <3>2. l = "switch.restart"
      BY <1>0, <1>13, <2>7 DEF Saves
    <3>3. Switching(c, k)' /\ rec'[k].token = NoToken
      BY <1>0, <1>1, <2>7, <3>2 DEF Switching, Onto, SavesToo
    <3> QED  BY <1>10, <3>1, <3>3 DEF RowTold
  <2>8. CASE a = "restart.set" /\ k = n
    <3>1. Acts(c, k) /\ Still(k)
      BY <1>0, <1>1, <1>2, <1>4, <2>8 DEF Acts, Hushed, Hushes
    <3>2. runs[k] = NoRun
      BY <1>0, <1>1, <1>2, <2>8 DEF Recalls
    <3>3. /\ l = "restart.live" /\ RowKept(n) /\ rec[n] # Absent /\ rec[n].vendor = s.vendor
          /\ rec'[n].token = CutToken(c)
      BY <1>0, <1>1, <1>2, <1>13, <2>8 DEF Saves, SavesToo, Knows, RowLabels, SameVendor
    <3>4. RowTold(k)'
      BY <1>7, <2>8, <3>3 DEF RowTold, RowKept
    <3> QED  BY <1>10, <3>1, <3>2, <3>4
  <2>9. rec'[k] = rec[k] \/ k = n \/ (k = m /\ a = "rename.set")
    BY <1>0, <1>6, <1>13 DEF Saves, RowKept
  <2> QED  BY <1>3, <2>1, <2>2, <2>3, <2>4, <2>5, <2>6, <2>7, <2>8, <2>9
<1>14. Paths(c)'
  <2>1. l = "switch.restart" => a = "switch"
    BY DEF Saves
  <2> QED  BY <1>1, <1>2, <1>3, <2>1 DEF Paths, Onto
<1>15. Recalls(c)'
  <2> DEFINE k == ConfOf(s)
  <2>0. k.vendor = s.vendor /\ k.token = s.token /\ ConfOf(job[c].sess)' = k
    BY <1>0 DEF ConfOf, Onto
  <2> HIDE DEF k
  <2>1. l = "create.start" /\ n \notin marred' => Fits(k, n)'
    BY <1>0, <1>1, <1>2, <1>4, <1>6, <2>0 DEF Saves, Recalls, Fits
  <2>2. l \in {"unarchive.start", "resume.live"} /\ n \notin marred' => Fits(k, n)'
    <3>1. SUFFICES ASSUME l \in {"unarchive.start", "resume.live"}, n \notin marred' PROVE Fits(k, n)'
      OBVIOUS
    <3>2. a \in {"unarchive", "resume"}
      BY <3>1 DEF Saves
    <3>3. Fits(k, n)
      BY <1>0, <1>1, <1>2, <3>1, <3>2 DEF Recalls, SessLabels, k
    <3> QED  BY <1>6, <1>12, <3>1, <3>2, <3>3, FitsOn
  <2>3. l = "rename.start" /\ m \notin marred' => Fits(k, m)'
    <3>1. SUFFICES ASSUME l = "rename.start", m \notin marred' PROVE Fits(k, m)'
      OBVIOUS
    <3>2. a = "rename.set" /\ rec' = [rec EXCEPT ![m] = rec[n], ![n] = Absent]
      BY <1>0, <3>1 DEF Saves
    <3>3. n \notin marred /\ Fits(k, n)
      BY <1>0, <1>1, <1>2, <3>1, <3>2 DEF Recalls, SessLabels, k
    <3>4. rec[m] = Absent
      BY <1>0, <1>1, <1>2, <1>5, <3>2 DEF Knows
    <3>5. rec'[m] = rec[n]
      BY <1>6, <3>2, <3>3, <3>4 DEF Fits
    <3> QED  BY <3>3, <3>5 DEF Fits
  <2>4. l = "restart.live" /\ n \notin marred' => rec'[n].token = CutToken(c) /\ runs'[n] = NoRun
    <3>1. SUFFICES ASSUME l = "restart.live", n \notin marred' PROVE rec'[n].token = CutToken(c) /\ runs[n] = NoRun
      BY <1>1
    <3>2. a = "restart.set"
      BY <3>1 DEF Saves
    <3> QED  BY <1>0, <1>1, <1>2, <3>1, <3>2 DEF SavesToo, Knows, RowLabels, SameVendor, Recalls
  <2> QED  BY <1>0, <1>1, <1>3, <1>7, <2>0, <2>1, <2>2, <2>3, <2>4
              DEF Onto, Recalls, SessLabels, CutLabels, BootLabels, RestartDead, DeadLabels
<1>16. Hushed(c)'
  <2>1. l # "rewind" /\ l \notin DeadLabels
    BY <1>3 DEF DeadLabels
  <2>2. ~Claims(c)' /\ \A k \in Name : Hushes(c, k)' => Hushes(c, k)
    BY <1>1, <1>3, <2>1 DEF Onto, Claims, Hushes, RestartDead
  <2>3. \A k \in Name : Still(k) => Still(k)'
    BY <1>8
  <2> QED  BY <1>0, <1>1, <2>1, <2>2, <2>3, HushOn DEF Onto
<1>17. ASSUME NEW k \in Name \ marred', ~Acts(c, k) PROVE Steady(k)
  <2>1. rec'[k] = rec[k]
    BY <1>0, <1>1, <1>4, <1>5, <1>17 DEF Saves, RowKept, Acts
  <2> QED  BY <1>8, <1>11, <2>1 DEF Steady, Hushing
<1>18. c # Disp => marred' \subseteq marred \cup Touches(c)
  BY <1>0, <1>4
<1> QED  BY <1>13, <1>14, <1>15, <1>16, <1>17, <1>18 DEF Toks

\* A step of a call into the supervisor.
LEMMA CalledToks ==
  ASSUME LifeInv, TreeInv, Rest, Tok, NEW c \in Caller, CallerStep(c), UNCHANGED <<hubVars, job>>
  PROVE  Toks(c)
<1>1. /\ call[c] # Idle /\ Busy(c) /\ SupInv /\ TypeOK
      /\ UNCHANGED <<rec, live, driver, turn, marred, job>>
  BY DEF CallerStep, TreeInv, OwnCalls, LifeInv, SupInv, hubVars
<1>2. PICK n \in Name : n = call[c].name
  BY <1>1, Callers DEF SupInv
<1>3. /\ CallDoes(c, n)
      /\ \A k \in Name \ {n} :
           /\ runs'[k] = runs[k]
           /\ runs[k] # NoRun => conf'[runs[k]] = conf[runs[k]]
      /\ call'[c] # Idle => /\ call'[c].name = n /\ (call'[c].op = "stop" <=> call[c].op = "stop")
                            /\ call'[c].op = "restart" => call[c].op = "restart"
      /\ \A r \in Run : phase[r] # "unused" => phase'[r] # "unused" /\ conf'[r] = conf[r]
  BY <1>1, <1>2, CallEffect, CallKeepsRuns
<1>4. \A b \in Caller \ {c} : call'[b] = call[b]
  BY <1>1 DEF CallerStep, Launch, FindRunning, StopNothing, StopRun, Waited, AfterStop, Return, WaitFor,
     ToStart, TypeOK
<1>5. /\ From(c) /\ OwnCalls(c) /\ OwnWork(c) /\ Paths(c) /\ Recalls(c) /\ Hushed(c)
      /\ \A k \in Name \ marred : Told(k) /\ (Sole(c, k) => BridgeBy(c, k))
  BY <1>1, Known, KnownToks
<1>6. Acts(c, n)
  BY <1>1, <1>2, <1>5 DEF Acts, OwnCalls
<1>7. n \notin marred => Sole(c, n) /\ BridgeBy(c, n)
  <2>1. n \notin marred => Sole(c, n)
    BY <1>6, OneActs DEF Sole, Rest
  <2> QED  BY <1>5, <2>1
<1>8. call[c].op \in {"start", "stop", "restart"} /\ Calls(c, n)
  BY <1>1, <1>2, Callers DEF SupInv, Call, Calls
<1>9. \A k \in Name : Grows(k) /\ Hushing(k)
  BY <1>1 DEF Grows, Hushing, Still, Prompt, Claimed, Talks
<1>10. ASSUME NEW k \in Name, NEW b \in Caller, Switching(b, k), b # c \/ k # n \/ job[c].at = "switch.restart"
       PROVE  Switching(b, k)'
  BY <1>1, <1>2, <1>4, <1>5, <1>8, <1>10 DEF Switching, Calls, Busy, From
<1>11. ASSUME NEW k \in Name \ marred, k # n PROVE Told(k)'
  <2>1. Told(k)
    BY <1>5, <1>11
  <2>2. ASSUME rec[k] # Absent, NEW b \in Caller, Calls(b, k)', call'[b].op # "stop"
        PROVE  Fits(call'[b].conf, k)
    BY <1>2, <1>3, <1>4, <1>11, <2>1, <2>2 DEF Calls, Told, CallTold
  <2> QED  BY <1>1, <1>3, <1>9, <1>10, <1>11, <2>1, <2>2, ToldStays
<1>12. ASSUME n \notin marred PROVE Told(n)'
  <2>1. Told(n) /\ BridgeBy(c, n)
    BY <1>5, <1>7, <1>12
  <2>2. ASSUME rec[n] # Absent, NEW b \in Caller, Calls(b, n)', call'[b].op # "stop"
        PROVE  Fits(call'[b].conf, n)
    <3>1. CASE b = c
      <4>1. call'[c].conf = call[c].conf
        BY <1>3, <1>8, <2>1, <2>2, <3>1 DEF CallDoes, BridgeBy, Calls
      <4>2. call[c].op # "stop"
        BY <1>3, <2>2, <3>1 DEF Calls
      <4>3. Fits(call[c].conf, n)
        BY <1>8, <2>1, <2>2, <4>2 DEF Told, CallTold
      <4> QED  BY <3>1, <4>1, <4>3
    <3>2. CASE b # c
      BY <1>4, <2>1, <2>2, <3>2 DEF Calls, Told, CallTold
    <3> QED  BY <3>1, <3>2
  <2>3. ASSUME rec[n] # Absent PROVE RunTold(n)'
    <3>1. CASE runs'[n] = NoRun
      BY <3>1 DEF RunTold
    <3>2. CASE call[c].op = "start" /\ conf'[runs'[n]] = call[c].conf
      <4>1. PICK k : k = call[c].conf
        OBVIOUS
      <4>2. Fits(k, n)
        BY <1>8, <2>1, <2>3, <3>2, <4>1 DEF Told, CallTold
      <4> QED  BY <1>1, <3>2, <4>1, <4>2 DEF RunTold, Fits
    <3>3. CASE /\ runs[n] # NoRun /\ runs'[n] = runs[n] /\ conf'[runs[n]] = conf[runs[n]]
               /\ call[c].op \in {"stop", "restart"} => call'[c] # Idle /\ call'[c].op = call[c].op
      <4>1. PICK k : k = conf[runs[n]]
        OBVIOUS
      <4>2. CASE Fits(k, n)
        BY <1>1, <3>3, <4>1, <4>2 DEF RunTold, Fits
      <4>3. ASSUME NEW b \in Caller, Switching(b, n) PROVE Switching(b, n)'
        <5>1. CASE b # c \/ job[c].at = "switch.restart"
          BY <1>10, <4>3, <5>1
        <5>2. CASE b = c /\ job[c].at # "switch.restart"
          BY <1>3, <1>8, <3>3, <4>3, <5>2 DEF Switching, Calls
        <5> QED  BY <5>1, <5>2
      <4> QED  BY <2>1, <2>3, <3>3, <4>1, <4>2, <4>3 DEF Told, RunTold
    <3> QED  BY <1>3, <1>8, <2>1, <3>1, <3>2, <3>3 DEF CallDoes, BridgeBy
  <2> QED  BY <1>1, <1>3, <1>9, <2>1, <2>2, <2>3, ToldOn
<1>13. Paths(c)'
  BY <1>1, <1>2, <1>3, <1>5 DEF Paths, Busy
<1>14. Recalls(c)'
  <2>1. job[c].at \notin CutLabels \cup {"restart.set"}
    BY <1>1, <1>5 DEF From, CutLabels
  <2>2. ASSUME RestartDead(c), call'[c] = Idle, job[c].name \notin marred PROVE runs'[job[c].name] = NoRun
    <3>1. call[c].op = "stop" /\ n = job[c].name
      BY <1>1, <1>2, <1>5, <2>2 DEF From, RestartDead, DeadLabels
    <3> QED  BY <1>3, <1>7, <1>8, <2>2, <3>1 DEF CallDoes, BridgeBy
  <2>3. \A k, m : Fits(k, m)' = Fits(k, m)
    BY <1>1 DEF Fits
  <2> QED  BY <1>1, <1>5, <2>1, <2>2 DEF Recalls, RestartDead, Busy, Fits, ConfOf, CutLabels
<1>15. Hushed(c)'
  BY <1>1, <1>5 DEF Hushed, Hushes, Still, Prompt, Talks, Claims, Claimed, RestartDead, Busy
<1>16. ASSUME NEW k \in Name \ marred', ~Acts(c, k) PROVE Steady(k)
  BY <1>3, <1>6, <1>9, <1>16 DEF Steady
<1> QED  BY <1>1, <1>11, <1>12, <1>13, <1>14, <1>15, <1>16 DEF Toks

-----------------------------------------------------------------------------
(* The steps of a caller, one by one. *)

\* What a step of c does.
Both(c) == Rests(c) /\ Toks(c)

\* A write of the rows, made or failed.
LEMMA Written ==
  ASSUME LifeInv, NEW c \in Caller, Busy(c), NEW new, NEW names, NEW l,
         Write(c, new, names, l) \/ WriteIfChanged(c, new, names, l)
  PROVE  /\ rec' = new /\ UNCHANGED <<supVars, live, driver, socket, turn>>
         /\ marred \subseteq marred' /\ marred' \subseteq marred \cup names
         /\ Onto(c, l) \/ (Onto(c, "finish") /\ names \subseteq marred')
<1>1. /\ rec' = new /\ UNCHANGED <<supVars, live, driver, socket, turn>>
      /\ marred \subseteq marred' /\ marred' \subseteq marred \cup names
      /\ Go(c, l) \/ (Fail(c) /\ names \subseteq marred')
  BY DEF Write, WriteIfChanged, SaveWorks, SaveFails, Unchanged
<1> QED  BY <1>1, GoOnto DEF LifeInv

\* The setters change one field of one row.
LEMMA SetOne ==
  ASSUME RecTyped, NEW n \in Name, NEW b \in BOOLEAN, NEW t \in Token
  PROVE  /\ rec' = SetArchived(n, b) => 
              RowKept(n) /\ (rec[n] # Absent => rec'[n].archived = b /\ rec'[n].token = rec[n].token)
         /\ rec' = SetResumeToken(n, t) =>
              RowKept(n) /\ (rec[n] # Absent => rec'[n].archived = rec[n].archived /\ rec'[n].token = t)
<1> DEFINE r == rec[n]
<1>1. CASE ~Recorded(n)
  BY <1>1 DEF SetArchived, SetResumeToken, Recorded, RowKept
<1>2. CASE Recorded(n)
  <2>1. r \in Session
    BY <1>2, RowOrAbsent DEF Recorded, RecTyped
  <2> DEFINE x == [r EXCEPT !.archived = b]
             y == [r EXCEPT !.token = t]
  <2>2. /\ x \in Session /\ y \in Session /\ x.vendor = r.vendor /\ y.vendor = r.vendor
        /\ x.archived = b /\ y.archived = r.archived /\ x.token = r.token /\ y.token = t
    <3> HIDE DEF r
    <3> QED  BY <2>1 DEF Session
  <2>3. SetArchived(n, b) = [rec EXCEPT ![n] = x] /\ SetResumeToken(n, t) = [rec EXCEPT ![n] = y]
    BY <1>2 DEF SetArchived, SetResumeToken
  <2>4. x # Absent /\ y # Absent
    BY <2>2, DriverAssumption
  <2> HIDE DEF x, y
  <2> QED  BY <1>2, <2>2, <2>3, <2>4 DEF RecTyped, RowKept, Recorded
<1> QED  BY <1>1, <1>2

\* A save of a verb that failed.
LEMMA FailedSave ==
  ASSUME LifeInv, NEW c \in Caller, NEW names, job[c].name \in names,
         names \subseteq marred', \A k \in Name \ names : rec'[k] = rec[k],
         NEW a \in {"create", "archive.set", "unarchive", "resume", "switch", "restart.set"},
         a \in {"resume", "restart.set"} => RowKept(job[c].name)
  PROVE  Saves(c, a, "finish")
BY DEF Saves

\* What a verb calls the supervisor with.
LEMMA Backend ==
  ASSUME LifeInv, TreeInv, Rest, Tok, NEW c \in Caller,
         NEW a \in {"create.start", "close.tree", "unarchive.start", "resume.start", "rename.start"},
         At(c, a), NEW n, n = IF a = "rename.start" THEN job[c].to ELSE job[c].name
  PROVE  n \in marred \/ Fits(ConfOf(job[c].sess), n)
<1>1. Recalls(c) /\ Busy(c) /\ job[c].at = a
  BY KnownToks DEF At
<1> QED  BY <1>1 DEF Recalls, SessLabels

\* A call for a bridge, or for its end.
LEMMA CallBoth ==
  ASSUME LifeInv, TreeInv, Rest, Tok, NEW c \in Caller, \A b \in Caller \ {c} : job'[b] = job[b],
         NEW a, At(c, a), NEW op \in {"start", "stop", "restart"}, NEW n \in Name, NEW s \in Session,
         NEW l, SupCall(c, op, n, s, l), Asks(c, a, op, n, l),
         op = "stop" \/ n \in marred \/ Fits(ConfOf(s), n)
  PROVE  Both(c)
<1>1. op = "stop" \/ n \in marred \/ SameVendor(n, s)
  BY DEF Fits, ConfOf, SameVendor
<1> QED  BY <1>1, CallRests, CallToks DEF Both

\* A write of the rows.
LEMMA SaveBoth ==
  ASSUME LifeInv, TreeInv, Rest, Tok, NEW c \in Caller, \A b \in Caller \ {c} : job'[b] = job[b],
         NEW a, NEW l, At(c, a), Onto(c, l), UNCHANGED <<supVars, live, driver, socket, turn>>,
         marred \subseteq marred', c # Disp => marred' \subseteq marred \cup {job[c].name},
         Saves(c, a, l), SavesToo(c, a, l)
  PROVE  Both(c)
BY SaveRests, SaveToks DEF Both

\* The verbs, one by one.
LEMMA VerbBoth ==
  ASSUME LifeInv, TreeInv, Rest, Tok, NEW c \in Caller, \A b \in Caller \ {c} : job'[b] = job[b],
         Create(c) \/ Close(c) \/ Archive(c) \/ Unarchive(c) \/ Rename(c) \/ Switch(c)
  PROVE  Both(c)
<1>0. Busy(c) /\ From(c) /\ Knows(c) /\ RecTyped /\ SwitchInv
  BY Known DEF Create, Close, Archive, Unarchive, Rename, Switch, At, LifeInv
<1>1. PICK n \in Name, m \in Name, s \in Session :
        n = job[c].name /\ m = job[c].to /\ s = job[c].sess
  <2>1. \E a \in LockedLabels \cup FreeLabels : At(c, a)
    BY DEF Create, Close, Archive, Unarchive, Rename, Switch, LockedLabels, FreeLabels
  <2> QED  BY <2>1, VerbTouches
\* The calls.
<1>2. ASSUME NEW a, At(c, a), NEW op \in {"start", "stop", "restart"}, NEW k \in Name, NEW x \in Session,
             NEW l, SupCall(c, op, k, x, l), Asks(c, a, op, k, l),
             op = "stop" \/ k \in marred \/ Fits(ConfOf(x), k)
      PROVE  Both(c)
  BY <1>2, CallBoth
<1>3. ASSUME NEW a \in {"create.start", "close.tree", "unarchive.start"}, At(c, a),
             SupCall(c, "start", n, s, "finish")
      PROVE  Both(c)
  BY <1>1, <1>2, <1>3, Backend DEF Asks
<1>4. ASSUME NEW a \in {"close.failed", "rename.failed"}, At(c, a), SupCall(c, "start", n, s, "finish")
      PROVE  Both(c)
  <2>1. n \in marred
    BY <1>0, <1>1, <1>4 DEF From, At
  <2> QED  BY <1>1, <1>2, <1>4, <2>1 DEF Asks
<1>5. ASSUME At(c, "rename.start"), SupCall(c, "start", m, s, "finish") PROVE Both(c)
  BY <1>1, <1>2, <1>5, Backend DEF Asks
<1>6. ASSUME NEW a, NEW l,
             <<a, l>> \in {<<"close", "close.tree">>, <<"archive", "archive.set">>,
                           <<"rename", "rename.set">>},
             At(c, a), SupCall(c, "stop", n, s, l)
      PROVE  Both(c)
  BY <1>1, <1>2, <1>6 DEF Asks
<1>7. ASSUME At(c, "switch.restart"), SupCall(c, "restart", n, rec[n], "finish") PROVE Both(c)
  <2>1. rec[n] \in Session /\ rec[n] # Absent
    BY <1>0, <1>1, <1>7, RowOrAbsent DEF SwitchInv, Recorded, RecTyped, At
  <2>2. Fits(ConfOf(rec[n]), n)
    BY <2>1 DEF Fits, ConfOf
  <2> QED  BY <1>1, <1>2, <1>7, <2>1, <2>2 DEF Asks
\* The saves.
<1>8. ASSUME NEW a, NEW l, At(c, a), Onto(c, l), UNCHANGED <<supVars, live, driver, socket, turn>>,
             marred \subseteq marred', c # Disp => marred' \subseteq marred \cup {n},
             Saves(c, a, l), SavesToo(c, a, l)
      PROVE  Both(c)
  BY <1>1, <1>8, SaveBoth
<1>9. CASE Create(c)
  <2>1. CASE At(c, "create") /\ Write(c, [rec EXCEPT ![n] = s], {n}, "create.start")
    <3>1. /\ rec' = [rec EXCEPT ![n] = s] /\ UNCHANGED <<supVars, live, driver, socket, turn>>
          /\ marred \subseteq marred' /\ marred' \subseteq marred \cup {n}
          /\ Onto(c, "create.start") \/ (Onto(c, "finish") /\ {n} \subseteq marred')
      BY <1>0, <2>1, Written
    <3>2. Saves(c, "create", "create.start")
      BY <1>1, <3>1 DEF Saves
    <3>3. {n} \subseteq marred' => Saves(c, "create", "finish")
      BY <1>0, <1>1, <3>1, FailedSave DEF RecTyped
    <3>4. SavesToo(c, "create", "create.start") /\ SavesToo(c, "create", "finish")
      BY DEF SavesToo
    <3> QED  BY <1>8, <2>1, <3>1, <3>2, <3>3, <3>4
  <2> QED  BY <1>1, <1>3, <1>9, <2>1 DEF Create
<1>10. CASE Close(c)
  <2>1. CASE At(c, "close.tree") /\ Go(c, "close.remove") /\ UNCHANGED <<supVars, hubVars>>
    BY <1>0, <2>1, GoOnto, MoveRests, MoveToks DEF LifeInv, hubVars, Both
  <2>2. CASE At(c, "close.remove") /\ SaveWorks([rec EXCEPT ![n] = Absent]) /\ Go(c, "finish")
             /\ UNCHANGED <<supVars, live, driver, turn, socket>>
    <3>1. Onto(c, "finish") /\ Saves(c, "close.remove", "finish") /\ marred' = marred
      BY <1>0, <1>1, <2>2, GoOnto DEF LifeInv, SaveWorks, Saves
    <3>2. SavesToo(c, "close.remove", "finish")
      BY DEF SavesToo
    <3> QED  BY <1>8, <2>2, <3>1, <3>2
  <2>3. CASE At(c, "close.remove") /\ SaveFails([rec EXCEPT ![n] = Absent], {n}) /\ Go(c, "close.failed")
             /\ UNCHANGED <<supVars, live, driver, turn, socket>>
    <3>1. Onto(c, "close.failed") /\ marred' = marred \cup {n}
      BY <1>0, <2>3, GoOnto DEF LifeInv, SaveFails
    <3>2. \A k \in Name \ marred' : rec'[k] = rec[k]
      BY <1>0, <2>3, <3>1 DEF SaveFails, RecTyped
    <3>3. Saves(c, "close.remove", "close.failed")
      BY <1>1, <3>1, <3>2 DEF Saves
    <3>4. SavesToo(c, "close.remove", "close.failed")
      BY DEF SavesToo
    <3> QED  BY <1>8, <2>3, <3>1, <3>3, <3>4
  <2> QED  BY <1>1, <1>3, <1>4, <1>6, <1>10, <2>1, <2>2, <2>3 DEF Close
<1>11. CASE Archive(c) \/ Unarchive(c)
  <2>0. ASSUME NEW b \in BOOLEAN, rec' = SetArchived(n, b)
        PROVE  /\ RowKept(n) /\ \A k \in Name \ {n} : rec'[k] = rec[k]
               /\ rec[n] # Absent => rec'[n].archived = b /\ rec'[n].token = rec[n].token
    BY <1>0, <2>0, SetOne DEF Token, RowKept
  <2>1. CASE At(c, "archive.set") /\ WriteIfChanged(c, SetArchived(n, TRUE), {n}, "finish")
    <3>1. /\ rec' = SetArchived(n, TRUE) /\ UNCHANGED <<supVars, live, driver, socket, turn>>
          /\ marred \subseteq marred' /\ marred' \subseteq marred \cup {n} /\ Onto(c, "finish")
      BY <1>0, <2>1, Written
    <3>2. Saves(c, "archive.set", "finish")
      BY <1>1, <2>0, <3>1 DEF Saves
    <3>3. SavesToo(c, "archive.set", "finish")
      BY <1>1, <2>0, <3>1 DEF SavesToo
    <3> QED  BY <1>8, <2>1, <3>1, <3>2, <3>3
  <2>2. CASE At(c, "unarchive") /\ WriteIfChanged(c, SetArchived(n, FALSE), {n}, "unarchive.start")
    <3>1. /\ rec' = SetArchived(n, FALSE) /\ UNCHANGED <<supVars, live, driver, socket, turn>>
          /\ marred \subseteq marred' /\ marred' \subseteq marred \cup {n}
          /\ Onto(c, "unarchive.start") \/ (Onto(c, "finish") /\ {n} \subseteq marred')
      BY <1>0, <2>2, Written
    <3>2. Saves(c, "unarchive", "unarchive.start")
      BY <1>1, <2>0, <3>1 DEF Saves
    <3>3. {n} \subseteq marred' => Saves(c, "unarchive", "finish")
      BY <1>1, <2>0, <3>1, FailedSave
    <3>4. SavesToo(c, "unarchive", "unarchive.start") /\ SavesToo(c, "unarchive", "finish")
      BY <1>1, <2>0, <3>1 DEF SavesToo
    <3> QED  BY <1>8, <2>2, <3>1, <3>2, <3>3, <3>4
  <2>3. At(c, "archive") /\ SupCall(c, "stop", n, s, "archive.set") => Both(c)
    BY <1>6
  <2>4. At(c, "unarchive.start") /\ SupCall(c, "start", n, s, "finish") => Both(c)
    BY <1>3
  <2> QED  BY <1>1, <1>11, <2>1, <2>2, <2>3, <2>4 DEF Archive, Unarchive
<1>12. CASE Rename(c)
  <2> DEFINE new == [rec EXCEPT ![m] = rec[n], ![n] = Absent]
  <2>1. CASE At(c, "rename.set") /\ SaveWorks(new) /\ Go(c, "rename.start")
             /\ UNCHANGED <<supVars, live, driver, turn, socket>>
    <3>1. Onto(c, "rename.start") /\ Saves(c, "rename.set", "rename.start") /\ marred' = marred
      BY <1>0, <1>1, <2>1, GoOnto DEF LifeInv, SaveWorks, Saves
    <3>2. SavesToo(c, "rename.set", "rename.start")
      BY DEF SavesToo
    <3> QED  BY <1>8, <2>1, <3>1, <3>2
  <2>2. CASE At(c, "rename.set") /\ SaveFails(new, {n, m}) /\ Go(c, "rename.failed")
             /\ UNCHANGED <<supVars, live, driver, turn, socket>>
    <3>1. Onto(c, "rename.failed") /\ marred' = marred \cup {n, m}
      BY <1>0, <2>2, GoOnto DEF LifeInv, SaveFails
    <3>2. \A k \in Name \ marred' : rec'[k] = rec[k]
      BY <1>0, <2>2, <3>1 DEF SaveFails, RecTyped
    <3>3. Saves(c, "rename.set", "rename.failed")
      BY <1>1, <3>1, <3>2 DEF Saves
    <3>4. SavesToo(c, "rename.set", "rename.failed") /\ c = Disp
      BY <1>0, <1>1, <2>2, <3>1 DEF SavesToo, From, At, UnlockedLabels, DeadLabels, BootLabels
    <3> QED  BY <1>8, <2>2, <3>1, <3>3, <3>4
  <2> QED  BY <1>1, <1>4, <1>5, <1>6, <1>12, <2>1, <2>2 DEF Rename
<1>13. CASE Switch(c)
  <2> DEFINE new == [rec EXCEPT ![n].vendor = s.vendor, ![n].token = NoToken]
  <2>1. CASE At(c, "switch") /\ Write(c, new, {n}, "switch.restart")
    <3>1. /\ rec' = new /\ UNCHANGED <<supVars, live, driver, socket, turn>>
          /\ marred \subseteq marred' /\ marred' \subseteq marred \cup {n}
          /\ Onto(c, "switch.restart") \/ (Onto(c, "finish") /\ {n} \subseteq marred')
      BY <1>0, <2>1, Written
    <3>2. /\ \A k \in Name \ {n} : rec'[k] = rec[k]
          /\ rec[n] # Absent /\ rec'[n] # Absent /\ rec'[n].archived = rec[n].archived
          /\ rec'[n].token = NoToken
      <4> DEFINE r == rec[n]
                 x == [r EXCEPT !.vendor = s.vendor, !.token = NoToken]
      <4>1. r \in Session /\ r # Absent
        BY <1>0, <1>1, <2>1, RowOrAbsent DEF SwitchInv, Recorded, RecTyped, At
      <4>2. x \in Session /\ x.archived = r.archived /\ x.token = NoToken
        <5>1. s.vendor \in Vendor /\ NoToken \in Token
          BY DEF Session, Token
        <5> HIDE DEF r
        <5> QED  BY <4>1, <5>1 DEF Session
      <4>3. rec' = [rec EXCEPT ![n] = x]
        BY <1>0, <3>1 DEF RecTyped
      <4> HIDE DEF x
      <4> QED  BY <1>0, <4>1, <4>2, <4>3, DriverAssumption DEF RecTyped
    <3>3. Saves(c, "switch", "switch.restart")
      BY <1>1, <3>2 DEF Saves
    <3>4. {n} \subseteq marred' => Saves(c, "switch", "finish")
      BY <1>1, <3>2, FailedSave
    <3>5. SavesToo(c, "switch", "switch.restart") /\ SavesToo(c, "switch", "finish")
      BY <1>1, <3>2 DEF SavesToo
    <3> QED  BY <1>8, <2>1, <3>1, <3>3, <3>4, <3>5
  <2> QED  BY <1>1, <1>7, <1>13, <2>1 DEF Switch
<1> QED  BY <1>9, <1>10, <1>11, <1>12, <1>13

LEMMA RewindBoth ==
  ASSUME LifeInv, TreeInv, Rest, Tok, NEW c \in Caller, \A b \in Caller \ {c} : job'[b] = job[b],
         Rewind(c) \/ RewindBusy(c)
  PROVE  Both(c)
<1> DEFINE j == job[c]
           d == live[j.name]
           k == [j EXCEPT !.at = "restart", !.claim = d]
<1>0. At(c, "rewind") /\ Busy(c) /\ UNCHANGED <<supVars, rec, live, driver, socket, marred>>
  BY DEF Rewind, RewindBusy, At, hubVars
<1>1. CASE Rewind(c)
  <2>1. j \in JobType
    BY <1>0, BusyTyped DEF LifeInv
  <2>2. job' = [job EXCEPT ![c] = k]
    BY <1>1 DEF Rewind
  <2>3. /\ k.at = "restart" /\ k.verb = j.verb /\ k.name = j.name /\ k.to = j.to /\ k.sess = j.sess
        /\ k.todo = j.todo /\ k.cur = j.cur /\ k.ret = j.ret /\ k.all = j.all /\ k.drv = j.drv
    <3> HIDE DEF j, d
    <3> QED  BY <2>1 DEF JobType
  <2> HIDE DEF k
  <2>4. Keeps(c) /\ job'[c] = k
    BY <1>0, <2>2, <2>3, KeepsFields DEF LifeInv
  <2>5. Onto(c, "restart")
    BY <2>3, <2>4 DEF Onto, Keeps
  <2> QED  BY <1>0, <1>1, <2>5, MoveRests, ClaimToks DEF Both
<1>2. CASE RewindBusy(c)
  BY <1>0, <1>2, GoOnto, MoveRests, MoveToks DEF RewindBusy, LifeInv, hubVars, Both
<1> QED  BY <1>1, <1>2

LEMMA RestartBoth ==
  ASSUME LifeInv, TreeInv, Rest, Tok, NEW c \in Caller, \A b \in Caller \ {c} : job'[b] = job[b], Restart(c)
  PROVE  Both(c)
<1>0. Busy(c) /\ RecTyped
  BY DEF Restart, At, LifeInv
<1>1. PICK n \in Name, s \in Session : n = job[c].name /\ s = job[c].sess
  <2>1. \E a \in LockedLabels \cup FreeLabels : At(c, a)
    BY DEF Restart, LockedLabels, FreeLabels
  <2> QED  BY <2>1, VerbTouches
<1>2. PICK t \in Token : t = CutToken(c)
  BY <1>1 DEF CutToken, Token, Session
<1>3. CASE At(c, "restart") /\ GoDead(c, n, "restart.set") /\ UNCHANGED hubVars
  BY <1>1, <1>3, GoDeadRests, GoDeadToks DEF Both
<1>4. CASE At(c, "restart.set") /\ WriteIfChanged(c, SetResumeToken(n, t), {n}, "restart.live")
  <2>1. /\ rec' = SetResumeToken(n, t) /\ UNCHANGED <<supVars, live, driver, socket, turn>>
        /\ marred \subseteq marred' /\ marred' \subseteq marred \cup {n}
        /\ Onto(c, "restart.live") \/ (Onto(c, "finish") /\ {n} \subseteq marred')
    BY <1>0, <1>4, Written
  <2>2. RowKept(n) /\ (rec[n] # Absent => rec'[n].archived = rec[n].archived /\ rec'[n].token = t)
    BY <1>0, <2>1, SetOne
  <2>3. Saves(c, "restart.set", "restart.live")
    BY <1>1, <2>2 DEF Saves
  <2>4. {n} \subseteq marred' => Saves(c, "restart.set", "finish")
    BY <1>1, <2>2, FailedSave DEF RowKept
  <2>5. SavesToo(c, "restart.set", "restart.live") /\ SavesToo(c, "restart.set", "finish")
    BY <1>1, <1>2, <2>2 DEF SavesToo
  <2> QED  BY <1>1, <1>4, <2>1, <2>3, <2>4, <2>5, SaveBoth
<1>5. CASE At(c, "restart.live") /\ GoLive(n) /\ Go(c, "restart.start")
  <2>1. Onto(c, "restart.start")
    BY <1>0, <1>5, GoOnto DEF LifeInv
  <2>2. Raises(c, "restart.live", n, "restart.start")
    BY <1>1, <2>1 DEF Raises, Onto
  <2> QED  BY <1>5, <2>2, LiveRests, LiveToks DEF Both
<1>6. CASE At(c, "restart.start") /\ SupCall(c, "start", n, [s EXCEPT !.token = t], "finish")
  <2> DEFINE x == [s EXCEPT !.token = t]
  <2>1. x \in Session /\ x.vendor = s.vendor /\ x.token = t
    BY DEF Session
  <2>2. Knows(c) /\ Recalls(c) /\ Busy(c) /\ job[c].at = "restart.start" /\ t # NoToken
    BY <1>1, <1>2, <1>6, Known, KnownToks, TokenAssumption DEF At, CutToken, Session
  <2>3. n \in marred \/ Fits(ConfOf(x), n)
    BY <1>1, <1>2, <2>1, <2>2 DEF Fits, ConfOf, Knows, RowLabels, SameVendor, Recalls, CutLabels
  <2>4. Asks(c, "restart.start", "start", n, "finish")
    BY <1>1 DEF Asks
  <2> HIDE DEF x
  <2> QED  BY <1>6, <2>1, <2>3, <2>4, CallBoth DEF x
<1> QED  BY <1>1, <1>2, <1>3, <1>4, <1>5, <1>6 DEF Restart

LEMMA ResumeBoth ==
  ASSUME LifeInv, TreeInv, Rest, Tok, NEW c \in Caller, \A b \in Caller \ {c} : job'[b] = job[b], Resume(c)
  PROVE  Both(c)
<1>0. Busy(c) /\ RecTyped
  BY DEF Resume, At, LifeInv
<1>1. PICK n \in Name, s \in Session : n = job[c].name /\ s = job[c].sess
  <2>1. \E a \in LockedLabels \cup FreeLabels : At(c, a)
    BY DEF Resume, LockedLabels, FreeLabels
  <2> QED  BY <2>1, VerbTouches
<1> DEFINE new == IF s.archived THEN SetArchived(n, FALSE) ELSE rec
<1>2. CASE At(c, "resume") /\ WriteIfChanged(c, new, {n}, "resume.live")
  <2>1. /\ rec' = new /\ UNCHANGED <<supVars, live, driver, socket, turn>>
        /\ marred \subseteq marred' /\ marred' \subseteq marred \cup {n}
        /\ Onto(c, "resume.live") \/ (Onto(c, "finish") /\ {n} \subseteq marred')
    BY <1>0, <1>2, Written
  <2>2. /\ RowKept(n)
        /\ rec[n] # Absent => IF s.archived THEN ~rec'[n].archived ELSE rec'[n].archived = rec[n].archived
        /\ rec[n] # Absent => rec'[n].token = rec[n].token
    <3>1. CASE s.archived
      BY <1>0, <2>1, <3>1, SetOne DEF Token
    <3>2. CASE ~s.archived
      BY <2>1, <3>2 DEF RowKept
    <3> QED  BY <3>1, <3>2
  <2>3. Saves(c, "resume", "resume.live")
    BY <1>1, <2>2 DEF Saves
  <2>4. {n} \subseteq marred' => Saves(c, "resume", "finish")
    BY <1>1, <2>2, FailedSave DEF RowKept
  <2>5. SavesToo(c, "resume", "resume.live") /\ SavesToo(c, "resume", "finish")
    BY <1>1, <2>2 DEF SavesToo
  <2> QED  BY <1>1, <1>2, <2>1, <2>3, <2>4, <2>5, SaveBoth
<1>3. CASE At(c, "resume.live") /\ GoLive(n) /\ Go(c, "resume.start")
  <2>1. Onto(c, "resume.start")
    BY <1>0, <1>3, GoOnto DEF LifeInv
  <2>2. Raises(c, "resume.live", n, "resume.start")
    BY <1>1, <2>1 DEF Raises, Onto
  <2> QED  BY <1>3, <2>2, LiveRests, LiveToks DEF Both
<1>4. CASE At(c, "resume.start") /\ SupCall(c, "start", n, s, "finish")
  <2>1. n \in marred \/ Fits(ConfOf(s), n)
    BY <1>1, <1>4, Backend
  <2>2. Asks(c, "resume.start", "start", n, "finish")
    BY <1>1 DEF Asks
  <2> QED  BY <1>4, <2>1, <2>2, CallBoth
<1> QED  BY <1>1, <1>2, <1>3, <1>4 DEF Resume

LEMMA BootBoth ==
  ASSUME LifeInv, TreeInv, Rest, Tok, NEW c \in Caller, \A b \in Caller \ {c} : job'[b] = job[b], BootLoop(c)
  PROVE  Both(c)
<1> DEFINE j == job[c]
<1>1. Busy(c) /\ j.at \in BootLabels /\ j \in JobType /\ JobOK(c) /\ j.cur \in Name /\ j.todo \subseteq Name
      /\ j.all \in [Name -> Sessions] /\ BootKnows(c)
  BY BusyTyped, Known DEF BootLoop, At, BootLabels, LifeInv
<1>2. CASE At(c, "boot") /\ j.todo = {} /\ job' = [job EXCEPT ![c] = NoJob] /\ UNCHANGED <<supVars, hubVars>>
  <2>1. job'[c] = NoJob /\ UNCHANGED <<supVars, rec, live, driver, socket, marred, turn>>
    BY <1>2 DEF LifeInv, JobInv, JobsTyped, hubVars
  <2> QED  BY <1>2, <2>1, EndRests, EndToks DEF Both
<1>3. ASSUME NEW n \in j.todo, At(c, "boot"), GoLive(n),
             job' = [job EXCEPT ![c].at = "boot.start", ![c].cur = n, ![c].todo = @ \ {n}]
      PROVE  Both(c)
  <2> DEFINE T == j.todo \ {n}
             k == [j EXCEPT !.at = "boot.start", !.cur = n, !.todo = T]
  <2>1. job' = [job EXCEPT ![c] = k]
    BY <1>3
  <2>2. /\ k.at = "boot.start" /\ k.verb = j.verb /\ k.name = j.name /\ k.to = j.to
        /\ k.todo = T /\ k.cur = n /\ k.sess = j.sess /\ k.ret = j.ret /\ k.all = j.all
    <3> HIDE DEF j, T
    <3> QED  BY <1>1 DEF JobType
  <2> HIDE DEF k
  <2>3. k.todo \cup {k.cur} \subseteq j.todo \cup {j.cur}
    BY <2>2
  <2>4. Keeps(c) /\ job'[c] = k
    BY <1>1, <2>1, <2>2, <2>3, KeepsFields DEF LifeInv
  <2>5. Raises(c, "boot", n, "boot.start") /\ n \in Name
    BY <1>1, <1>3, <2>2, <2>4 DEF Raises, Keeps
  <2> QED  BY <1>3, <2>5, LiveRests, LiveToks DEF Both
<1>4. CASE At(c, "boot.start") /\ SupCall(c, "start", j.cur, j.all[j.cur], "boot")
  <2>1. j.verb = "boot"
    BY <1>1 DEF JobOK, BootLabels, ReconcileLabels, DeadLabels
  <2>2. j.all[j.cur] \in Session
    BY <1>1, <1>4, <2>1, RowOrAbsent DEF JobOK, At
  <2>3. j.cur \in marred \/ Fits(ConfOf(j.all[j.cur]), j.cur)
    BY <1>1, <1>4, KnownToks DEF Recalls, At, BootLabels
  <2>4. Asks(c, "boot.start", "start", j.cur, "boot")
    BY DEF Asks
  <2> QED  BY <1>1, <1>4, <2>2, <2>3, <2>4, CallBoth
<1> QED  BY <1>2, <1>3, <1>4 DEF BootLoop

LEMMA ReconcileBoth ==
  ASSUME LifeInv, TreeInv, Rest, Tok, NEW c \in Caller, \A b \in Caller \ {c} : job'[b] = job[b],
         Finish(c) \/ Reconcile(c)
  PROVE  Both(c)
<1> DEFINE j == job[c]
<1>0. Busy(c) /\ j \in JobType /\ From(c) /\ OwnWork(c) /\ JobOK(c) /\ j.todo \subseteq Name
  BY Known, BusyTyped DEF Finish, Reconcile, At, LifeInv
\* The fields of a job of the dispatcher that goes on in reconcile.
<1>1. ASSUME NEW k, job' = [job EXCEPT ![c] = k], k.verb = j.verb, k.name = j.name, k.to = j.to,
             j.verb # "boot"
      PROVE  Busy(c)' /\ job'[c] = k /\ Keeps(c)
  BY <1>0, <1>1, KeepsFields DEF LifeInv, Keeps
<1>2. j.verb # "boot"
  BY <1>0 DEF Finish, Reconcile, At, JobOK, BootLabels
<1>3. CASE Finish(c)
  <2>1. /\ At(c, "finish") /\ UNCHANGED <<supVars, rec, live, driver, socket, marred>>
        /\ turn' = turn \/ (job[c].claim # NoDriver /\ turn' = [turn EXCEPT ![job[c].claim] = IdleTurn])
    BY <1>3 DEF Finish
  <2>2. CASE c # Disp
    <3>1. job'[c] = NoJob
      BY <1>3, <2>2 DEF Finish, LifeInv, JobInv, JobsTyped
    <3>2. turn' = turn
      BY <1>0, <2>1, <2>2, KnownToks
    <3> QED  BY <2>1, <2>2, <3>1, <3>2, EndRests, EndToks DEF Both
  <2>3. CASE c = Disp
    <3> DEFINE k == [j EXCEPT !.at = "reap", !.all = rec, !.claim = NoDriver]
    <3>1. job' = [job EXCEPT ![c] = k]
      BY <1>3, <2>3 DEF Finish
    <3>2. k.verb = j.verb /\ k.name = j.name /\ k.to = j.to /\ k.at = "reap" /\ k.all = rec
      <4> HIDE DEF j
      <4> QED  BY <1>0 DEF JobType
    <3> HIDE DEF k
    <3>3. Busy(c)' /\ job'[c] = k
      BY <1>1, <1>2, <3>1, <3>2
    <3>4. Sweeps("finish", "reap")
      BY <2>3, <3>2, <3>3 DEF Sweeps
    <3> QED  BY <2>1, <2>3, <3>2, <3>3, <3>4, SweepRests, SweepToks DEF Both
  <2> QED  BY <2>2, <2>3
<1>4. CASE Reconcile(c)
  <2>0. c = Disp
    BY <1>0, <1>4 DEF Reconcile, At, OwnWork, SweepLabels
  <2>1. ASSUME NEW l \in {"reaping", "raising"}, NEW T \in SUBSET Name, NEW a, At(c, a),
               job' = [job EXCEPT ![c] = [j EXCEPT !.at = l, !.todo = T]],
               UNCHANGED <<supVars, hubVars>>,
               \/ /\ a = "reap" /\ l = "reaping"
                  /\ T = {n \in Name : live[n] # NoDriver /\ (j.all[n] = Absent \/ j.all[n].archived)}
               \/ /\ a = "reaping" /\ l = "raising" /\ j.todo = {}
                  /\ T = {n \in Name : j.all[n] # Absent /\ ~j.all[n].archived}
        PROVE  Both(c)
    <3> DEFINE k == [j EXCEPT !.at = l, !.todo = T]
    <3>1. k.verb = j.verb /\ k.name = j.name /\ k.to = j.to /\ k.at = l /\ k.todo = T /\ k.all = j.all
      <4> HIDE DEF j
      <4> QED  BY <1>0 DEF JobType
    <3>2. job' = [job EXCEPT ![c] = k]
      BY <2>1
    <3> HIDE DEF k
    <3>3. Busy(c)' /\ job'[c] = k
      BY <1>1, <1>2, <3>1, <3>2
    <3>4. Sweeps(a, l)
      BY <2>0, <2>1, <3>1, <3>3 DEF Sweeps
    <3>5. UNCHANGED <<supVars, rec, live, driver, socket, marred, turn>>
      BY <2>1 DEF hubVars
    <3> QED  BY <2>0, <2>1, <3>1, <3>3, <3>4, <3>5, SweepRests, SweepToks DEF Both
  <2>2. CASE At(c, "reap")
    <3> DEFINE T == {n \in Name : live[n] # NoDriver /\ (j.all[n] = Absent \/ j.all[n].archived)}
    <3>1. job' = [job EXCEPT ![c] = [j EXCEPT !.at = "reaping", !.todo = T]] /\ UNCHANGED <<supVars, hubVars>>
      BY <1>4, <2>2 DEF Reconcile, At
    <3> QED  BY <2>1, <2>2, <3>1
  <2>3. CASE At(c, "reaping") /\ j.todo # {}
    <3>1. PICK n \in j.todo : GoDead(c, n, "reaping")
      BY <1>4, <2>3 DEF Reconcile, At
    <3>2. UNCHANGED hubVars
      BY <1>4, <2>3 DEF Reconcile, At
    <3> QED  BY <1>0, <2>3, <3>1, <3>2, GoDeadRests, GoDeadToks DEF Both
  <2>4. CASE At(c, "reaping") /\ j.todo = {}
    <3> DEFINE T == {n \in Name : j.all[n] # Absent /\ ~j.all[n].archived}
    <3>1. job' = [job EXCEPT ![c] = [j EXCEPT !.at = "raising", !.todo = T]] /\ UNCHANGED <<supVars, hubVars>>
      BY <1>4, <2>4 DEF Reconcile, At
    <3> QED  BY <2>1, <2>4, <3>1
  <2>5. CASE At(c, "raising") /\ j.todo # {}
    <3>1. PICK n \in j.todo : GoLive(n) /\ job' = [job EXCEPT ![c].todo = @ \ {n}]
      BY <1>4, <2>5 DEF Reconcile, At
    <3> DEFINE k == [j EXCEPT !.todo = j.todo \ {n}]
    <3>2. /\ k.verb = j.verb /\ k.name = j.name /\ k.to = j.to /\ k.at = j.at /\ k.sess = j.sess
          /\ k.ret = j.ret /\ k.all = j.all /\ k.todo = j.todo \ {n}
      <4> HIDE DEF j
      <4> QED  BY <1>0 DEF JobType
    <3>3. job' = [job EXCEPT ![c] = k]
      BY <3>1
    <3> HIDE DEF k
    <3>4. Busy(c)' /\ job'[c] = k
      BY <1>1, <1>2, <3>2, <3>3
    <3>5. Raises(c, "raising", n, "raising")
      BY <2>5, <3>1, <3>2, <3>4 DEF Raises, At
    <3> QED  BY <1>0, <2>5, <3>1, <3>5, LiveRests, LiveToks DEF Both
  <2>6. CASE At(c, "raising") /\ j.todo = {}
    <3>1. job' = [job EXCEPT ![c] = NoJob] /\ UNCHANGED <<supVars, hubVars>>
      BY <1>4, <2>6 DEF Reconcile, At
    <3>2. job'[c] = NoJob /\ UNCHANGED <<supVars, rec, live, driver, socket, marred, turn>>
      BY <3>1 DEF LifeInv, JobInv, JobsTyped, hubVars
    <3> QED  BY <2>6, <3>2, EndRests, EndToks DEF Both
  <2> QED  BY <1>4, <2>2, <2>3, <2>4, <2>5, <2>6 DEF Reconcile
<1> QED  BY <1>3, <1>4

\* Every step of a caller.
LEMMA StepBoth ==
  ASSUME LifeInv, TreeInv, Rest, Tok, NEW c \in Caller, \A b \in Caller \ {c} : job'[b] = job[b], VerbStep(c)
  PROVE  Both(c)
<1>1. CASE At(c, "other") /\ Go(c, "finish") /\ UNCHANGED <<supVars, hubVars>>
  BY <1>1, GoOnto, MoveRests, MoveToks DEF At, LifeInv, hubVars, Both
<1> QED  BY <1>1, VerbBoth, RewindBoth, RestartBoth, ResumeBoth, BootBoth, ReconcileBoth,
            DeleteRests, DeleteToks, CancelRests, CancelToks, WaitRests, WaitToks, CalledRests, CalledToks DEF VerbStep, Both

-----------------------------------------------------------------------------
(* The calls that begin, the drivers and the bridges. *)

\* The names that the history does not know have a caller that acts on them alone, if any does.
LEMMA SomeSole ==
  ASSUME TreeInv, LockedOut, NEW n \in Name \ marred
  PROVE  \E c \in Caller : Sole(c, n)
<1>1. CASE \E c \in Caller : Acts(c, n)
  BY <1>1, OneActs DEF Sole
<1>2. CASE ~\E c \in Caller : Acts(c, n)
  BY <1>2, CallerAssumption DEF Sole
<1> QED  BY <1>1, <1>2

\* The bridges and the drivers: no call moves, and no name is left otherwise.
LEMMA StillRests ==
  ASSUME LifeInv, TreeInv, Rest, UNCHANGED <<job, call>>, marred \subseteq marred', LiveDrives',
         RowsStay, \A n \in Name \ marred' : Same(n)
  PROVE  Rest'
<1>1. /\ Disp \in Caller /\ LockedOut
      /\ \A b \in Caller : /\ Busy(b)' = Busy(b) /\ Touches(b)' = Touches(b)
                           /\ \A n : Acts(b, n)' = Acts(b, n)
                           /\ RestartDead(b)' = RestartDead(b) /\ SweepDead(b)' = SweepDead(b)
  BY CallerAssumption DEF Rest, Busy, Touches, Acts, RestartDead, SweepDead
<1>2. LockedOut'
  <2>1. \A c \in Unlocked : c \in Caller
    BY CallerAssumption
  <2> QED  BY <1>1, <2>1 DEF LockedOut
<1>3. ASSUME NEW b \in Caller PROVE (From(b) /\ Downs(b) /\ Knows(b) /\ BootKnows(b))'
  <2>0. From(b) /\ Downs(b) /\ Knows(b) /\ BootKnows(b)
    BY DEF Rest
  <2>1. From(b)'
    BY <1>1, <2>0 DEF From
  <2>2. CASE ~Busy(b)
    BY <1>1, <2>1, <2>2 DEF Downs, Knows, BootKnows
  <2>3. CASE Busy(b)
    <3>1. PICK n \in Name, m \in Name : n = job[b].name /\ m = job[b].to
      BY <2>3, BusyTyped DEF LifeInv
    <3>2. Downs(b)'
      BY <2>0, <2>3, <3>1 DEF Downs, Same
    <3>3. /\ \A k \in {n, m} : /\ rec'[k] = Absent <=> rec[k] = Absent
                               /\ rec[k] # Absent => rec'[k].vendor = rec[k].vendor
          /\ n \notin marred' /\ rec[n] # Absent => rec'[n].archived = rec[n].archived
      BY <3>1 DEF RowsStay, Same
    <3>4. Knows(b)'
      <4>1. SUFFICES ASSUME b = Disp \/ n \notin marred' PROVE Knows(b)'
        BY <1>1, <3>1 DEF Knows
      <4>2. b = Disp \/ n \notin marred
        BY <4>1
      <4> QED  BY <1>1, <2>0, <2>3, <3>1, <3>3, <4>1, <4>2
                  DEF Knows, SameVendor, InUse, UpLabels, RowLabels, RestartDead, DeadLabels
    <3>5. BootKnows(b)'
      BY <1>1, <2>0, <2>3 DEF BootKnows, Same, InUse
    <3> QED  BY <2>1, <3>2, <3>4, <3>5
  <2> QED  BY <2>2, <2>3
<1>4. ASSUME NEW n \in Name \ marred' PROVE Swept(n)'
  BY <1>1, <1>4 DEF Rest, Swept, Same, InUse
<1>5. ASSUME NEW n \in Name \ marred', NEW e \in Caller, Sole(e, n)'
      PROVE  BridgeBy(e, n)' /\ HostedBy(e, n)'
  <2>1. Sole(e, n)
    BY <1>1, <1>5 DEF Sole
  <2>2. BridgeBy(e, n) /\ HostedBy(e, n) /\ Same(n)
    BY <1>5, <2>1 DEF Rest
  <2> QED  BY <1>1, <2>2, SameBy
<1> QED  BY <1>2, <1>3, <1>4, <1>5 DEF Rest

\* A call begins for a name that nobody was at work on.
LEMMA FreshBy ==
  ASSUME LifeInv, TreeInv, NEW c \in Caller, From(c), ~Busy(c), NEW n \in Name,
         BridgeBy(c, n), HostedBy(c, n), UNCHANGED <<supVars, rec, live, driver, socket>>,
         job'[c].at \in Verbs \ {"boot"}, Busy(Disp) => Busy(Disp)'
  PROVE  BridgeBy(c, n)' /\ HostedBy(c, n)'
<1>1. /\ ~Calls(c, n) /\ ~Starting(c, n) /\ ~Switching(c, n) /\ ~Awaits(c, n) /\ ~Rising(c, n)
      /\ ~Calls(c, n)' /\ ~Awaits(c, n)'
  <2>1. ~Calls(c, n) /\ ~Starting(c, n) /\ ~Switching(c, n) /\ ~Awaits(c, n) /\ ~Rising(c, n)
    BY IdleBy DEF Acts
  <2> QED  BY <2>1 DEF Calls, Awaits, Verbs, supVars
<1>2. BridgeBy(c, n)'
  BY <1>1 DEF BridgeBy, Running, InUse, supVars
<1>3. HostedBy(c, n)'
  BY <1>1 DEF HostedBy, InUse
<1> QED  BY <1>2, <1>3

\* ... and is about no name that another call is about, unless the history knows.
LEMMA BeginsRests ==
  ASSUME LifeInv, TreeInv, Rest, NEW c \in Caller, ~Busy(c), Busy(c)',
         UNCHANGED <<supVars, rec, live, driver, socket>>, marred \subseteq marred',
         \A b \in Caller \ {c} : job'[b] = job[b],
         job'[c].at \in Verbs \ {"boot"}, job'[c].verb = job'[c].at,
         job'[c].verb \in FreeVerbs <=> c # Disp, Knows(c)', LockedOut',
         \A n \in Name \ marred' : Acts(c, n)' => \A b \in Caller : ~Acts(b, n)
  PROVE  Rest'
<1>1. /\ Disp \in Caller
      /\ \A b \in Caller \ {c} : /\ Busy(b)' = Busy(b) /\ Touches(b)' = Touches(b)
                                 /\ \A n : Acts(b, n)' = Acts(b, n)
                                 /\ RestartDead(b)' = RestartDead(b) /\ SweepDead(b)' = SweepDead(b)
      /\ call' = call /\ call[c] = Idle
      /\ Busy(Disp) => Busy(Disp)'
  BY CallerAssumption DEF Busy, Touches, Acts, RestartDead, SweepDead, supVars, TreeInv, OwnCalls
<1>2. /\ job'[c].at \notin DeadLabels \cup BootLabels \cup SweepLabels
      /\ job'[c].at \notin {"close.tree", "close.remove", "rename.set", "close.failed", "rename.failed",
                            "archive.set"}
      /\ c # Disp => job'[c].at \in UnlockedLabels
  BY DEF Verbs, DeadLabels, BootLabels, SweepLabels, FreeVerbs, UnlockedLabels
<1>3. ASSUME NEW b \in Caller PROVE (From(b) /\ Downs(b) /\ Knows(b) /\ BootKnows(b))'
  <2>1. CASE b = c
    <3>1. From(c)'
      BY <1>1, <1>2 DEF From, RestartDead
    <3>2. Downs(c)' /\ BootKnows(c)'
      BY <1>2 DEF Downs, BootKnows
    <3> QED  BY <2>1, <3>1, <3>2
  <2>2. CASE b # c
    <3>0. From(b) /\ Downs(b) /\ Knows(b) /\ BootKnows(b) /\ job'[b] = job[b] /\ Busy(b)' = Busy(b)
          /\ UNCHANGED <<runs, call>> /\ RestartDead(b)' = RestartDead(b)
      BY <1>1, <2>2 DEF Rest, supVars
    <3>1. From(b)'
      BY <3>0 DEF From
    <3>2. Downs(b)'
      BY <3>0 DEF Downs
    <3>3. Knows(b)'
      BY <3>0 DEF Knows, SameVendor, InUse
    <3>4. BootKnows(b)'
      BY <3>0 DEF BootKnows, InUse
    <3> QED  BY <3>1, <3>2, <3>3, <3>4
  <2> QED  BY <2>1, <2>2
<1>4. ASSUME NEW n \in Name \ marred' PROVE Swept(n)'
  <2>1. CASE c = Disp
    BY <1>2, <2>1 DEF Swept, SweepDead, SweepLabels
  <2>2. CASE c # Disp
    <3>1. Swept(n) /\ job'[Disp] = job[Disp] /\ Busy(Disp)' = Busy(Disp) /\ SweepDead(Disp)' = SweepDead(Disp)
      BY <1>1, <1>4, <2>2 DEF Rest
    <3> QED  BY <3>1 DEF Swept, InUse
  <2> QED  BY <2>1, <2>2
<1>5. ASSUME NEW n \in Name \ marred', NEW e \in Caller, Sole(e, n)'
      PROVE  BridgeBy(e, n)' /\ HostedBy(e, n)'
  <2>1. ~Acts(c, n)
    BY DEF Acts
  <2>2. CASE e = c
    <3>1. Sole(c, n)
      BY <1>1, <1>5, <2>2 DEF Sole
    <3>2. BridgeBy(c, n) /\ HostedBy(c, n) /\ From(c)
      BY <1>5, <3>1 DEF Rest
    <3> QED  BY <1>1, <2>2, <3>2, FreshBy
  <2>3. CASE e # c
    <3>1. Sole(e, n) /\ c # Disp
      BY <1>1, <1>5, <2>1, <2>3 DEF Sole, Acts
    <3>2. BridgeBy(e, n) /\ HostedBy(e, n)
      BY <1>5, <3>1 DEF Rest
    <3>3. Same(n)
      BY DEF Same, supVars
    <3> QED  BY <1>1, <2>3, <3>1, <3>2, <3>3, SameBy
  <2> QED  BY <2>2, <2>3
<1>6. LiveDrives'
  BY DEF Rest, LiveDrives
<1> QED  BY <1>3, <1>4, <1>5, <1>6 DEF Rest

\* The two ways in which a call begins.
LEMMA DispatchRests ==
  ASSUME LifeInv, TreeInv, Rest, NEW v \in Verb, NEW n \in Name, NEW m \in Name, NEW w \in Vendor,
         Dispatch(v, n, m, w)
  PROVE  Rest'
<1> DEFINE s == IF v \in {"create", "switch"} THEN [vendor |-> w, token |-> NoToken, archived |-> FALSE]
                ELSE rec[n]
           k == Job(v, n, m, s)
<1>1. /\ v \in {"create", "close", "archive", "unarchive", "switch", "rewind", "rename", "other"}
      /\ Disp \in Caller /\ ~Busy(Disp) /\ UNCHANGED <<supVars, rec, live, driver, socket>>
      /\ marred \cup Touched \subseteq marred'
      /\ Caller = {Disp} \cup Unlocked /\ Disp \notin Unlocked
  BY VerbAssumption, CallerAssumption DEF Dispatch
<1>2. /\ v = "create" => rec[n] = Absent
      /\ v = "rename" => rec[n] # Absent /\ rec[m] = Absent
      /\ v \notin {"create", "other"} => rec[n] # Absent
  BY <1>1 DEF Dispatch
<1>3. k.verb = v /\ k.at = v /\ k.name = n /\ k.to = m /\ k.sess = s
  BY DEF Job
<1>4. job' = [job EXCEPT ![Disp] = k]
  BY DEF Dispatch
<1>5. v \in {"close", "unarchive", "rewind", "rename"} => s = rec[n]
  OBVIOUS
<1> HIDE DEF s, k
<1>6. job'[Disp] = k /\ \A b \in Caller \ {Disp} : job'[b] = job[b]
  BY <1>1, <1>4 DEF LifeInv, JobInv, JobsTyped
<1>7. Busy(Disp)'
  <2>1. NoJob.verb = "none"
    BY DEF NoJob
  <2> QED  BY <1>1, <1>3, <1>6, <2>1 DEF Busy
<1>8. Knows(Disp)'
  BY <1>1, <1>2, <1>3, <1>5, <1>6 DEF Knows, RowLabels, SameVendor, RestartDead, DeadLabels
<1>9. \A b \in Caller \ {Disp} : Touches(b)' = Touches(b)
  BY <1>6 DEF Touches, Busy
<1>10. \A b \in Caller : Touches(b) \subseteq marred'
  BY <1>1 DEF Touched
<1>11. LockedOut'
  BY <1>1, <1>9, <1>10 DEF LockedOut
<1>12. \A x \in Name \ marred', b \in Caller : ~Acts(b, x)
  BY <1>1, <1>10 DEF Acts
<1>13. /\ job'[Disp].at \in Verbs \ {"boot"} /\ job'[Disp].verb = job'[Disp].at
       /\ job'[Disp].verb \notin FreeVerbs
  BY <1>1, <1>3, <1>6 DEF Verbs, FreeVerbs
<1> QED  BY <1>1, <1>6, <1>7, <1>8, <1>11, <1>12, <1>13, BeginsRests

LEMMA UnlockedRests ==
  ASSUME LifeInv, TreeInv, Rest, NEW c \in Unlocked, NEW v \in UnlockedVerb, NEW n \in Name,
         UnlockedCall(c, v, n)
  PROVE  Rest'
<1> DEFINE k == Job(v, n, n, rec[n])
<1>1. /\ v \in {"resume", "restart"} /\ c \in Caller /\ c # Disp /\ Disp \in Caller /\ ~Busy(c)
      /\ UNCHANGED <<supVars, rec, live, driver, socket>> /\ rec[n] # Absent
      /\ v = "restart" => InUse(n)
      /\ marred \subseteq marred' /\ ((\E b \in Caller : Busy(b)) => n \in marred')
      /\ Caller = {Disp} \cup Unlocked
  BY VerbAssumption, CallerAssumption DEF UnlockedCall, Recorded
<1>2. k.verb = v /\ k.at = v /\ k.name = n /\ k.to = n /\ k.sess = rec[n]
  BY DEF Job
<1>3. job' = [job EXCEPT ![c] = k]
  BY DEF UnlockedCall
<1> HIDE DEF k
<1>4. job'[c] = k /\ \A b \in Caller \ {c} : job'[b] = job[b]
  BY <1>1, <1>3 DEF LifeInv, JobInv, JobsTyped
<1>5. Busy(c)'
  <2>1. NoJob.verb = "none"
    BY DEF NoJob
  <2> QED  BY <1>1, <1>2, <1>4, <2>1 DEF Busy
<1>6. Touches(c)' = {n}
  BY <1>1, <1>2, <1>4, <1>5 DEF Touches
<1>7. Knows(c)'
  BY <1>1, <1>2, <1>4 DEF Knows, SameVendor, RestartDead, DeadLabels, UpLabels, InUse
<1>8. LockedOut'
  <2>1. \A b \in Unlocked \ {c} : Touches(b)' = Touches(b) /\ b \in Caller
    BY <1>1, <1>4 DEF Touches, Busy
  <2>2. SUFFICES ASSUME Busy(Disp) PROVE \A b \in Unlocked : Touches(b)' \subseteq marred'
    BY <1>1, <1>4 DEF LockedOut, Busy
  <2>3. n \in marred' /\ LockedOut
    BY <1>1, <2>2 DEF Rest
  <2> QED  BY <1>1, <1>6, <2>1, <2>2, <2>3 DEF LockedOut
<1>9. ASSUME NEW x \in Name \ marred', Acts(c, x)', NEW b \in Caller PROVE ~Acts(b, x)
  <2>1. x = n
    BY <1>1, <1>6, <1>9 DEF Acts
  <2> QED  BY <1>1, <2>1 DEF Acts
<1>10. /\ job'[c].at \in Verbs \ {"boot"} /\ job'[c].verb = job'[c].at /\ job'[c].verb \in FreeVerbs
  BY <1>1, <1>2, <1>4 DEF Verbs, FreeVerbs
<1> QED  BY <1>1, <1>4, <1>5, <1>7, <1>8, <1>9, <1>10, BeginsRests

\* The turn of a driver ends with a token on the row of its session, and the end
\* of a driver takes no socket but that of a name that is not live.
LEMMA DriverRests ==
  ASSUME LifeInv, TreeInv, Rest, ~outer, NEW d \in Driver, DriverStep(d)
  PROVE  Rest'
<1>1. PICK n \in Name : n = driver[d].name
  BY DEF LifeInv, DriverTyped
<1>2. UNCHANGED <<supVars, job, call, live>> /\ marred \subseteq marred'
  BY DEF DriverStep, StartTurn, TurnAnswered, StoreToken, DropToken, DriverEnds, StopLive, Unchanged,
     SaveWorks, SaveFails, supVars
<1>3. CASE UNCHANGED <<rec, driver, socket>>
  <2>1. LiveDrives' /\ RowsStay /\ \A k \in Name : Same(k)
    BY <1>2, <1>3 DEF Rest, LiveDrives, RowsStay, Same, supVars
  <2> QED  BY <1>2, <2>1, StillRests
<1>4. CASE StoreToken(d)
  <2>1. turn[d].token \in Token /\ RecTyped
    BY <1>4 DEF StoreToken, LifeInv, TurnInv
  <2>2. rec' = SetResumeToken(n, turn[d].token) /\ UNCHANGED <<driver, socket>>
    BY <1>1, <1>4 DEF StoreToken, Unchanged, SaveWorks, SaveFails
  <2>3. RowKept(n) /\ (rec[n] # Absent => rec'[n].archived = rec[n].archived)
    BY <2>1, <2>2, SetOne
  <2>4. LiveDrives' /\ RowsStay /\ \A k \in Name : Same(k)
    BY <1>2, <2>2, <2>3 DEF Rest, LiveDrives, RowsStay, RowKept, Same, supVars
  <2> QED  BY <1>2, <2>4, StillRests
<1>5. CASE DriverEnds(d)
  <2> DEFINE x == [driver[d] EXCEPT !.at = "ended"]
  <2>1. /\ driver[d].at = "driving" /\ driver[d].cancelled
        /\ driver' = [driver EXCEPT ![d] = x] /\ socket' = [socket EXCEPT ![n] = NoDriver]
        /\ UNCHANGED rec
    BY <1>1, <1>5 DEF DriverEnds
  <2>2. x.at = "ended"
    <3>1. driver[d] \in [at : {"unused", "driving", "ended"}, name : Name, cancelled : BOOLEAN]
      BY DEF LifeInv, DriverTyped
    <3> QED  BY <3>1
  <2> HIDE DEF x
  <2>3. /\ driver'[d].at = "ended" /\ \A e \in Driver \ {d} : driver'[e] = driver[e]
        /\ \A k \in Name \ {n} : socket'[k] = socket[k]
    BY <2>1, <2>2 DEF LifeInv, DriverTyped
  <2>4. n \in marred \/ live[n] = NoDriver
    <3>1. SUFFICES ASSUME n \notin marred PROVE live[n] = NoDriver
      OBVIOUS
    <3>2. PICK c \in Caller : Sole(c, n)
      BY <3>1, SomeSole DEF Rest
    <3>3. HostedBy(c, n)
      BY <3>1, <3>2 DEF Rest
    <3> QED  BY <1>1, <2>1, <3>3 DEF HostedBy
  <2>5. LiveDrives'
    <3>1. \A k \in Name : live[k] # NoDriver => live[k] # d /\ live[k] \in Driver
      BY <2>1 DEF Rest, LiveDrives, LifeInv, DriverTyped
    <3> QED  BY <1>2, <2>3, <3>1 DEF Rest, LiveDrives
  <2>6. RowsStay
    BY <2>1 DEF RowsStay
  <2>7. \A k \in Name \ marred' : Same(k)
    BY <1>2, <2>1, <2>3, <2>4 DEF Same, supVars
  <2> QED  BY <1>2, <2>5, <2>6, <2>7, StillRests
<1> QED  BY <1>3, <1>4, <1>5 DEF DriverStep, StartTurn, TurnAnswered, DropToken, StopLive

\* A bridge that is launched, exits, or waits changes no table.
LEMMA BridgeRests ==
  ASSUME LifeInv, TreeInv, Rest, NEW r \in Run, BridgeStep(r)
  PROVE  Rest'
<1>1. UNCHANGED <<rec, live, driver, socket, marred, job, runs, conf, stopping, call>>
  BY LoopMoves DEF BridgeStep, LifeInv, SupInv
<1>2. LiveDrives' /\ RowsStay /\ \A k \in Name : Same(k)
  BY <1>1 DEF Rest, LiveDrives, RowsStay, Same
<1> QED  BY <1>1, <1>2, StillRests

-----------------------------------------------------------------------------
(* What other callers know of the conversations. *)

\* The names a job is about, where it is not the boot loop's, and where it is.
LEMMA JobNames ==
  ASSUME LifeInv, NEW b \in Caller, Busy(b)
  PROVE  /\ job[b].at \in BootLabels <=> job[b].verb = "boot"
         /\ job[b].at \notin BootLabels => Acts(b, job[b].name) /\ Acts(b, job[b].to)
         /\ job[b].at \in BootLabels => \A n \in job[b].todo \cup {job[b].cur} : Acts(b, n)
<1>1. JobOK(b)
  BY DEF LifeInv, JobInv
<1>2. job[b].at \in BootLabels <=> job[b].verb = "boot"
  BY <1>1 DEF JobOK, BootLabels, ReconcileLabels, DeadLabels
<1> QED  BY <1>2 DEF Acts, Touches

\* What another caller's job knows, when the names it acts on are left as they were.
LEMMA RecallsOn ==
  ASSUME LifeInv, TreeInv, Rest, Tok, NEW b \in Caller, job'[b] = job[b], call'[b] = call[b],
         marred \subseteq marred',
         \A n \in Name \ marred' : Acts(b, n) => Grows(n) /\ runs'[n] = runs[n],
         Busy(b) /\ job[b].at \in {"rename", "rename.set"} /\ job[b].name \in marred' => job[b].to \in marred'
  PROVE  Recalls(b)'
<1>1. SUFFICES ASSUME Busy(b) PROVE Recalls(b)'
  BY DEF Recalls, Busy
<1>2. Recalls(b) /\ Knows(b) /\ RecTyped /\ Busy(b)'
  BY <1>1, Known, KnownToks DEF LifeInv, Busy
<1>3. PICK n \in Name, m \in Name : n = job[b].name /\ m = job[b].to
  BY <1>1, BusyTyped DEF LifeInv
<1>4. /\ job[b].at \notin BootLabels => Acts(b, n) /\ Acts(b, m)
      /\ job[b].at \in BootLabels => \A k \in job[b].todo \cup {job[b].cur} : Acts(b, k)
  BY <1>1, <1>3, JobNames
<1>5. /\ job[b].at \notin BootLabels => \A k \in {n, m} \ marred' : Grows(k) /\ runs'[k] = runs[k]
      /\ job[b].at \in BootLabels =>
           \A k \in Name \ marred' : k \in job[b].todo \cup {job[b].cur} => Grows(k)
  BY <1>4
<1>6. n \notin marred' => n \notin marred
  OBVIOUS
<1>7. PICK s, x : s = job[b].sess /\ x = ConfOf(s)
  OBVIOUS
<1>8. n \notin marred' /\ job[b].at \in SessLabels => Fits(x, n)'
  <2>1. SUFFICES ASSUME n \notin marred', job[b].at \in SessLabels PROVE Fits(x, n)'
    OBVIOUS
  <2>2. Fits(x, n)
    BY <1>1, <1>2, <1>3, <1>6, <1>7, <2>1 DEF Recalls
  <2>3. Grows(n)
    BY <1>5, <2>1 DEF SessLabels, BootLabels
  <2> QED  BY <1>2, <2>2, <2>3, FitsOn
<1>9. m \notin marred' /\ job[b].at = "rename.start" => Fits(x, m)'
  <2>1. SUFFICES ASSUME m \notin marred', job[b].at = "rename.start" PROVE Fits(x, m)'
    OBVIOUS
  <2>2. Fits(x, m)
    BY <1>1, <1>2, <1>3, <1>7, <2>1 DEF Recalls
  <2>3. Grows(m)
    BY <1>5, <2>1 DEF BootLabels
  <2> QED  BY <1>2, <2>2, <2>3, FitsOn
<1>10. n \notin marred' /\ job[b].at \in CutLabels => rec'[n].token = CutToken(b)
  <2>1. SUFFICES ASSUME n \notin marred', job[b].at \in CutLabels PROVE rec'[n].token = CutToken(b)
    OBVIOUS
  <2>2. s \in Session
    BY <1>1, <1>7, <2>1, BusyTyped DEF LifeInv, CutLabels, ReconcileLabels, BootLabels, DeadLabels
  <2>3. CutToken(b) # NoToken
    BY <1>7, <2>2, TokenAssumption DEF CutToken, Session
  <2>4. rec[n] # Absent
    BY <1>1, <1>2, <1>3, <1>6, <2>1 DEF Knows, RowLabels, CutLabels, SameVendor
  <2>5. rec[n].token = CutToken(b)
    BY <1>1, <1>2, <1>3, <1>6, <2>1 DEF Recalls
  <2>6. Grows(n)
    BY <1>5, <2>1 DEF CutLabels, BootLabels
  <2> QED  BY <2>3, <2>4, <2>5, <2>6 DEF Grows
<1>11. n \notin marred' /\ (job[b].at \in CutLabels \cup {"restart.set"} \/ (RestartDead(b) /\ call[b] = Idle))
         => runs'[n] = NoRun
  <2>1. SUFFICES ASSUME n \notin marred',
                        job[b].at \in CutLabels \cup {"restart.set"} \/ (RestartDead(b) /\ call[b] = Idle)
                 PROVE  runs'[n] = NoRun
    OBVIOUS
  <2>2. runs[n] = NoRun
    BY <1>1, <1>2, <1>3, <1>6, <2>1 DEF Recalls
  <2>3. job[b].at \notin BootLabels
    BY <2>1 DEF CutLabels, BootLabels, RestartDead, DeadLabels
  <2> QED  BY <1>5, <2>1, <2>2, <2>3
<1>12. ASSUME job[b].at \in BootLabels, NEW k \in Name \ marred',
              k \in job[b].todo \/ (job[b].at = "boot.start" /\ k = job[b].cur)
       PROVE  Fits(ConfOf(job[b].all[k]), k)'
  <2>1. PICK y : y = ConfOf(job[b].all[k])
    OBVIOUS
  <2>2. Fits(y, k)
    BY <1>1, <1>2, <1>12, <2>1 DEF Recalls
  <2>3. Grows(k)
    BY <1>5, <1>12
  <2>4. Fits(y, k)'
    BY <1>2, <2>2, <2>3, FitsOn
  <2> QED  BY <2>1, <2>4 DEF Fits, ConfOf
<1>13. n \notin marred' /\ job[b].at = "create" => job[b].sess.token = NoToken
  BY <1>1, <1>2, <1>3, <1>6 DEF Recalls
<1>14. CutToken(b)' = CutToken(b) /\ RestartDead(b)' = RestartDead(b) /\ ConfOf(job[b].sess)' = x
  BY <1>7 DEF CutToken, RestartDead, ConfOf
<1>15. /\ Fits(x, n)' => Fits(ConfOf(job[b].sess), n)'
       /\ Fits(x, m)' => Fits(ConfOf(job[b].sess), m)'
  BY <1>14 DEF Fits
<1>16. Fits(ConfOf(job[b].sess), job[b].name)' <=> Fits(ConfOf(job[b].sess), n)'
  BY <1>3 DEF Fits
<1>17. Fits(ConfOf(job[b].sess), job[b].to)' <=> Fits(ConfOf(job[b].sess), m)'
  BY <1>3 DEF Fits
<1>18. CASE job[b].at \in BootLabels
  <2>1. job[b].at \notin SessLabels \cup CutLabels \cup {"create", "restart.set", "rename.start"}
    BY <1>18 DEF BootLabels, SessLabels, CutLabels
  <2>2. ~RestartDead(b) /\ job[b].at \notin {"rename", "rename.set"}
    BY <1>18 DEF BootLabels, RestartDead, DeadLabels
  <2> QED  BY <1>2, <1>12, <1>14, <1>18, <2>1, <2>2 DEF Recalls, Fits, ConfOf
<1>19. CASE job[b].at \notin BootLabels
  <2>1. n \notin marred' /\ job[b].at \in SessLabels => Fits(ConfOf(job[b].sess), n)'
    BY <1>8, <1>15
  <2>2. m \notin marred' /\ job[b].at = "rename.start" => Fits(ConfOf(job[b].sess), m)'
    BY <1>9, <1>15
  <2>3. job[b].at \in {"rename", "rename.set"} /\ n \in marred' => m \in marred'
    BY <1>1, <1>3
  <2>4. n \notin marred' /\ job[b].at \in SessLabels => Fits(ConfOf(job[b].sess), job[b].name)'
    BY <1>16, <2>1
  <2>5. m \notin marred' /\ job[b].at = "rename.start" => Fits(ConfOf(job[b].sess), job[b].to)'
    BY <1>17, <2>2
  <2>6. n \notin marred' /\ job[b].at \in CutLabels => rec'[n].token = CutToken(b)'
    BY <1>10, <1>14
  <2>7. job'[b] = job[b] /\ call'[b] = call[b]
    OBVIOUS
  <2> QED  BY ONLY <1>3, <1>11, <1>13, <1>14, <1>19, <2>3, <2>4, <2>5, <2>6, <2>7 DEF Recalls
<1> QED  BY <1>18, <1>19

\* ... and where it wants no turn.
Rewinds(b, n) == Busy(b) /\ job[b].at = "rewind" /\ job[b].name = n

LEMMA HushedOn ==
  ASSUME LifeInv, TreeInv, Rest, Tok, NEW b \in Caller, job'[b] = job[b], marred \subseteq marred',
         \A n \in Name \ marred' : Acts(b, n) =>
           /\ Hushes(b, n) /\ Still(n) => Still(n)'
           /\ Rewinds(b, n) /\ Prompt(n) => Prompt(n)'
           /\ Claimed(n) => Claimed(n)'
  PROVE  Hushed(b)'
<1>1. Hushed(b)
  BY KnownToks
<1>2. CASE ~Busy(b)
  BY <1>2 DEF Hushed, Hushes, Busy
<1>3. CASE Busy(b)
  <2>1. PICK n \in Name, m \in Name : n = job[b].name /\ m = job[b].to
    BY <1>3, BusyTyped DEF LifeInv
  <2>2. /\ job[b].at \in BootLabels <=> job[b].verb = "boot"
        /\ job[b].at \notin BootLabels => Acts(b, n) /\ Acts(b, m)
    BY <1>3, <2>1, JobNames
  <2>3. ASSUME NEW k \in Name \ marred', Hushes(b, k)' PROVE Still(k)'
    <3>1. Hushes(b, k) /\ k \in {n, m} /\ job[b].at \notin BootLabels
      BY <1>3, <2>1, <2>2, <2>3 DEF Hushes, RestartDead, Busy, BootLabels, DeadLabels
    <3>2. Still(k)
      BY <1>1, <2>3, <3>1 DEF Hushed
    <3> QED  BY <2>2, <2>3, <3>1, <3>2
  <2>4. n \notin marred' /\ job[b].at = "rewind" => Prompt(n)'
    BY <1>1, <1>3, <2>1, <2>2 DEF Hushed, BootLabels, Rewinds
  <2>5. n \notin marred' /\ Claims(b) => Claimed(n)'
    BY <1>1, <1>3, <2>1, <2>2 DEF Hushed, BootLabels, Claims, RestartDead, DeadLabels
  <2>6. Claims(b)' = Claims(b)
    BY DEF Claims, RestartDead
  <2> QED  BY <2>1, <2>3, <2>4, <2>5, <2>6 DEF Hushed
<1> QED  BY <1>2, <1>3

\* The invariant after a step of c, from what the step does.
LEMMA ToksKeeps ==
  ASSUME LifeInv, TreeInv, Rest, Tok, NEW c \in Caller, Busy(c), VerbStep(c), Others(c), Toks(c)
  PROVE  Tok'
<1>1. \A b \in Caller \ {c} : job'[b] = job[b] /\ call'[b] = call[b] /\ Busy(b)' = Busy(b)
  BY DEF Others, Busy
<1>2. marred \subseteq marred' /\ LockedOut /\ Caller = {Disp} \cup Unlocked
  BY CallerAssumption DEF Others, Rest
<1>3. ASSUME NEW b \in Caller \ {c}, NEW n \in Name \ marred', Acts(b, n) PROVE Steady(n)
  <2>1. ~Acts(c, n)
    BY <1>2, <1>3, OneActs
  <2> QED  BY <2>1 DEF Toks
<1>4. ASSUME NEW b \in Caller \ {c}, Busy(b), job[b].at \in {"rename", "rename.set"},
             job[b].name \in marred'
      PROVE  job[b].to \in marred'
  <2>1. b = Disp
    BY <1>4, Known DEF From, UnlockedLabels, DeadLabels, BootLabels
  <2>2. Touches(c) \subseteq marred
    BY <1>2, <1>4, <2>1 DEF LockedOut
  <2>3. job[b].name \in marred
    BY <1>4, <2>1, <2>2 DEF Toks
  <2> QED  BY <1>2, <1>4, <2>3, KnownToks DEF Recalls
<1>5. ASSUME NEW b \in Caller PROVE (Paths(b) /\ Recalls(b) /\ Hushed(b))'
  <2>1. CASE b = c
    BY <2>1 DEF Toks
  <2>2. CASE b # c
    <3>1. Paths(b)'
      <4>1. Paths(b)
        BY KnownToks
      <4> QED  BY <1>1, <2>2, <4>1 DEF Paths
    <3>2. Recalls(b)'
      BY <1>1, <1>2, <1>3, <1>4, <2>2, RecallsOn DEF Steady
    <3>3. Hushed(b)'
      BY <1>1, <1>2, <1>3, <2>2, HushedOn DEF Steady, Hushing
    <3> QED  BY <3>1, <3>2, <3>3
  <2> QED  BY <2>1, <2>2
<1>6. Unclaimed'
  <2>1. SUFFICES ASSUME NEW b \in Caller \ {Disp}, Busy(b)' PROVE job'[b].claim = NoDriver
    BY DEF Unclaimed
  <2>2. Busy(b)
    BY <1>1, <2>1
  <2>3. job[b].claim = NoDriver
    BY <2>1, <2>2, KnownToks
  <2> QED  BY <1>1, <2>1, <2>2, <2>3, ClaimKept
<1> QED  BY <1>5, <1>6 DEF Tok, Toks

-----------------------------------------------------------------------------
(* The bridges and the drivers. *)

\* What such a step leaves of a name.
TurnKeeps(n) ==
  /\ Told(n)' /\ Grows(n)
  /\ Claimed(n) => Claimed(n)'
  /\ \A b \in Caller : /\ Rewinds(b, n) /\ Prompt(n) => Prompt(n)'
                       /\ Hushes(b, n) /\ Still(n) => Still(n)'

\* A step that is no call's, from what it does to the rows and the turns.
LEMMA TurnsKeep ==
  ASSUME LifeInv, TreeInv, Rest, Tok, UNCHANGED <<job, call, runs>>, marred \subseteq marred',
         \A n \in Name \ marred' : TurnKeeps(n),
         \A b \in Caller : Busy(b) /\ job[b].at \in {"rename", "rename.set"} /\ job[b].name \in marred'
           => job[b].to \in marred'
  PROVE  Tok'
<1>1. ASSUME NEW b \in Caller PROVE Paths(b)' /\ Recalls(b)' /\ Hushed(b)'
  <2>1. Paths(b)'
    <3>1. Paths(b)
      BY KnownToks
    <3> QED  BY <3>1 DEF Paths, Busy
  <2>2. Recalls(b)'
    BY RecallsOn DEF TurnKeeps
  <2>3. Hushed(b)'
    BY HushedOn DEF TurnKeeps
  <2> QED  BY <2>1, <2>2, <2>3
<1>2. Unclaimed'
  BY DEF Tok, Unclaimed, Busy
<1>3. \A n \in Name \ marred' : Told(n)'
  BY DEF TurnKeeps
<1> QED  BY <1>1, <1>2, <1>3 DEF Tok

\* What n is told does not depend on who is the caller of a step.
LEMMA ToldLeft ==
  ASSUME LifeInv, Tok, NEW n \in Name \ marred, Grows(n), UNCHANGED <<job, call, runs, conf>>,
         \A d \in Driver : driver'[d].name = n /\ turn'[d].at \in {"busy", "result"}
            => driver[d].name = n /\ turn'[d] = turn[d],
         \A r \in Run : phase[r] # "unused" => phase'[r] # "unused"
  PROVE  Told(n)'
<1>1. Told(n)
  BY DEF Tok
<1>2. rec[n] # Absent => \A b \in Caller : Calls(b, n)' /\ call'[b].op # "stop" => Fits(call'[b].conf, n)
  BY <1>1 DEF Told, CallTold, Calls
<1>3. \A b \in Caller : Switching(b, n) => Switching(b, n)'
  BY DEF Switching, Calls, Busy
<1> QED  BY <1>1, <1>2, <1>3, ToldStays

\* The bridges.
LEMMA BridgeToks ==
  ASSUME LifeInv, TreeInv, Rest, Tok,
         UNCHANGED <<rec, live, driver, turn, marred, job, runs, conf, call>>,
         \A r \in Run : phase[r] # "unused" => phase'[r] # "unused"
  PROVE  Tok'
<1>1. ASSUME NEW n \in Name \ marred
      PROVE  /\ Told(n)' /\ Grows(n)
             /\ Still(n) => Still(n)'
             /\ Prompt(n) => Prompt(n)'
             /\ Claimed(n) => Claimed(n)'
  <2>1. Grows(n) /\ (Still(n) => Still(n)') /\ (Prompt(n) => Prompt(n)') /\ (Claimed(n) => Claimed(n)')
    BY DEF Grows, Still, Prompt, Claimed, Talks
  <2> QED  BY <2>1, ToldLeft
<1>2. ASSUME NEW b \in Caller, Busy(b), job[b].at \in {"rename", "rename.set"}, job[b].name \in marred'
      PROVE  job[b].to \in marred'
  BY <1>2, KnownToks DEF Recalls
<1>3. \A n \in Name \ marred' : TurnKeeps(n)
  BY <1>1 DEF TurnKeeps
<1> QED  BY <1>2, <1>3, TurnsKeep

\* What a turn that goes on or ends makes of the turns of n.
LEMMA TurnHushes ==
  ASSUME LifeInv, NEW d \in Driver, UNCHANGED live,
         \A e \in Driver : driver'[e].name = driver[e].name,
         \A e \in Driver \ {d} : turn'[e] = turn[e],
         \/ turn'[d] = turn[d]
         \/ turn[d].at \in {"busy", "result"} /\ turn'[d].at \in {"idle", "result"},
         NEW n \in Name
  PROVE  (Still(n) => Still(n)') /\ (Prompt(n) => Prompt(n)') /\ (Claimed(n) => Claimed(n)')
<1>1. \A e \in Driver : Talks(e, n)' => Talks(e, n)
  BY DEF Talks
<1>2. Still(n) => Still(n)'
  BY <1>1 DEF Still
<1>3. Prompt(n) => Prompt(n)'
  BY <1>1 DEF Prompt
<1>4. Claimed(n) => Claimed(n)'
  BY DEF Claimed, LifeInv, DriverTyped
<1> QED  BY <1>2, <1>3, <1>4

\* The steps of a turn that is in flight, and the end of a driver.
LEMMA TurnToks ==
  ASSUME LifeInv, TreeInv, Rest, Tok, NEW d \in Driver, UNCHANGED <<supVars, live, job, marred>>,
         \A e \in Driver : driver'[e].name = driver[e].name,
         \A e \in Driver \ {d} : turn'[e] = turn[e],
         \/ turn'[d] = turn[d]
         \/ turn[d].at \in {"busy", "result"} /\ turn'[d].at \in {"idle", "result"},
         \A n \in Name \ marred : Grows(n),
         turn'[d].at = "result" => turn'[d] = turn[d] \/ \A n \in Name \ marred : Told(n)'
  PROVE  Tok'
<1>1. \A n \in Name : (Still(n) => Still(n)') /\ (Prompt(n) => Prompt(n)') /\ (Claimed(n) => Claimed(n)')
  BY TurnHushes
<1>2. ASSUME NEW n \in Name \ marred PROVE Told(n)'
  <2>1. CASE turn'[d].at # "result" \/ turn'[d] = turn[d]
    <3>1. \A e \in Driver : driver'[e].name = n /\ turn'[e].at \in {"busy", "result"}
            => driver[e].name = n /\ turn'[e] = turn[e]
      BY <2>1
    <3>2. Grows(n) /\ UNCHANGED <<job, call, runs, conf>> /\ phase' = phase
      BY DEF supVars
    <3> QED  BY <3>1, <3>2, ToldLeft
  <2>2. CASE turn'[d].at = "result" /\ turn'[d] # turn[d]
    BY <2>2
  <2> QED  BY <2>1, <2>2
<1>3. ASSUME NEW b \in Caller, Busy(b), job[b].at \in {"rename", "rename.set"}, job[b].name \in marred'
      PROVE  job[b].to \in marred'
  BY <1>3, KnownToks DEF Recalls
<1>4. UNCHANGED <<job, call, runs>>
  BY DEF supVars
<1>5. \A n \in Name \ marred' : TurnKeeps(n)
  BY <1>1, <1>2 DEF TurnKeeps
<1> QED  BY <1>1, <1>3, <1>4, <1>5, TurnsKeep

\* What the four steps of a turn in flight come to.
LEMMA AnsweredTold ==
  ASSUME LifeInv, Tok, NEW d \in Driver, TurnAnswered(d), NEW n \in Name \ marred
  PROVE  Told(n)'
<1> DEFINE r == turn[d].run
           t == Yield(conf[r])
           x == [at |-> "result", token |-> t]
<1>1. /\ turn[d].at = "busy" /\ UNCHANGED <<rec, runs, conf, phase, call, job, driver, live>>
      /\ turn' = [turn EXCEPT ![d] = IF phase[r] # "bridge" THEN IdleTurn ELSE x]
  BY DEF TurnAnswered, Yield, Own, supVars
<1>2. x.at = "result" /\ x.token = t /\ IdleTurn.at = "idle"
  BY DEF IdleTurn
<1> HIDE DEF x
<1>3. Told(n) /\ DOMAIN turn = Driver
  BY DEF Tok, LifeInv, TurnInv
<1>4. TurnRuns(n)'
  BY <1>1, <1>2, <1>3 DEF Told, TurnRuns
<1>5. SUFFICES ASSUME rec'[n] # Absent PROVE (RowTold(n) /\ RunTold(n) /\ CallTold(n) /\ TurnTold(n))'
  BY <1>4 DEF Told
<1>6. RowTold(n) /\ RunTold(n) /\ CallTold(n) /\ TurnTold(n)
  BY <1>1, <1>3, <1>5 DEF Told
<1>7. (RowTold(n) /\ RunTold(n) /\ CallTold(n))'
  BY <1>1, <1>6 DEF RowTold, RunTold, CallTold, Fits, Switching, Calls, Busy
<1>8. ASSUME NEW e \in Driver, driver'[e].name = n
      PROVE  /\ turn'[e].at = "result" => Tells(turn'[e].token, n)
             /\ turn'[e].at = "busy" => Tells(Yield(conf[turn'[e].run]), n)
  <2>1. CASE e # d
    BY <1>1, <1>3, <1>6, <1>8, <2>1 DEF TurnTold
  <2>2. CASE e = d
    <3>1. Tells(t, n)
      BY <1>1, <1>6, <1>8, <2>2 DEF TurnTold
    <3> HIDE DEF t
    <3> QED  BY <1>1, <1>2, <1>3, <2>2, <3>1
  <2> QED  BY <2>1, <2>2
<1>9. TurnTold(n)'
  BY <1>1, <1>8 DEF TurnTold, Tells, Yield, Own
<1> QED  BY <1>7, <1>9

LEMMA FlightToks ==
  ASSUME LifeInv, TreeInv, Rest, Tok, NEW d \in Driver,
         TurnAnswered(d) \/ StoreToken(d) \/ DropToken(d) \/ DriverEnds(d)
  PROVE  Tok'
<1>1. DOMAIN turn = Driver /\ IdleTurn.at = "idle" /\ RecTyped /\ DriverTyped
  BY DEF LifeInv, TurnInv, IdleTurn
<1>2. UNCHANGED <<supVars, live, job, marred>>
  BY DEF TurnAnswered, StoreToken, DropToken, DriverEnds, Unchanged, SaveWorks, SaveFails
<1>3. /\ \A e \in Driver \ {d} : turn'[e] = turn[e]
      /\ \/ turn'[d] = turn[d]
         \/ turn[d].at \in {"busy", "result"} /\ turn'[d].at \in {"idle", "result"}
  <2>1. CASE TurnAnswered(d)
    <3> DEFINE x == [at |-> "result", token |-> Yield(conf[turn[d].run])]
    <3>1. x.at = "result"
      OBVIOUS
    <3>2. turn[d].at = "busy"
          /\ turn' = [turn EXCEPT ![d] = IF phase[turn[d].run] # "bridge" THEN IdleTurn ELSE x]
      BY <2>1 DEF TurnAnswered, Yield, Own
    <3> HIDE DEF x
    <3> QED  BY <1>1, <3>1, <3>2
  <2>2. CASE StoreToken(d) \/ DropToken(d) \/ DriverEnds(d)
    BY <1>1, <2>2 DEF StoreToken, DropToken, DriverEnds
  <2> QED  BY <2>1, <2>2
<1>4. \A e \in Driver : driver'[e].name = driver[e].name
  <2>1. CASE DriverEnds(d)
    <3> DEFINE y == [driver[d] EXCEPT !.at = "ended"]
    <3>1. driver[d] \in [at : {"unused", "driving", "ended"}, name : Name, cancelled : BOOLEAN]
      BY <1>1 DEF DriverTyped
    <3>2. y.name = driver[d].name
      BY <3>1
    <3>3. driver' = [driver EXCEPT ![d] = y]
      BY <2>1 DEF DriverEnds
    <3> HIDE DEF y
    <3> QED  BY <1>1, <3>2, <3>3 DEF DriverTyped
  <2>2. CASE ~DriverEnds(d)
    BY <2>2 DEF TurnAnswered, StoreToken, DropToken
  <2> QED  BY <2>1, <2>2
<1>5. ASSUME NEW n \in Name \ marred PROVE Grows(n)
  <2>1. CASE ~StoreToken(d)
    BY <2>1 DEF TurnAnswered, DropToken, DriverEnds, Grows
  <2>2. CASE StoreToken(d)
    <3>1. PICK m \in Name, t \in Token : m = driver[d].name /\ t = turn[d].token
      BY <1>1, <2>2 DEF DriverTyped, StoreToken, LifeInv, TurnInv
    <3>2. rec' = SetResumeToken(m, t) /\ turn[d].at = "result"
      BY <2>2, <3>1 DEF StoreToken, Unchanged, SaveWorks, SaveFails
    <3>3. RowKept(m) /\ (rec[m] # Absent => rec'[m].token = t)
      BY <1>1, <3>2, SetOne
    <3>4. rec[m] # Absent /\ n = m => Tells(t, m)
      BY <3>1, <3>2 DEF Tok, Told, TurnTold
    <3>5. rec[m] # Absent /\ n = m => Grows(m)
      BY <3>3, <3>4 DEF RowKept, Grows, Tells
    <3> QED  BY <3>3, <3>5 DEF RowKept, Grows
  <2> QED  BY <2>1, <2>2
<1>6. turn'[d].at = "result" => turn'[d] = turn[d] \/ \A n \in Name \ marred : Told(n)'
  <2>1. CASE TurnAnswered(d)
    BY <2>1, AnsweredTold
  <2>2. CASE StoreToken(d) \/ DropToken(d)
    BY <1>1, <2>2 DEF StoreToken, DropToken
  <2>3. CASE DriverEnds(d)
    BY <1>1, <2>3 DEF DriverEnds
  <2> QED  BY <2>1, <2>2, <2>3
<1> QED  BY <1>2, <1>3, <1>4, <1>5, <1>6, TurnToks

\* Who is about to cancel a driver acts on its name.
LEMMA LeavingActs ==
  ASSUME LifeInv, TreeInv, Rest, NEW c \in Caller, NEW d \in Driver, NEW n \in Name, n = driver[d].name,
         Busy(c), job[c].at = "dead.cancel", job[c].drv = d
  PROVE  /\ Acts(c, n) /\ Awaits(c, n) /\ call[c] = Idle
         /\ n \notin marred => Sole(c, n)
<1>1. From(c) /\ OwnWork(c) /\ JobOK(c) /\ Held(c)
  BY Known DEF LifeInv, HubInv, HubTable
<1>2. job[c].cur = n
  BY <1>1, DriverAssumption DEF Held
<1>3. c # Disp => job[c].name = n /\ job[c].verb # "boot"
  BY <1>1, <1>2 DEF OwnWork, From, RestartDead, DeadLabels, JobOK, BootLabels
<1>4. Acts(c, n)
  BY <1>3 DEF Acts, Touches
<1>5. n \notin marred => Sole(c, n)
  BY <1>4, OneActs DEF Sole, Rest
<1> QED  BY <1>1, <1>2, <1>4, <1>5 DEF Awaits, From

\* A turn begins on a driver that is in the table or about to be cancelled.
LEMMA StartsOn ==
  ASSUME LifeInv, NEW d \in Driver, StartTurn(d)
  PROVE  live[driver[d].name] = d \/ Leaving(d)
BY DEF StartTurn, LifeInv, HubInv, DriverKept, Drives

\* A turn begins, on the bridge of a session that nobody has hushed.
LEMMA StartUnhushed ==
  ASSUME LifeInv, TreeInv, Rest, Tok, ~outer, NEW d \in Driver, StartTurn(d), NEW n \in Name \ marred',
         n = driver[d].name, NEW b \in Caller
  PROVE  ~Hushes(b, n)
<1>1. /\ n \notin marred /\ turn[d] = IdleTurn
      /\ \A c \in Caller : job[c].verb \in {"restart", "switch"} => job[c].name # n
      /\ \E r \in AliveOf(n) : phase[r] = "bridge"
  BY DEF StartTurn
<1>2. IdleTurn.at = "idle" /\ d # NoDriver
  BY DriverAssumption DEF IdleTurn
<1>3. runs[n] # NoRun
  BY <1>1, Holder DEF LifeInv
<1>4. rec[n] # Absent
  <2>1. PICK c \in Caller : Sole(c, n)
    BY <1>1, SomeSole DEF Rest
  <2>2. BridgeBy(c, n)
    BY <1>1, <2>1 DEF Rest
  <2> QED  BY <1>3, <2>2 DEF BridgeBy
<1>5. SUFFICES ASSUME Hushes(b, n) PROVE FALSE
  OBVIOUS
<1>6. Busy(b) /\ Hushed(b)
  BY <1>5, KnownToks DEF Hushes
<1>7. Knows(b) /\ From(b)
  BY <1>6, Known
<1>8. CASE n = job[b].name /\ job[b].at = "create"
  BY <1>1, <1>4, <1>6, <1>7, <1>8 DEF Knows
<1>9. CASE n = job[b].to /\ job[b].at \in {"rename", "rename.set"}
  <2>1. b = Disp
    BY <1>6, <1>7, <1>9 DEF From, UnlockedLabels, DeadLabels, BootLabels
  <2> QED  BY <1>4, <1>6, <1>7, <1>9, <2>1 DEF Knows
<1>10. CASE n = job[b].name /\ job[b].verb \notin {"restart", "switch"}
            /\ (job[b].at \in {"restart", "restart.set"} \/ RestartDead(b))
  <2>1. CASE live[n] = d
    <3>1. Claims(b)
      BY <1>10 DEF Claims
    <3>2. turn[d].at = "claimed"
      BY <1>1, <1>2, <1>6, <1>10, <2>1, <3>1 DEF Hushed, Claimed
    <3> QED  BY <1>1, <1>2, <3>2
  <2>2. CASE Leaving(d)
    <3>1. PICK c \in Caller : Busy(c) /\ job[c].at = "dead.cancel" /\ job[c].drv = d
      BY <2>2 DEF Leaving
    <3>2. Sole(c, n) /\ call[c] = Idle
      BY <1>1, <3>1, LeavingActs
    <3>3. Acts(b, n)
      BY <1>6, <1>10, JobNames DEF BootLabels, RestartDead, DeadLabels
    <3>4. b = c
      BY <3>2, <3>3 DEF Sole
    <3>5. RestartDead(b) /\ Recalls(b)
      BY <1>10, <3>1, <3>4, KnownToks
    <3> QED  BY <1>1, <1>3, <1>6, <1>10, <3>2, <3>4, <3>5 DEF Recalls
  <2> QED  BY <2>1, <2>2, StartsOn
<1> QED  BY <1>1, <1>5, <1>8, <1>9, <1>10 DEF Hushes

LEMMA StartTold ==
  ASSUME LifeInv, TreeInv, Rest, Tok, NEW d \in Driver, StartTurn(d), NEW n \in Name \ marred'
  PROVE  Told(n)'
<1>1. /\ UNCHANGED <<rec, live, driver, job, call, runs, conf, phase>> /\ marred \subseteq marred'
      /\ n = driver[d].name =>
           \A c \in Caller : job[c].verb \in {"restart", "switch"} => job[c].name # n
      /\ DOMAIN turn = Driver
  BY DEF StartTurn, supVars, LifeInv, TurnInv
<1>2. PICK r \in AliveOf(driver[d].name) :
        phase[r] = "bridge" /\ turn' = [turn EXCEPT ![d] = [at |-> "busy", run |-> r]]
  BY DEF StartTurn
<1> DEFINE x == [at |-> "busy", run |-> r]
<1>3. x.at = "busy" /\ x.run = r /\ turn' = [turn EXCEPT ![d] = x]
  BY <1>2
<1> HIDE DEF x
<1>4. Told(n) /\ Grows(n) /\ n \in Name \ marred
  BY <1>1 DEF Tok, Grows
<1>5. CASE n # driver[d].name
  <2>1. \A e \in Driver : driver'[e].name = n /\ turn'[e].at \in {"busy", "result"}
          => driver[e].name = n /\ turn'[e] = turn[e]
    BY <1>1, <1>3, <1>5
  <2> QED  BY <1>1, <1>4, <2>1, ToldLeft
<1>6. CASE n = driver[d].name
  <2>1. runs[n] = r /\ r \in Run /\ r # NoRun
    BY <1>2, <1>6, RunAssumption DEF LifeInv, SupInv, Reachable, AliveOf
  <2>2. TurnRuns(n)'
    BY <1>1, <1>2, <1>3, <1>4, <2>1 DEF Told, TurnRuns
  <2>3. SUFFICES ASSUME rec'[n] # Absent PROVE (RowTold(n) /\ RunTold(n) /\ CallTold(n) /\ TurnTold(n))'
    BY <2>2 DEF Told
  <2>4. RowTold(n) /\ RunTold(n) /\ CallTold(n) /\ TurnTold(n)
    BY <1>1, <1>4, <2>3 DEF Told
  <2>5. (RowTold(n) /\ RunTold(n) /\ CallTold(n))'
    BY <1>1, <2>4 DEF RowTold, RunTold, CallTold, Fits, Switching, Calls, Busy
  <2>6. ASSUME NEW b \in Caller PROVE ~Switching(b, n)
    <3>1. Paths(b)
      BY KnownToks
    <3> QED  BY <1>1, <1>6, <3>1 DEF Paths, Switching, Calls
  <2>7. Fits(conf[r], n)
    BY <2>1, <2>4, <2>6 DEF RunTold
  <2>8. Tells(Yield(conf[r]), n)
    BY <2>7, YieldTells DEF LifeInv
  <2>9. ASSUME NEW e \in Driver, driver'[e].name = n
        PROVE  /\ turn'[e].at = "result" => Tells(turn'[e].token, n)
               /\ turn'[e].at = "busy" => Tells(Yield(conf[turn'[e].run]), n)
    <3>1. CASE e # d
      BY <1>1, <1>3, <2>4, <2>9, <3>1 DEF TurnTold
    <3>2. CASE e = d
      BY <1>1, <1>3, <2>8, <3>2
    <3> QED  BY <3>1, <3>2
  <2>10. TurnTold(n)'
    BY <1>1, <2>9 DEF TurnTold, Tells, Yield, Own
  <2> QED  BY <2>5, <2>10
<1> QED  BY <1>5, <1>6

LEMMA StartToks ==
  ASSUME LifeInv, TreeInv, Rest, Tok, ~outer, NEW d \in Driver, StartTurn(d)
  PROVE  Tok'
<1>1. /\ UNCHANGED <<rec, live, driver, job, call, runs>> /\ marred \subseteq marred'
      /\ turn[d] = IdleTurn /\ \A e \in Driver \ {d} : turn'[e] = turn[e]
      /\ IdleTurn.at = "idle" /\ d # NoDriver
  BY DriverAssumption DEF StartTurn, supVars, LifeInv, TurnInv, IdleTurn
<1>2. ASSUME NEW n \in Name \ marred', n = driver[d].name, NEW b \in Caller, Rewinds(b, n)
      PROVE  live[n] = d
  <2>1. SUFFICES ASSUME Leaving(d) PROVE FALSE
    BY <1>2, StartsOn
  <2>2. PICK c \in Caller : Busy(c) /\ job[c].at = "dead.cancel" /\ job[c].drv = d
    BY <2>1 DEF Leaving
  <2>3. Sole(c, n)
    BY <1>1, <1>2, <2>2, LeavingActs
  <2>4. Acts(b, n)
    BY <1>2, JobNames DEF Rewinds, BootLabels
  <2> QED  BY <1>2, <2>2, <2>3, <2>4 DEF Sole, Rewinds
<1>3. ASSUME NEW n \in Name \ marred'
      PROVE  TurnKeeps(n)
  <2>1. Told(n)' /\ Grows(n)
    BY <1>1, StartTold DEF Grows
  <2>2. \A e \in Driver : Talks(e, n)' => Talks(e, n) \/ (e = d /\ driver[d].name = n)
    BY <1>1 DEF Talks
  <2>3. \A b \in Caller : Rewinds(b, n) /\ Prompt(n) => Prompt(n)'
    BY <1>1, <1>2, <2>2 DEF Prompt, Talks
  <2>4. Claimed(n) => Claimed(n)'
    BY <1>1 DEF Claimed, LifeInv, DriverTyped
  <2>5. ASSUME NEW b \in Caller, Hushes(b, n), Still(n) PROVE Still(n)'
    <3>1. CASE n = driver[d].name
      BY <2>5, <3>1, StartUnhushed
    <3>2. CASE n # driver[d].name
      BY <2>2, <2>5, <3>2 DEF Still
    <3> QED  BY <3>1, <3>2
  <2> QED  BY <2>1, <2>3, <2>4, <2>5 DEF TurnKeeps
<1>4. ASSUME NEW b \in Caller, Busy(b), job[b].at \in {"rename", "rename.set"}, job[b].name \in marred'
      PROVE  job[b].to \in marred'
  <2>1. b = Disp /\ job[b].verb = "rename" /\ NoJob.verb = "none"
    BY <1>4, Known, KnownToks DEF From, UnlockedLabels, DeadLabels, BootLabels, Paths, NoJob
  <2>2. job[b].name \in marred
    <3>1. SUFFICES ASSUME NEW c \in Caller, job[c].verb \in {"restart", "switch"}, job[c].name = job[b].name
                   PROVE  job[b].name \in marred
      BY <1>4 DEF StartTurn
    <3>2. c \in Unlocked /\ Busy(c) /\ job[c].verb # "boot"
      <4>1. From(c) /\ Busy(c)
        BY <2>1, <3>1 DEF Busy, Rest
      <4> QED  BY <2>1, <3>1, <4>1, CallerAssumption
    <3>3. job[c].name \in Touches(c)
      BY <3>2 DEF Touches
    <3> QED  BY <1>4, <2>1, <3>1, <3>2, <3>3 DEF Rest, LockedOut
  <2> QED  BY <1>1, <1>4, <2>2, KnownToks DEF Recalls
<1>5. UNCHANGED <<job, call, runs>> /\ marred \subseteq marred'
  BY <1>1
<1>6. \A b \in Caller : Busy(b) /\ job[b].at \in {"rename", "rename.set"} /\ job[b].name \in marred'
        => job[b].to \in marred'
  BY <1>4
<1> QED  BY <1>3, <1>5, <1>6, TurnsKeep

-----------------------------------------------------------------------------
(* The calls that begin. *)

LEMMA BeginsToks ==
  ASSUME LifeInv, TreeInv, Rest, Tok, NEW c \in Caller, ~Busy(c),
         UNCHANGED <<supVars, rec, live, driver, turn>>, marred \subseteq marred',
         \A b \in Caller \ {c} : job'[b] = job[b],
         Paths(c)', Recalls(c)', Hushed(c)', c # Disp => job'[c].claim = NoDriver,
         \A b \in Caller \ {c} :
           Busy(b) /\ job[b].at \in {"rename", "rename.set"} /\ job[b].name \in marred' => job[b].to \in marred'
  PROVE  Tok'
<1>1. UNCHANGED <<call, runs, conf, phase>> /\ call[c] = Idle
  BY DEF supVars, TreeInv, OwnCalls
<1>2. ASSUME NEW n \in Name \ marred' PROVE Grows(n) /\ Hushing(n) /\ Told(n)'
  <2>1. Grows(n) /\ Hushing(n)
    BY DEF Grows, Hushing, Still, Prompt, Claimed, Talks
  <2>2. Told(n)
    BY DEF Tok
  <2>3. rec[n] # Absent => \A b \in Caller : Calls(b, n)' /\ call'[b].op # "stop" => Fits(call'[b].conf, n)
    BY <1>1, <2>2 DEF Told, CallTold, Calls
  <2>4. \A b \in Caller : Switching(b, n) => Switching(b, n)'
    BY <1>1 DEF Switching, Calls, Busy
  <2> QED  BY <1>1, <2>1, <2>2, <2>3, <2>4, ToldStays
<1>3. ASSUME NEW b \in Caller PROVE (Paths(b) /\ Recalls(b) /\ Hushed(b))'
  <2>1. CASE b = c
    BY <2>1
  <2>2. CASE b # c
    <3>1. job'[b] = job[b] /\ call'[b] = call[b]
      BY <1>1, <2>2
    <3>2. Paths(b)'
      <4>1. Paths(b)
        BY KnownToks
      <4> QED  BY <3>1, <4>1 DEF Paths, Busy
    <3>3. Recalls(b)'
      BY <1>1, <1>2, <2>2, <3>1, RecallsOn
    <3>4. Hushed(b)'
      BY <1>2, <3>1, HushedOn DEF Hushing
    <3> QED  BY <3>2, <3>3, <3>4
  <2> QED  BY <2>1, <2>2
<1>4. Unclaimed'
  BY DEF Tok, Unclaimed, Busy
<1> QED  BY <1>2, <1>3, <1>4 DEF Tok

\* A name that no turn is about is still.
LEMMA StillTurns ==
  ASSUME NEW n \in Name
  PROVE  (~InTurn(n) => Still(n)) /\ (~Late(n) => Prompt(n))
BY DEF InTurn, Late, TurnsOf, Still, Prompt, Talks, IdleTurn

LEMMA DispatchToks ==
  ASSUME LifeInv, TreeInv, Rest, Tok, NEW v \in Verb, NEW n \in Name, NEW m \in Name, NEW w \in Vendor,
         Dispatch(v, n, m, w)
  PROVE  Tok'
<1> DEFINE f == [vendor |-> w, token |-> NoToken, archived |-> FALSE]
           s == IF v \in {"create", "switch"} THEN f ELSE rec[n]
           k == Job(v, n, m, s)
<1>1. /\ v \in {"create", "close", "archive", "unarchive", "switch", "rewind", "rename", "other"}
      /\ Disp \in Caller /\ ~Busy(Disp) /\ UNCHANGED <<supVars, rec, live, driver, turn>>
      /\ marred \subseteq marred'
      /\ Caller = {Disp} \cup Unlocked /\ Disp \notin Unlocked
  BY VerbAssumption, CallerAssumption DEF Dispatch
<1>2. /\ v \notin {"create", "other"} => rec[n] # Absent
      /\ v # "rename" => m = n
  BY <1>1 DEF Dispatch
<1>3. k.verb = v /\ k.at = v /\ k.name = n /\ k.to = m /\ k.sess = s /\ f.token = NoToken
  BY DEF Job
<1>4. job' = [job EXCEPT ![Disp] = k]
  BY DEF Dispatch
<1>5. /\ v \in {"close", "unarchive", "rename"} => s = rec[n]
      /\ v = "create" => s = f
  OBVIOUS
<1> HIDE DEF f, s, k
<1>6. job'[Disp] = k /\ (\A b \in Caller \ {Disp} : job'[b] = job[b]) /\ call' = call /\ call[Disp] = Idle
  BY <1>1, <1>4 DEF LifeInv, JobInv, JobsTyped, supVars, TreeInv, OwnCalls
<1>7. /\ v \in {"switch", "create", "rename"} /\ m \notin marred' => ~InTurn(m)
      /\ v = "rewind" /\ m \notin marred' => ~Late(m)
      /\ n \in marred' => m \in marred'
  BY DEF Dispatch
<1>8. Paths(Disp)'
  BY <1>1, <1>3, <1>6 DEF Paths
<1>9. Recalls(Disp)'
  <2>1. v \notin CutLabels \cup BootLabels \cup DeadLabels \cup {"restart.set", "rename.start", "rename.set"}
        /\ (v \in SessLabels => v \in {"close", "unarchive", "rename"})
    BY <1>1 DEF CutLabels, BootLabels, DeadLabels, SessLabels
  <2>2. v \in SessLabels => Fits(ConfOf(rec[n]), n)
    BY <1>2, <2>1 DEF Fits, ConfOf
  <2>3. v \in SessLabels => Fits(ConfOf(job[Disp].sess), job[Disp].name)'
    BY <1>1, <1>3, <1>5, <1>6, <2>1, <2>2 DEF Fits, ConfOf
  <2>4. ~RestartDead(Disp)'
    BY <1>3, <1>6, <2>1 DEF RestartDead
  <2>5. v = "create" => job'[Disp].sess.token = NoToken
    BY <1>3, <1>5, <1>6
  <2> QED  BY <1>3, <1>6, <1>7, <2>1, <2>3, <2>4, <2>5 DEF Recalls
<1>10. Hushed(Disp)'
  <2>1. v \notin DeadLabels \cup {"restart", "restart.set", "rename.set"}
    BY <1>1 DEF DeadLabels
  <2>2. \A x \in Name : /\ x \notin marred' /\ x = m /\ v \in {"switch", "create", "rename"} => Still(x)
                        /\ x \notin marred' /\ x = m /\ v = "rewind" => Prompt(x)
    BY <1>7, StillTurns
  <2>3. \A x \in Name : (Still(x) => Still(x)') /\ (Prompt(x) => Prompt(x)')
    BY <1>1 DEF Still, Prompt, Talks
  <2>4. ~RestartDead(Disp)' /\ ~Claims(Disp)'
    BY <1>3, <1>6, <2>1 DEF RestartDead, Claims
  <2>5. ASSUME NEW x \in Name \ marred', Hushes(Disp, x)' PROVE Still(x)'
    BY <1>1, <1>2, <1>3, <1>6, <2>1, <2>2, <2>3, <2>4, <2>5 DEF Hushes
  <2>6. n \notin marred' /\ v = "rewind" => Prompt(n)'
    BY <1>2, <2>2, <2>3
  <2> QED  BY <1>3, <1>6, <2>4, <2>5, <2>6 DEF Hushed
<1>11. ASSUME NEW b \in Caller \ {Disp}, Busy(b) PROVE job[b].at \notin {"rename", "rename.set"}
  BY <1>11, Known DEF From, UnlockedLabels, DeadLabels, BootLabels
<1> QED  BY <1>1, <1>6, <1>8, <1>9, <1>10, <1>11, BeginsToks

LEMMA UnlockedToks ==
  ASSUME LifeInv, TreeInv, Rest, Tok, NEW c \in Unlocked, NEW v \in UnlockedVerb, NEW n \in Name,
         UnlockedCall(c, v, n)
  PROVE  Tok'
<1> DEFINE k == Job(v, n, n, rec[n])
<1>1. /\ v \in {"resume", "restart"} /\ c \in Caller /\ c # Disp /\ Disp \in Caller /\ ~Busy(c)
      /\ UNCHANGED <<supVars, rec, live, driver, turn>> /\ rec[n] # Absent
      /\ marred \subseteq marred' /\ (v = "restart" /\ n \notin marred' => ~InTurn(n))
      /\ Caller = {Disp} \cup Unlocked
  BY VerbAssumption, CallerAssumption DEF UnlockedCall, Recorded
<1>2. k.verb = v /\ k.at = v /\ k.name = n /\ k.to = n /\ k.sess = rec[n] /\ k.claim = NoDriver
  BY DEF Job
<1>3. job' = [job EXCEPT ![c] = k]
  BY DEF UnlockedCall
<1> HIDE DEF k
<1>4. job'[c] = k /\ (\A b \in Caller \ {c} : job'[b] = job[b]) /\ call' = call /\ call[c] = Idle
  BY <1>1, <1>3 DEF LifeInv, JobInv, JobsTyped, supVars, TreeInv, OwnCalls
<1>5. v \notin CutLabels \cup BootLabels \cup DeadLabels
               \cup {"restart.set", "rename.start", "rename", "rename.set", "create", "rewind", "switch",
                     "switch.restart"}
  BY <1>1 DEF CutLabels, BootLabels, DeadLabels
<1>6. ~RestartDead(c)' /\ ~Claims(c)' /\ Paths(c)'
  BY <1>1, <1>2, <1>4, <1>5 DEF RestartDead, Claims, Paths
<1>7. Recalls(c)'
  <2>1. Fits(ConfOf(rec[n]), n)
    BY <1>1 DEF Fits, ConfOf
  <2>2. Fits(ConfOf(job[c].sess), job[c].name)'
    BY <1>1, <1>2, <1>4, <2>1 DEF Fits, ConfOf
  <2> QED  BY <1>2, <1>4, <1>5, <1>6, <2>2 DEF Recalls
<1>8. Hushed(c)'
  <2>1. n \notin marred' /\ v = "restart" => Still(n)'
    <3>1. Still(n) => Still(n)'
      BY <1>1 DEF Still, Talks
    <3> QED  BY <1>1, <3>1, StillTurns
  <2>2. ASSUME NEW x \in Name \ marred', Hushes(c, x)' PROVE Still(x)'
    BY <1>1, <1>2, <1>4, <1>5, <1>6, <2>1, <2>2 DEF Hushes
  <2> QED  BY <1>2, <1>4, <1>5, <1>6, <2>2 DEF Hushed
<1>9. ASSUME NEW b \in Caller \ {c}, Busy(b), job[b].at \in {"rename", "rename.set"}, job[b].name \in marred'
      PROVE  job[b].to \in marred'
  <2>1. b = Disp
    BY <1>9, Known DEF From, UnlockedLabels, DeadLabels, BootLabels
  <2>2. job[b].name \in marred => job[b].to \in marred
    BY <1>9, KnownToks DEF Recalls
  <2>3. {job[b].name, job[b].to} \subseteq Touches(b)
    <3>1. job[b].verb # "boot"
      BY <1>9, JobNames DEF BootLabels
    <3> QED  BY <1>9, <3>1 DEF Touches
  <2>4. /\ \A x \in Caller \ {Disp} : Touches(x) \subseteq marred
        /\ marred' = marred \cup {n} \cup UNION {Touches(x) : x \in {y \in Caller : n \in Touches(y)}}
    BY <1>1, <1>9, <2>1 DEF Rest, LockedOut, UnlockedCall
  <2>5. CASE n \in Touches(b)
    BY <2>3, <2>4, <2>5
  <2>6. CASE n \notin Touches(b)
    BY <1>9, <2>1, <2>2, <2>3, <2>4, <2>6
  <2> QED  BY <2>5, <2>6
<1> QED  BY <1>1, <1>2, <1>4, <1>6, <1>7, <1>8, <1>9, BeginsToks

-----------------------------------------------------------------------------
(* The steps of the daemon. *)

LEMMA TokKept == LifeInv /\ TreeInv /\ RestInv /\ TokInv /\ [Next]_vars => (RestInv /\ TokInv)'
<1> SUFFICES ASSUME LifeInv, TreeInv, RestInv, TokInv, [Next]_vars PROVE (RestInv /\ TokInv)'
  OBVIOUS
<1>1. [SupNext]_supVars /\ LifeInv' /\ TreeInv'
  BY DaemonStep, TreeKept
<1>2. CASE outer
  BY <1>1, <1>2, OuterStays DEF RestInv, TokInv
<1>3. CASE Rest /\ Tok /\ ~outer
  <2>1. ASSUME NEW c \in Caller, VerbStep(c) PROVE Rest' /\ Tok'
    <3>1. Fine(c) /\ Does(c)
      BY <2>1, VerbFine, VerbDoes
    <3>2. Busy(c)
      BY <2>1 DEF VerbStep, Create, Close, Archive, Unarchive, Rename, Switch, Rewind, RewindBusy,
         Restart, Resume, BootLoop, Finish, Reconcile, DeadDelete, DeadCancel, DeadWait, At, CallerStep,
         TreeInv, OwnCalls
    <3>3. Rests(c) /\ Toks(c)
      BY <1>3, <2>1, <3>1, StepBoth DEF Fine, Both
    <3>4. Others(c)
      BY <3>1, <3>2, OthersStay
    <3> QED  BY <1>1, <1>3, <2>1, <3>2, <3>3, <3>4, RestsKeeps, ToksKeeps
  <2>2. CASE Shutdown
    BY <2>2 DEF Shutdown, CtxEnds, RestInv, TokInv
  <2>3. CASE UNCHANGED vars
    <3>1. UNCHANGED <<rec, live, driver, turn, socket, marred, job, runs, conf, stopping, call, phase>>
      BY <2>3 DEF vars, supVars, hubVars
    <3>2. LiveDrives' /\ RowsStay /\ \A k \in Name : Same(k)
      BY <1>3, <3>1 DEF Rest, LiveDrives, RowsStay, Same
    <3> QED  BY <1>3, <3>1, <3>2, StillRests, BridgeToks DEF RestInv, TokInv
  <2>4. ASSUME NEW r \in Run, BridgeStep(r) PROVE Rest' /\ Tok'
    <3>1. /\ UNCHANGED <<rec, live, driver, turn, marred, job, runs, conf, call>>
          /\ \E p \in Phase \ {"unused"} : phase' = [phase EXCEPT ![r] = p]
      BY <2>4, LoopMoves DEF BridgeStep, LifeInv, SupInv
    <3>2. \A q \in Run : phase[q] # "unused" => phase'[q] # "unused"
      BY <3>1 DEF LifeInv, SupInv, TypeOK
    <3> QED  BY <1>3, <2>4, <3>1, <3>2, BridgeRests, BridgeToks
  <2>5. ASSUME NEW d \in Driver, DriverStep(d) PROVE Rest' /\ Tok'
    BY <1>3, <2>5, DriverRests, StartToks, FlightToks DEF DriverStep, StopLive
  <2> QED  BY <1>3, <2>1, <2>2, <2>3, <2>4, <2>5, DispatchRests, DispatchToks, UnlockedRests, UnlockedToks
           DEF Next, RestInv, TokInv
<1> QED  BY <1>2, <1>3 DEF RestInv, TokInv

\* The daemon boots: its boot loop is about every row in use, and nothing is live.
LEMMA RestInit == Init => RestInv
<1> SUFFICES ASSUME Init PROVE Rest
  BY DEF RestInv
<1> DEFINE n0 == CHOOSE n \in Name : TRUE
           S == {n \in Name : InUse(n)}
           j == Job("boot", n0, n0, Absent)
           B == [j EXCEPT !.todo = S]
<1>0. LifeInv /\ TreeInv
  BY StartInv, TreeInit
<1>1. j \in JobType /\ j.verb = "boot" /\ j.at = "boot" /\ j.all = rec
  BY <1>0, SomeNames, FreshJob DEF LifeInv, Sessions, Verbs
<1>2. job = [c \in Caller |-> IF c = Boot THEN B ELSE NoJob]
  BY DEF Init
<1>3. B.verb = "boot" /\ B.at = "boot" /\ B.all = rec /\ B.todo = S
  <2> HIDE DEF j, S
  <2> QED  BY <1>1 DEF JobType
<1> HIDE DEF B, j
<1>4. /\ Boot \in Caller /\ Disp \in Caller /\ Boot # Disp /\ job[Boot] = B /\ Busy(Boot)
      /\ \A c \in Caller \ {Boot} : ~Busy(c)
      /\ \A c \in Caller : call[c] = Idle
  <2>1. NoJob.verb = "none"
    BY DEF NoJob
  <2> QED  BY <1>2, <1>3, <2>1, CallerAssumption DEF Busy, Init, SupInit
<1>5. /\ \A n \in Name : runs[n] = NoRun /\ live[n] = NoDriver
      /\ \A d \in Driver : driver[d].at = "unused"
  BY DEF Init, SupInit
<1>6. ASSUME NEW c \in Caller PROVE From(c) /\ Downs(c) /\ Knows(c) /\ BootKnows(c)
  BY <1>3, <1>4, <1>6
     DEF From, FreeVerbs, UnlockedLabels, BootLabels, DeadLabels, RestartDead, Downs, Knows, RowLabels,
         UpLabels, BootKnows
<1>7. ASSUME NEW n \in Name, NEW c \in Caller, Sole(c, n) PROVE BridgeBy(c, n) /\ HostedBy(c, n)
  <2>1. InUse(n) => c = Boot
    BY <1>3, <1>4, <1>7 DEF Sole, Acts, Touches
  <2>2. BridgeBy(c, n)
    BY <1>3, <1>4, <1>5, <2>1 DEF BridgeBy, Calls, Running, Starting, BootLabels
  <2>3. HostedBy(c, n)
    BY <1>3, <1>4, <1>5, <2>1 DEF HostedBy, Awaits, Rising, BootLabels
  <2> QED  BY <2>2, <2>3
<1>8. LockedOut /\ LiveDrives /\ \A n \in Name : Swept(n)
  BY <1>4, <1>5 DEF LockedOut, LiveDrives, Swept
<1> QED  BY <1>6, <1>7, <1>8 DEF Rest

LEMMA TokInit == Init => TokInv
<1> SUFFICES ASSUME Init PROVE Tok
  BY DEF TokInv
<1> DEFINE n0 == CHOOSE n \in Name : TRUE
           S == {n \in Name : InUse(n)}
           j == Job("boot", n0, n0, Absent)
           B == [j EXCEPT !.todo = S]
<1>0. LifeInv
  BY StartInv
<1>1. j \in JobType /\ j.verb = "boot" /\ j.at = "boot" /\ j.all = rec /\ j.claim = NoDriver
  BY <1>0, SomeNames, FreshJob DEF LifeInv, Sessions, Verbs, Job
<1>2. job = [c \in Caller |-> IF c = Boot THEN B ELSE NoJob]
  BY DEF Init
<1>3. B.verb = "boot" /\ B.at = "boot" /\ B.all = rec /\ B.todo = S /\ B.claim = NoDriver
  <2> HIDE DEF j, S
  <2> QED  BY <1>1 DEF JobType
<1> HIDE DEF B, j
<1>4. /\ Boot \in Caller /\ job[Boot] = B
      /\ \A c \in Caller \ {Boot} : ~Busy(c)
      /\ \A c \in Caller : call[c] = Idle
  BY <1>2, CallerAssumption DEF Busy, Init, SupInit
<1>5. ASSUME NEW c \in Caller PROVE Paths(c) /\ Recalls(c) /\ Hushed(c)
  <2>1. CASE c # Boot
    BY <1>4, <2>1 DEF Paths, Recalls, Hushed, Hushes
  <2>2. CASE c = Boot
    <3>1. \A n \in S : Fits(ConfOf(rec[n]), n)
      BY DEF Fits, ConfOf, InUse
    <3>2. Recalls(c)
      BY <1>3, <1>4, <2>2, <3>1 DEF Recalls, SessLabels, CutLabels, RestartDead, DeadLabels
    <3>3. Paths(c) /\ Hushed(c)
      BY <1>3, <1>4, <2>2 DEF Paths, Hushed, Hushes, Claims, RestartDead, DeadLabels
    <3> QED  BY <3>2, <3>3
  <2> QED  BY <2>1, <2>2
<1>6. Unclaimed
  BY <1>3, <1>4 DEF Unclaimed
<1>7. ASSUME NEW n \in Name PROVE Told(n)
  <2>1. /\ runs[n] = NoRun /\ turn = [d \in Driver |-> IdleTurn]
        /\ rec[n] # Absent => rec[n].token = NoToken
    BY DEF Init, SupInit
  <2>2. \A d \in Driver : turn[d].at = "idle"
    BY <2>1 DEF IdleTurn
  <2> QED  BY <1>4, <2>1, <2>2 DEF Told, TurnRuns, RowTold, RunTold, CallTold, TurnTold, Calls
<1> QED  BY <1>5, <1>6, <1>7 DEF Tok

\* The rest of the daemon and its conversations, kept together: what a turn may
\* report depends on which driver is live and who acts on its session.
DaemonInv == LifeInv /\ TreeInv /\ RestInv /\ TokInv

LEMMA DaemonKept == Spec => []DaemonInv
<1>1. Init => DaemonInv
  BY StartInv, TreeInit, RestInit, TokInit DEF DaemonInv
<1>2. DaemonInv /\ [Next]_vars => DaemonInv'
  BY DaemonStep, TreeKept, TokKept DEF DaemonInv
<1> QED  BY <1>1, <1>2, PTL DEF Spec

\* No driver is lost: one at work is the one of the table under its name, or is about
\* to be cancelled by the goDead that took it out; and a name has one at work, however
\* goDead's delete and cancel, which hold no lock together, fall among the steps of the
\* other callers, of the drivers and of the bridges, unless unlocked calls overlapped
\* on the name or the daemon is stopping (hub.go:77-186).
THEOREM OneDriverPerName == Spec => []OneDriver
<1>1. DaemonInv => OneDriver
  <2> SUFFICES ASSUME DaemonInv PROVE OneDriver
    OBVIOUS
  <2>1. DriverKept /\ LifeInv /\ TreeInv
    BY DEF DaemonInv, LifeInv, HubInv
  <2>2. SUFFICES ASSUME NEW d \in Driver, NEW e \in Driver, Drives(d), Drives(e),
                        driver[d].name = driver[e].name, Untouched(driver[d].name)
                 PROVE  d = e
    BY <2>1 DEF OneDriver
  <2>3. PICK n \in Name : n = driver[d].name
    BY <2>1 DEF LifeInv, DriverTyped
  <2>4. Rest /\ n \notin marred /\ n = driver[e].name
    BY <2>2, <2>3 DEF DaemonInv, RestInv, Untouched
  <2>5. ASSUME NEW x \in Driver, n = driver[x].name, NEW c \in Caller,
               Busy(c), job[c].at = "dead.cancel", job[c].drv = x
        PROVE  live[n] = NoDriver /\ Sole(c, n) /\ Acts(c, n)
    <3>1. Sole(c, n) /\ Awaits(c, n) /\ Acts(c, n)
      BY <2>1, <2>4, <2>5, LeavingActs
    <3> QED  BY <2>4, <3>1 DEF Rest, HostedBy
  <2>6. (live[n] = d \/ Leaving(d)) /\ (live[n] = e \/ Leaving(e))
    BY <2>1, <2>2, <2>3, <2>4 DEF DriverKept
  <2>7. CASE Leaving(d)
    <3>1. PICK c \in Caller : Busy(c) /\ job[c].at = "dead.cancel" /\ job[c].drv = d
      BY <2>7 DEF Leaving
    <3>2. live[n] = NoDriver /\ Sole(c, n)
      BY <2>3, <2>5, <3>1
    <3>3. PICK b \in Caller : Busy(b) /\ job[b].at = "dead.cancel" /\ job[b].drv = e
      BY <2>6, <3>2, DriverAssumption DEF Leaving
    <3>4. Acts(b, n)
      BY <2>4, <2>5, <3>3
    <3> QED  BY <3>1, <3>2, <3>3, <3>4 DEF Sole
  <2>8. CASE Leaving(e)
    <3>1. PICK c \in Caller : Busy(c) /\ job[c].at = "dead.cancel" /\ job[c].drv = e
      BY <2>8 DEF Leaving
    <3>2. live[n] = NoDriver
      BY <2>4, <2>5, <3>1
    <3> QED  BY <2>6, <2>7, <3>2, DriverAssumption
  <2> QED  BY <2>6, <2>7, <2>8
<1> QED  BY <1>1, DaemonKept, PTL

\* A session in use and its bridge, when no verb is in progress.
LEMMA QuietBy ==
  ASSUME LifeInv, TreeInv, RestInv, Quiet, NEW n \in Name, Untouched(n)
  PROVE  /\ InUse(n) <=> live[n] # NoDriver
         /\ InUse(n) => /\ Running(n) /\ conf[runs[n]].vendor = rec[n].vendor
                        /\ socket[n] = live[n]
<1>1. Rest /\ n \in Name \ marred /\ Disp \in Caller /\ \A c \in Caller : ~Busy(c) /\ call[c] = Idle
  BY CallerAssumption DEF RestInv, Untouched, Quiet
<1>2. BridgeBy(Disp, n) /\ HostedBy(Disp, n)
  BY <1>1 DEF Rest, Sole, Acts
<1>3. ~Calls(Disp, n) /\ ~Starting(Disp, n) /\ ~Switching(Disp, n) /\ ~Rising(Disp, n)
  BY <1>1, IdleBy DEF Rest, Acts
<1> QED  BY <1>1, <1>2, <1>3 DEF BridgeBy, HostedBy, Running

\* When no verb is in progress, a session in use that nothing went wrong with and
\* that no unlocked call overlapped has its bridge, with the recorded backend, a
\* driver and the control socket the bridge dials, and no other session has a
\* driver: whatever verbs, unlocked calls, exits of bridges and ends of turns came
\* before, in whatever order (hub.go:77-214, session.go:417-1080).
THEOREM RestsWhenQuiet == Spec => []AtRest
<1>1. DaemonInv => AtRest
  BY QuietBy DEF DaemonInv, AtRest
<1> QED  BY <1>1, DaemonKept, PTL

\* When no verb is in progress, the bridge of such a session continues the
\* conversation that is recorded for it, or began the one that was not recorded
\* yet, and the recorded one is of the session's vendor: no turn, whenever it ends,
\* brings back the conversation a rewind, a fork or a switch has left
\* (state.go:514-530, hub.go:101-107, checkpoint_cmd.go:153).
THEOREM ContinuesOwn == Spec => []Continues
<1>1. DaemonInv => Continues
  <2> SUFFICES ASSUME DaemonInv, Quiet, NEW n \in Name, Untouched(n), InUse(n)
               PROVE  /\ conf[runs[n]].token # NoToken => rec[n].token = conf[runs[n]].token
                      /\ rec[n].token # NoToken => rec[n].token.vendor = rec[n].vendor
    BY DEF Continues
  <2>1. Tok /\ Told(n) /\ rec[n] # Absent
    BY DEF DaemonInv, TokInv, Tok, Untouched, InUse
  <2>2. runs[n] # NoRun
    BY QuietBy DEF DaemonInv, Running
  <2>3. ~\E b \in Caller : Switching(b, n)
    BY DEF Quiet, Switching, Calls
  <2> QED  BY <2>1, <2>2, <2>3 DEF Told, RowTold, RunTold, Fits
<1> QED  BY <1>1, DaemonKept, PTL

=============================================================================
