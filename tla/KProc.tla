------------------------------- MODULE KProc -------------------------------
(***************************************************************************)
(* The multi-tasking layer of lib/kproc.c over the scheduler of            *)
(* lib/ksched.c (SchedList): creation of threads, PROC_run(), yield(),     *)
(* PROC_reschedule(), kexit() and PROC_set_scheduler().  Everything runs on*)
(* one processor and no interrupt handler enters this code, so each call is*)
(* one step.                                                               *)
(*                                                                         *)
(* A thread is the address of its record.  kfree() makes the address       *)
(* available to the next kmalloc(), so a later thread may be the same      *)
(* element of Thread; its scheduler links then hold what the memory held.  *)
(* (The size given to kmalloc() for the record is the subject of           *)
(* ThreadHeap, not of this module.)                                        *)
(***************************************************************************)
EXTENDS SchedList, FiniteSets

CONSTANTS
  Main,     (* main_kthread, the record PROC_init() makes for kmain *)
  MaxPid,   (* bound: threads created *)
  MaxLen    (* bound: ll_len reached by PROC_run() and admissions *)

ASSUME MainAssumption == Main \notin Link
ASSUME BoundsAssumption == MaxPid \in Nat /\ MaxLen \in Nat

VARIABLES
  list,       (* the scheduler's list *)
  halted,     (* validate_ll() halted the system *)
  setup,      (* PROC_init() has run *)
  live,       (* records allocated and not freed, Main included *)
  pid,        (* pid of each record *)
  pid_cnt,    (* the counter of pids *)
  curr,       (* curr_kthread *)
  admitted,   (* auxiliary: threads their creator handed to admit() *)
  reruns,     (* auxiliary: threads admitted once more by PROC_run() *)
  destroyed,  (* auxiliary: some thread was destroyed by kexit() *)
  active,     (* active_sched is not NULL *)
  replaced,   (* it is another scheduler than the round robin *)
  other       (* the threads that one was handed, in order *)

threads == <<live, pid, pid_cnt, admitted, reruns, destroyed>>
transfer == <<active, replaced, other>>
vars == <<list, halted, setup, curr, threads, transfer>>

Running == ~halted /\ ~replaced

Init ==
  /\ list = EmptyList([t \in Thread |-> NULL], [t \in Thread |-> NULL])
  /\ halted = FALSE
  /\ setup = FALSE
  /\ live = {}
  /\ pid = [t \in Thread |-> 0]
  /\ pid_cnt = 0
  /\ curr = NULL
  /\ admitted = {}
  /\ reruns = 0
  /\ destroyed = FALSE
  /\ active = FALSE
  /\ replaced = FALSE
  /\ other = <<>>

-----------------------------------------------------------------------------
(* Mutated forms of PROC_create_kthread(). *)
\* the pid is the number of live threads
CreateReusingPids(t) ==
  /\ Running
  /\ t \notin live
  /\ pid_cnt < MaxPid
  /\ pid_cnt' = pid_cnt + 1
  /\ pid' = [pid EXCEPT ![t] = Cardinality(live \ {Main}) + 1]
  /\ live' = live \cup {t}
  /\ \E n, p \in Link : list' = [list EXCEPT !.next[t] = n, !.prev[t] = p]
  /\ UNCHANGED <<halted, setup, curr, admitted, reruns, destroyed, transfer>>

-----------------------------------------------------------------------------
(* PROC_create_kthread(): the record and its stack come from kmalloc(). The *)
(* links of the record are not initialised.                                 *)
PROC_create_kthread(t) ==
  /\ Running
  /\ t \notin live
  /\ pid_cnt < MaxPid
  /\ pid_cnt' = pid_cnt + 1
  /\ pid' = [pid EXCEPT ![t] = pid_cnt + 1]
  /\ live' = live \cup {t}
  /\ \E n, p \in Link : list' = [list EXCEPT !.next[t] = n, !.prev[t] = p]
  /\ UNCHANGED <<halted, setup, curr, admitted, reruns, destroyed, transfer>>

(* The creator schedules its thread, once, with rr_admit(). *)
AdmitThread(t) ==
  /\ Running
  /\ t \in live \ admitted
  /\ list.len < MaxLen
  /\ IF validate_ll(list)
     THEN /\ list' = Admitted(list, t)
          /\ admitted' = admitted \cup {t}
          /\ UNCHANGED halted
     ELSE halted' = TRUE /\ UNCHANGED <<list, admitted>>
  /\ UNCHANGED <<setup, live, pid, pid_cnt, curr, reruns, destroyed, transfer>>

(* active_sched->next(), as the value left in curr_kthread. *)
Reschedule ==
  IF validate_ll(list)
  THEN curr' = Served(list) /\ list' = Rotated(list) /\ UNCHANGED halted
  ELSE halted' = TRUE /\ UNCHANGED <<curr, list>>

(***************************************************************************)
(* PROC_run(): PROC_init() on the first call, then next(), then admit() of *)
(* the thread next() chose, which is still in the list.                    *)
(***************************************************************************)
PROC_run ==
  /\ Running
  /\ list.len < MaxLen
  /\ setup' = TRUE
  /\ active' = TRUE
  /\ live' = IF setup THEN live ELSE live \cup {Main}
  /\ IF ~validate_ll(list)
     THEN /\ halted' = TRUE
          /\ curr' = IF setup THEN curr ELSE Main
          /\ UNCHANGED <<list, reruns>>
     ELSE /\ curr' = Served(list)
          /\ IF curr' = NULL
             THEN UNCHANGED <<list, halted, reruns>>
             ELSE LET chosen == Rotated(list)
                  IN  IF validate_ll(chosen)
                      THEN /\ list' = Admitted(chosen, curr')
                           /\ reruns' = reruns + 1
                           /\ UNCHANGED halted
                      ELSE /\ list' = chosen
                           /\ halted' = TRUE
                           /\ UNCHANGED reruns
  /\ UNCHANGED <<pid, pid_cnt, admitted, destroyed, replaced, other>>

(* PROC_reschedule() and yield() have the same body. *)
PROC_reschedule ==
  /\ Running
  /\ active
  /\ Reschedule
  /\ UNCHANGED <<setup, threads, transfer>>

(***************************************************************************)
(* kexit() of the current thread: its record and stack are freed, and      *)
(* next() chooses another.  The thread is not removed from the list.       *)
(***************************************************************************)
kexit ==
  /\ Running
  /\ active
  /\ curr \in live
  /\ live' = live \ {curr}
  /\ admitted' = admitted \ {curr}
  /\ destroyed' = (destroyed \/ curr # Main)
  /\ Reschedule
  /\ UNCHANGED <<setup, pid, pid_cnt, reruns, transfer>>

\* a thread is not removed from the old scheduler
HandOverKeeping(s) ==
  LET th == Served(s.list)
      left == Rotated(s.list)
  IN  IF s.halted \/ ~validate_ll(s.list) THEN [s EXCEPT !.halted = TRUE]
      ELSE IF th = NULL THEN s
      ELSE [list |-> left, other |-> Append(s.other, th), halted |-> ~validate_ll(left)]

(* An iteration of the transfer: next() of the old scheduler, admit() of    *)
(* the new one, remove() of the old one.                                    *)
HandOver(s) ==
  LET th == Served(s.list)
      left == Rotated(s.list)
  IN  IF s.halted \/ ~validate_ll(s.list) THEN [s EXCEPT !.halted = TRUE]
      ELSE IF th = NULL THEN s
      ELSE [list |-> IF validate_ll(left) THEN Removed(left, th) ELSE left,
            other |-> Append(s.other, th),
            halted |-> ~validate_ll(left)]

(***************************************************************************)
(* PROC_set_scheduler() while no scheduler is active, or with NULL, which  *)
(* chooses the round robin: nothing is transferred, not even threads that  *)
(* rr_admit() has queued before.                                           *)
(***************************************************************************)
InstallScheduler ==
  /\ Running
  /\ active' = TRUE
  /\ replaced' \in (IF active THEN {FALSE} ELSE BOOLEAN)
  /\ UNCHANGED <<list, halted, setup, curr, threads, other>>

(***************************************************************************)
(* PROC_set_scheduler() with another scheduler: the current thread is      *)
(* handed over first, then what next() returns until it is NULL, which is  *)
(* after ll_len iterations.  The other scheduler keeps its threads outside *)
(* the records; what it does with them is not modelled.                    *)
(***************************************************************************)
ReplaceScheduler ==
  /\ Running
  /\ active
  /\ LET first == IF curr = NULL THEN <<>> ELSE <<curr>>
         after[k \in 0 .. (list.len + 1)] ==
           IF k = 0 THEN [list |-> list, other |-> first, halted |-> FALSE]
           ELSE HandOver(after[k - 1])
         end == after[list.len + 1]
     IN  /\ list' = end.list
         /\ other' = end.other
         /\ halted' = end.halted
         /\ replaced' = ~end.halted
  /\ UNCHANGED <<setup, curr, threads, active>>

PROC_set_scheduler == InstallScheduler \/ ReplaceScheduler

Next ==
  \/ \E t \in Thread : PROC_create_kthread(t) \/ AdmitThread(t)
  \/ PROC_run
  \/ PROC_reschedule
  \/ kexit
  \/ PROC_set_scheduler

Spec == Init /\ [][Next]_vars

-----------------------------------------------------------------------------
TypeOK ==
  /\ list \in List
  /\ halted \in BOOLEAN /\ setup \in BOOLEAN /\ destroyed \in BOOLEAN
  /\ live \subseteq Thread \cup {Main}
  /\ pid \in [Thread -> 0..MaxPid] /\ pid_cnt \in 0..MaxPid
  /\ curr \in Link \cup {Main}
  /\ admitted \subseteq Thread
  /\ reruns \in Nat
  /\ active \in BOOLEAN /\ replaced \in BOOLEAN /\ other \in Seq(Link \cup {Main})

(***************************************************************************)
(* Two live threads never share a pid, and none has the pid 0 of the main  *)
(* thread, across any number of creations and exits (kproc.c:38, 174).     *)
(***************************************************************************)
PidsUnique ==
  \A s, t \in live \ {Main} : pid[s] # 0 /\ (pid[s] = pid[t] => s = t)

(***************************************************************************)
(* Although PROC_run() admits the thread it chose a second time (line      *)
(* 162), no thread is lost and none is met twice: until a thread is        *)
(* destroyed or handed to another scheduler, walking the list for as many  *)
(* steps as there are scheduled threads meets each of them.  (With the     *)
(* types.)                                                                 *)
(***************************************************************************)
RotationComplete ==
  /\ TypeOK
  /\ ~destroyed /\ other = <<>> =>
       LET n    == Cardinality(admitted)
           walk == Walk(list, n)
       IN  {walk[i] : i \in 1..n} = admitted

(***************************************************************************)
(* A change of the scheduler that completes leaves nobody behind: until a  *)
(* thread is destroyed, the old list is empty and the new scheduler was    *)
(* handed every scheduled thread in the order of next(), behind at most    *)
(* the current one (kproc.c:46-50, 74).                                    *)
(***************************************************************************)
TransferWhole ==
  [][ReplaceScheduler /\ ~destroyed /\ ~halted' =>
       LET n     == Cardinality(admitted)
           first == Len(other') - n
       IN  /\ first \in {0, 1}
           /\ [i \in 1..n |-> other'[first + i]] = Walk(list, n)
           /\ QueueOf(list') = <<>>]_vars

(***************************************************************************)
(* What kproc.h says of kexit(): it "destroys" the calling thread and the  *)
(* scheduler picks "a new thread to run" (lines 139-140).  While the       *)
(* system runs, the current thread is never one whose record was freed.    *)
(***************************************************************************)
NoDestroyedThreadRuns == ~halted => curr \in live \cup {NULL}
=============================================================================
