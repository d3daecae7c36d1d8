-------------------------------- MODULE IPC --------------------------------
(***************************************************************************)
(* What the kernel's SEND/RECV promises (spec 4.5), without slots, records *)
(* or scans.  Each process has at most one outstanding request: a SEND of  *)
(* a message to a pid, or a RECV from a pid or from anyone.  A rendez-vous *)
(* completes a SEND and a RECV that match, in one step: the receiver's box *)
(* gets the sender and the message, and both processes are free again.    *)
(*                                                                         *)
(* One kernel trap is one step here: the trapping process may post a       *)
(* request (Call), some processes may die (Exit), a process may be born    *)
(* (Spawn), or nothing of the sort (Yield); the yield that ends the trap   *)
(* may then complete any set of matching pairs (Apply).  A request ends    *)
(* only in a rendez-vous or with the death of its process.                 *)
(***************************************************************************)
EXTENDS FiniteSets

CONSTANTS
    Procs,      \* pids
    Msgs,       \* message payloads
    ALL,        \* the wildcard sender of a RECV
    NoMsg       \* payload of an empty box

VARIABLES
    req,        \* req[p]: the request p is blocked in, or Idle
    box,        \* box[p]: sender and message of the last RECV p completed
    alive       \* the processes that exist

Idle  == [kind |-> "IDLE", peer |-> ALL, msg |-> NoMsg]
NoBox == [from |-> 0, msg |-> NoMsg]

Requests ==
    [kind: {"SEND"}, peer: Procs, msg: Msgs]
      \cup [kind: {"RECV"}, peer: Procs \cup {ALL}, msg: {NoMsg}]

TypeOK ==
    /\ req \in [Procs -> Requests \cup {Idle}]
    /\ box \in [Procs -> [from: Procs, msg: Msgs] \cup {NoBox}]
    /\ alive \subseteq Procs

\* s's SEND and r's RECV match under the request function q.
Matches(q, s, r) ==
    /\ q[s].kind = "SEND" /\ q[s].peer = r
    /\ q[r].kind = "RECV" /\ q[r].peer \in {ALL, s}

\* A set of rendez-vous completed together: each process in at most one.
Rendezvous(q) ==
    {M \in SUBSET {<<s, r>> \in Procs \X Procs : Matches(q, s, r)} :
        \A m, n \in M : m # n => {m[1], m[2]} \cap {n[1], n[2]} = {}}

\* Complete the rendez-vous M on top of the requests q.
Apply(q, M) ==
    LET ends == {m[1] : m \in M} \cup {m[2] : m \in M} IN
    /\ req' = [p \in Procs |-> IF p \in ends THEN Idle ELSE q[p]]
    /\ box' = [p \in Procs |->
                 IF \E m \in M : m[2] = p
                 THEN LET s == (CHOOSE m \in M : m[2] = p)[1]
                      IN [from |-> s, msg |-> q[s].msg]
                 ELSE box[p]]

\* A free process blocks in a request.
Call(p) ==
    /\ p \in alive /\ req[p] = Idle /\ UNCHANGED alive
    /\ \E x \in Requests :
          LET q == [req EXCEPT ![p] = x] IN \E M \in Rendezvous(q) : Apply(q, M)

\* Some processes die; whatever they were blocked in is dropped.
Exit ==
    \E D \in SUBSET alive \ {{}} :
        LET q == [p \in Procs |-> IF p \in D THEN Idle ELSE req[p]]
        IN /\ alive' = alive \ D
           /\ \E M \in Rendezvous(q) : Apply(q, M)

\* A new process, with no request.
Spawn(p) ==
    /\ p \notin alive /\ req[p] = Idle
    /\ alive' = alive \cup {p}
    /\ UNCHANGED <<req, box>>

\* A trap that posts nothing and kills nothing, ending in a yield.
Yield ==
    /\ UNCHANGED alive
    /\ \E M \in Rendezvous(req) : Apply(req, M)

Init ==
    /\ req = [p \in Procs |-> Idle]
    /\ box = [p \in Procs |-> NoBox]
    /\ alive \in SUBSET Procs

Next == (\E p \in Procs : Call(p) \/ Spawn(p)) \/ Exit \/ Yield

Spec == Init /\ [][Next]_<<req, box, alive>>
=============================================================================
