---------------------------- MODULE EventChannel ----------------------------
(***************************************************************************)
(* What a capture promises of every ring, without rings: a stream of       *)
(* records that are written, finished, handed out and given back, each in  *)
(* its time.  No headers, no locks, no positions private to a thread, no   *)
(* loops over rings: the systems show that theirs amount to this.          *)
(***************************************************************************)
EXTENDS Integers, Sequences

CONSTANTS
  Channels,  \* one per ring
  Sizes,     \* the bytes a record can take
  Capacity   \* the bytes a channel holds at most

VARIABLES
  log,      \* [channel -> the records written so far, in order]
  handed,   \* [channel -> where the records handed out begin, in order]
  freed,    \* [channel -> bytes given back]
  stopped   \* nobody reads any more

vars == <<log, handed, freed, stopped>>

(* A record begins where the one before it ends.                           *)
Behind(e) == e.at + e.size
End(c) == IF log[c] = <<>> THEN 0 ELSE Behind(log[c][Len(log[c])])

Init ==
  /\ log    = [c \in Channels |-> <<>>]
  /\ handed = [c \in Channels |-> <<>>]
  /\ freed  = [c \in Channels |-> 0]
  /\ stopped = FALSE

(* A writer gets the bytes behind the last record, if they are free.       *)
Write(c) == \E n \in Sizes :
  /\ End(c) + n - freed[c] <= Capacity
  /\ log' = [log EXCEPT ![c] =
               Append(@, [at |-> End(c), size |-> n, ready |-> FALSE])]
  /\ UNCHANGED <<handed, freed, stopped>>

(* Writers finish in any order, also when nobody reads any more.           *)
Finish(c) == \E i \in DOMAIN log[c] :
  /\ ~log[c][i].ready
  /\ log' = [log EXCEPT ![c][i].ready = TRUE]
  /\ UNCHANGED <<handed, freed, stopped>>

(* The next record is handed out when it is finished, and only then.       *)
Next1(c) == Len(handed[c]) + 1
CanHand(c) == ~stopped /\ Next1(c) \in DOMAIN log[c] /\ log[c][Next1(c)].ready

Hand(c) ==
  /\ CanHand(c)
  /\ handed' = [handed EXCEPT ![c] = Append(@, log[c][Next1(c)].at)]
  /\ UNCHANGED <<log, freed, stopped>>

(* Whole records are given back, of those that were handed out.            *)
CanGiveBack(c) ==
  ~stopped /\ \E k \in DOMAIN handed[c] : Behind(log[c][k]) > freed[c]

GiveBack(c) ==
  /\ ~stopped
  /\ \E k \in DOMAIN handed[c] :
       /\ Behind(log[c][k]) > freed[c]
       /\ freed' = [freed EXCEPT ![c] = Behind(log[c][k])]
  /\ UNCHANGED <<log, handed, stopped>>

Stop == ~stopped /\ stopped' = TRUE /\ UNCHANGED <<log, handed, freed>>

Next ==
  \/ \E c \in Channels : Write(c) \/ Finish(c) \/ Hand(c) \/ GiveBack(c)
  \/ Stop

Unfinished(c) == \E i \in DOMAIN log[c] : ~log[c][i].ready

(* Weak fairness of Finish, Hand and GiveBack, with the condition that     *)
(* enables each spelled out: no channel is left out for ever.              *)
Fairness == \A c \in Channels :
  /\ []<>~Unfinished(c)  \/ []<><<Finish(c)>>_vars
  /\ []<>~CanHand(c)     \/ []<><<Hand(c)>>_vars
  /\ []<>~CanGiveBack(c) \/ []<><<GiveBack(c)>>_vars

(* What a channel never does, and what it must do in the end.              *)
SafeSpec == Init /\ [][Next]_vars

Spec == SafeSpec /\ Fairness
=============================================================================
