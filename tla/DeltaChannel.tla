----------------------------- MODULE DeltaChannel -----------------------------
(***************************************************************************)
(* What the renderer's delta queue promises: one FIFO channel per project  *)
(* folder with one worker, which a review holds.  Dropping the channel of  *)
(* a folder takes effect at once: what was queued is gone, the hold is     *)
(* over, and a worker that is still busy decides nothing any more, though  *)
(* nothing of the folder is begun before it is done.                       *)
(***************************************************************************)
EXTENDS Sequences

CONSTANTS
    Root,    \* the project folders
    Delta,   \* the external deltas
    RootOf,  \* the folder of each delta
    None

VARIABLES
    chan,  \* per folder, the deltas accepted and not begun
    busy,  \* per folder, the delta being worked on, or None
    held   \* per folder, whether a verdict holds the channel

vars == <<chan, busy, held>>

TypeOK ==
    /\ chan \in [Root -> Seq(Delta)]
    /\ busy \in [Root -> [delta : Delta, dropped : BOOLEAN] \cup {None}]
    /\ held \in [Root -> BOOLEAN]

Init ==
    /\ chan = [r \in Root |-> <<>>]
    /\ busy = [r \in Root |-> None]
    /\ held = [r \in Root |-> FALSE]

\* The worker of r is given the first delta of the sequence, which becomes the channel.
Begin(r, deltas) ==
    /\ deltas # <<>>
    /\ busy' = [busy EXCEPT ![r] = [delta |-> Head(deltas), dropped |-> FALSE]]
    /\ chan' = [chan EXCEPT ![r] = Tail(deltas)]

Idle(r) == busy[r] = None /\ ~held[r]

Accept(d) ==
    LET r == RootOf[d]
        deltas == Append(chan[r], d)
    IN  /\ \/ chan' = [chan EXCEPT ![r] = deltas] /\ UNCHANGED busy
           \/ Idle(r) /\ Begin(r, deltas)
        /\ UNCHANGED held

Start(r) ==
    /\ Idle(r) /\ Begin(r, chan[r])
    /\ UNCHANGED held

Finish(r) ==
    /\ busy[r] # None
    /\ busy' = [busy EXCEPT ![r] = None]
    /\ \E hold \in BOOLEAN :
           held' = [held EXCEPT ![r] = IF busy[r].dropped THEN @ ELSE hold]
    /\ UNCHANGED chan

FinishAndBegin(r) ==
    /\ busy[r] # None /\ ~busy[r].dropped /\ ~held[r]
    /\ Begin(r, chan[r])
    /\ UNCHANGED held

Release(r) ==
    /\ held' = [held EXCEPT ![r] = FALSE]
    /\ \/ busy[r] = None /\ Begin(r, chan[r])
       \/ UNCHANGED <<chan, busy>>

Drop(r) ==
    /\ chan' = [chan EXCEPT ![r] = <<>>]
    /\ held' = [held EXCEPT ![r] = FALSE]
    /\ busy' = [busy EXCEPT ![r] = IF @ = None THEN None
                                   ELSE [delta |-> @.delta, dropped |-> TRUE]]

Next ==
    \/ \E d \in Delta : Accept(d)
    \/ \E r \in Root : Start(r) \/ Finish(r) \/ FinishAndBegin(r) \/ Release(r) \/ Drop(r)

Spec == Init /\ [][Next]_vars

=============================================================================
