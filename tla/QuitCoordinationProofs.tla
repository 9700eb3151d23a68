------------------------ MODULE QuitCoordinationProofs ------------------------
(***************************************************************************)
(* Proofs about QuitCoordination, for any number of editors, edits, failed *)
(* saves, late answers and lost renderers.                                 *)
(***************************************************************************)
EXTENDS QuitCoordination, TLAPS

(***************************************************************************)
(* The inductive invariant.                                                *)
(***************************************************************************)
\* No commit and no text that is kept is newer than the editor's, and an
\* uncommitted text is newer than every commit.
CommitsBehind(e) ==
    /\ \A i \in 1 .. Len(chain[e]) : chain[e][i] =< text[e]
    /\ kept[e] # None => kept[e] =< text[e]
    /\ pend[e] # None =>
           /\ pend[e] = text[e]
           /\ \A i \in 1 .. Len(chain[e]) : chain[e][i] < text[e]

\* A text kept since its save failed is the newest, or a newer one is still to be
\* dispatched, which will make the editor forget the older.
KeptIsNewest(e) ==
    kept[e] # None =>
        \/ kept[e] = text[e]
        \/ pend[e] = text[e]
        \/ \E i \in 1 .. Len(chain[e]) :
               chain[e][i] = text[e] /\ (i = 1 => stage[e] # "saving")

\* The newest text is with the editor, or the last to be written, or on disk.
NewestSomewhere(e) ==
    e \notin overtaken =>
        /\ \A i \in 1 .. Len(chain[e]) - 1 : chain[e][i] < text[e]
        /\ \/ pend[e] = text[e]
           \/ kept[e] = text[e]
           \/ chain[e] # <<>> /\ chain[e][Len(chain[e])] = text[e]
           \/ chain[e] = <<>> /\ disk[e] = text[e]

EditorInv(e) == CommitsBehind(e) /\ KeptIsNewest(e) /\ NewestSomewhere(e)

\* While the renderer drains, the quiescence waits for every commit there is and
\* the project host for those it admitted; unless a flush has failed, a text that
\* is kept is the one to be committed last.
FlushInv(e) ==
    Draining =>
        /\ pend[e] = None
        /\ chain[e] # <<>> => e \in qpending
        /\ stage[e] \in {"applying", "saving"} => Host \in qpending
        /\ ~qfailed /\ kept[e] # None =>
               /\ chain[e] # <<>>
               /\ Len(chain[e]) = 1 /\ stage[e] # "next" => chain[e][1] = text[e]

Closing ==
    /\ Draining => accepting = {} /\ ~admits
    /\ ~Draining => phase = Open /\ Accepts
    /\ loop # "none" => phase.phase = "draining"
    /\ loop = "saves" => ~qfailed /\ qpending = {}
    /\ Draining /\ Host \notin qpending => direct # "applying"

\* No message is newer than the last request.  While the main process waits for
\* an answer or lets the app exit it has not canceled that request, and an answer
\* that says yes is of a renderer that is still prepared.
Asking ==
    /\ phase.nonce =< nonce
    /\ \A i \in 1 .. Len(requests) : requests[i].nonce =< nonce
    /\ \A reply \in replies : reply.nonce =< nonce
    /\ main \in {"waiting", "flushing", "exited"} =>
           \A i \in 1 .. Len(requests) :
               requests[i].kind = "cancel" => requests[i].nonce # nonce
    /\ main = "waiting" =>
           \A reply \in replies :
               reply.ok /\ reply.nonce = nonce =>
                   phase.phase = "prepared" /\ phase.nonce = nonce
    /\ main \in {"flushing", "exited"} => phase.phase = "prepared" /\ phase.nonce = nonce

Editors == \A e \in Editor : EditorInv(e)
Flushes == \A e \in Editor : FlushInv(e)

IInv == TypeOK /\ Editors /\ Flushes /\ Closing /\ PreparedIsQuiet /\ Asking
-----------------------------------------------------------------------------
(***************************************************************************)
(* Sequences, and what a step leaves alone.                                *)
(***************************************************************************)
LEMMA Rests ==
    ASSUME NEW S, NEW s \in Seq(S), s # <<>>
    PROVE  /\ Len(s) \in Nat \ {0}
           /\ Head(s) = s[1] /\ s[1] \in S
           /\ Tail(s) \in Seq(S) /\ Len(Tail(s)) = Len(s) - 1
           /\ \A i \in 1 .. Len(Tail(s)) : Tail(s)[i] = s[i + 1]
           /\ Tail(s) = <<>> <=> Len(s) = 1
<1>1. Len(s) \in Nat \ {0} /\ Head(s) = s[1] /\ s[1] \in S
  OBVIOUS
<1>2. Tail(s) \in Seq(S) /\ Len(Tail(s)) = Len(s) - 1
  OBVIOUS
<1>3. \A i \in 1 .. Len(Tail(s)) : Tail(s)[i] = s[i + 1]
  OBVIOUS
<1>4. Tail(s) = <<>> <=> Len(s) = 1
  BY <1>1, <1>2
<1> QED
  BY <1>1, <1>2, <1>3, <1>4

LEMMA Appended ==
    ASSUME NEW S, NEW s \in Seq(S), NEW x \in S
    PROVE  /\ Append(s, x) \in Seq(S) /\ Len(Append(s, x)) = Len(s) + 1
           /\ \A i \in 1 .. Len(s) : Append(s, x)[i] = s[i]
           /\ Append(s, x)[Len(s) + 1] = x
           /\ Append(s, x) # <<>>
           /\ Len(s) \in Nat /\ (s = <<>> <=> Len(s) = 0)
OBVIOUS

LEMMA MainTypesKept ==
    ASSUME MainTypes, UNCHANGED <<quitting, alive, counters>>
    PROVE  MainTypes'
BY DEF MainTypes, quitting, counters

LEMMA DrainTypesKept ==
    ASSUME DrainTypes, UNCHANGED <<draining, accepting, direct>>
    PROVE  DrainTypes'
BY DEF DrainTypes, draining

LEMMA EditorTypesKept ==
    ASSUME EditorTypes, UNCHANGED <<editors, disk, history>>
    PROVE  EditorTypes'
BY DEF EditorTypes, editors, history

LEMMA EditorsKept ==
    ASSUME Editors, UNCHANGED <<text, pend, kept, chain, stage, disk, overtaken>>
    PROVE  Editors'
BY DEF Editors, EditorInv, CommitsBehind, KeptIsNewest, NewestSomewhere

LEMMA FlushesKept ==
    ASSUME Flushes, UNCHANGED <<text, pend, kept, chain, stage, phase, qpending, qfailed>>
    PROVE  Flushes'
BY DEF Flushes, FlushInv, Draining

LEMMA ClosingKept ==
    ASSUME Closing, UNCHANGED <<phase, loop, qpending, qfailed, admits, accepting, direct>>
    PROVE  Closing'
BY DEF Closing, Draining, Accepts

LEMMA QuietKept ==
    ASSUME PreparedIsQuiet, UNCHANGED <<phase, chain, pend, kept, direct, accepting, admits>>
    PROVE  PreparedIsQuiet'
BY DEF PreparedIsQuiet

LEMMA AskingKept ==
    ASSUME Asking, UNCHANGED <<quitting, phase>>
    PROVE  Asking'
BY DEF Asking, quitting

\* What a step of one editor leaves alone.
Others(e) ==
    \A f \in Editor \ {e} :
        /\ text'[f] = text[f] /\ pend'[f] = pend[f] /\ kept'[f] = kept[f]
        /\ chain'[f] = chain[f] /\ stage'[f] = stage[f] /\ disk'[f] = disk[f]
        /\ f \in overtaken' <=> f \in overtaken
        /\ f \in qpending' <=> f \in qpending

LEMMA EditorsOfOne ==
    ASSUME Editors, NEW e \in Editor, Others(e), EditorInv(e)'
    PROVE  Editors'
BY DEF Editors, EditorInv, CommitsBehind, KeptIsNewest, NewestSomewhere, Others

LEMMA FlushesOfOne ==
    ASSUME Flushes, NEW e \in Editor, Others(e), FlushInv(e)', phase' = phase,
           Host \in qpending' <=> Host \in qpending,
           qfailed => qfailed'
    PROVE  Flushes'
BY DEF Flushes, FlushInv, Others, Draining
-----------------------------------------------------------------------------
(***************************************************************************)
(* The editors.                                                            *)
(***************************************************************************)
LEMMA TypeStep ==
    ASSUME IInv, NEW e \in Editor, Type(e)
    PROVE  IInv'
<1> USE ConstantsAssumption DEF IInv, TypeOK
<1>1. /\ e \in accepting /\ edits' = edits + 1 /\ overtaken' = overtaken \ {e}
      /\ text' = [text EXCEPT ![e] = @ + 1]
      /\ pend' = [pend EXCEPT ![e] = text[e] + 1]
      /\ UNCHANGED <<quitting, alive, draining, accepting, kept, chain, stage, direct,
                     disk, failures, timeouts, losses, refused>>
  BY DEF Type
<1>2. ~Draining /\ UNCHANGED <<phase, loop, qpending, qfailed, admits>>
  BY <1>1 DEF Closing, draining
<1>3. MainTypes'
  BY <1>1 DEF MainTypes, quitting
<1>4. DrainTypes'
  BY <1>1, DrainTypesKept
<1>5. /\ EditorTypes' /\ text[e] \in Nat /\ text'[e] = text[e] + 1 /\ pend'[e] = text'[e]
      /\ chain[e] \in Seq(Nat)
  BY <1>1 DEF EditorTypes
<1>6. Others(e)
  BY <1>1, <1>2 DEF EditorTypes, Others
<1>7. \A i \in 1 .. Len(chain[e]) : chain[e][i] \in Nat /\ chain[e][i] =< text[e]
  BY <1>5 DEF Editors, EditorInv, CommitsBehind
<1>8. kept'[e] # None => kept'[e] \in Nat /\ kept'[e] =< text[e]
  BY <1>1, <1>5 DEF IInv, TypeOK, Editors, EditorInv, CommitsBehind, EditorTypes
<1>9. EditorInv(e)'
  <2>1. \A i \in 1 .. Len(chain'[e]) : chain'[e][i] < text'[e]
    BY <1>1, <1>5, <1>7
  <2>2. CommitsBehind(e)'
    BY <1>1, <1>5, <1>7, <1>8, <2>1 DEF CommitsBehind
  <2>3. KeptIsNewest(e)' /\ NewestSomewhere(e)'
    BY <1>1, <1>5, <2>1 DEF KeptIsNewest, NewestSomewhere
  <2> QED
    BY <2>2, <2>3 DEF EditorInv
<1>10. Editors'
  BY <1>6, <1>9, EditorsOfOne
<1>11. Flushes' /\ PreparedIsQuiet'
  BY <1>2 DEF Flushes, FlushInv, Draining, PreparedIsQuiet
<1>12. Closing' /\ Asking'
  BY <1>1, <1>2, ClosingKept, AskingKept
<1> QED
  BY <1>3, <1>4, <1>5, <1>10, <1>11, <1>12

LEMMA TimerStep ==
    ASSUME IInv, NEW e \in Editor, TimerCommits(e)
    PROVE  IInv'
<1> USE ConstantsAssumption DEF IInv, TypeOK
<1>1. /\ pend[e] # None /\ pend' = [pend EXCEPT ![e] = None]
      /\ chain' = [chain EXCEPT ![e] = Append(chain[e], pend[e])]
      /\ stage' = [stage EXCEPT ![e] = IF stage[e] = "none" THEN "applying" ELSE stage[e]]
      /\ UNCHANGED <<quitting, alive, draining, accepting, text, kept, direct, disk,
                     counters, history>>
  BY DEF TimerCommits, Chained, Begun
<1>2. /\ ~Draining /\ overtaken' = overtaken
      /\ UNCHANGED <<phase, loop, qpending, qfailed, admits>>
  BY <1>1 DEF Flushes, FlushInv, draining, history
<1>3. MainTypes' /\ DrainTypes'
  BY <1>1, MainTypesKept, DrainTypesKept
<1>4. /\ text[e] \in Nat /\ pend[e] = text[e] /\ chain[e] \in Seq(Nat)
      /\ chain'[e] = Append(chain[e], text[e]) /\ pend'[e] = None
      /\ \A i \in 1 .. Len(chain[e]) : chain[e][i] < text[e]
  BY <1>1 DEF EditorTypes, Editors, EditorInv, CommitsBehind
<1>5. /\ chain'[e] \in Seq(Nat) /\ Len(chain'[e]) = Len(chain[e]) + 1 /\ chain'[e] # <<>>
      /\ \A i \in 1 .. Len(chain[e]) : chain'[e][i] = chain[e][i]
      /\ chain'[e][Len(chain'[e])] = text[e]
      /\ Len(chain[e]) \in Nat /\ (chain[e] = <<>> <=> Len(chain[e]) = 0)
  BY <1>4, Appended
<1>6. EditorTypes'
  <2>1. chain' \in [Editor -> Seq(Nat)]
    BY <1>1, <1>4, <1>5 DEF EditorTypes
  <2>2. pend' \in [Editor -> Nat \cup {None}]
    BY <1>1 DEF EditorTypes
  <2>3. /\ stage' \in [Editor -> {"none", "next", "applying", "saving"}]
        /\ stage'[e] # "none" /\ \A f \in Editor \ {e} : stage'[f] = stage[f]
    BY <1>1 DEF EditorTypes
  <2>4. \A f \in Editor : stage'[f] = "none" <=> chain'[f] = <<>>
    BY <1>1, <1>5, <2>3 DEF EditorTypes
  <2> QED
    BY <1>1, <2>1, <2>2, <2>3, <2>4 DEF EditorTypes, history
<1>7. Others(e) /\ UNCHANGED <<text, kept, disk>>
  BY <1>1, <1>2 DEF EditorTypes, Others
<1>8. EditorInv(e)'
  <2>1. CommitsBehind(e)'
    <3>1. CommitsBehind(e) /\ text'[e] = text[e] /\ kept'[e] = kept[e]
      BY <1>7 DEF Editors, EditorInv
    <3> QED
      BY <1>4, <1>5, <3>1 DEF CommitsBehind
  <2>2. Len(chain'[e]) = 1 => stage'[e] # "saving"
    BY <1>1, <1>5 DEF EditorTypes
  <2>3. KeptIsNewest(e)'
    <3>1. Len(chain'[e]) \in 1 .. Len(chain'[e])
      BY <1>5
    <3>2. chain'[e][Len(chain'[e])] = text'[e]
      BY <1>5, <1>7
    <3> QED
      BY <2>2, <3>1, <3>2 DEF KeptIsNewest
  <2>4. NewestSomewhere(e)'
    BY <1>4, <1>5, <1>7 DEF NewestSomewhere
  <2> QED
    BY <2>1, <2>3, <2>4 DEF EditorInv
<1>9. Editors'
  BY <1>7, <1>8, EditorsOfOne
<1>10. Flushes' /\ PreparedIsQuiet'
  BY <1>2 DEF Flushes, FlushInv, Draining, PreparedIsQuiet
<1>11. Closing' /\ Asking'
  BY <1>1, <1>2, ClosingKept, AskingKept
<1> QED
  BY <1>3, <1>6, <1>9, <1>10, <1>11

LEMMA DispatchStep ==
    ASSUME IInv, NEW e \in Editor, Dispatch(e)
    PROVE  IInv'
<1> USE ConstantsAssumption DEF IInv, TypeOK
<1>1. /\ stage[e] = "applying" /\ stage' = [stage EXCEPT ![e] = "saving"]
      /\ kept' = [kept EXCEPT ![e] = IF Head(chain[e]) = text[e] /\ kept[e] # text[e]
                                     THEN None ELSE kept[e]]
      /\ UNCHANGED <<quitting, alive, draining, accepting, text, pend, chain, direct,
                     disk, counters, history>>
  BY DEF Dispatch
<1>2. UNCHANGED <<phase, loop, qpending, qfailed, admits, overtaken>>
  BY <1>1 DEF draining, history
<1>3. MainTypes' /\ DrainTypes'
  BY <1>1, MainTypesKept, DrainTypesKept
<1>4. /\ text[e] \in Nat /\ chain[e] \in Seq(Nat) /\ chain[e] # <<>>
      /\ stage'[e] = "saving"
      /\ kept'[e] = IF Head(chain[e]) = text[e] /\ kept[e] # text[e] THEN None ELSE kept[e]
  BY <1>1 DEF EditorTypes
<1>5. Head(chain[e]) = chain[e][1] /\ Len(chain[e]) \in Nat \ {0}
  BY <1>4, Rests
<1>6. EditorTypes'
  BY <1>1 DEF EditorTypes, history
<1>7. Others(e) /\ UNCHANGED <<text, pend, chain, disk>>
  BY <1>1, <1>2 DEF EditorTypes, Others
<1>8. EditorInv(e)'
  <2>1. EditorInv(e)
    BY DEF Editors
  <2>2. CommitsBehind(e)'
    BY <1>4, <1>7, <2>1 DEF EditorInv, CommitsBehind
  <2>3. KeptIsNewest(e)'
    BY <1>4, <1>5, <1>7, <2>1 DEF EditorInv, KeptIsNewest
  <2>4. NewestSomewhere(e)'
    BY <1>2, <1>4, <1>7, <2>1 DEF EditorInv, NewestSomewhere
  <2> QED
    BY <2>2, <2>3, <2>4 DEF EditorInv
<1>9. Editors'
  BY <1>7, <1>8, EditorsOfOne
<1>10. FlushInv(e)'
  BY <1>1, <1>2, <1>4, <1>5, <1>7 DEF Flushes, FlushInv, Draining
<1>11. Flushes'
  BY <1>2, <1>7, <1>10, FlushesOfOne
<1>12. Closing' /\ Asking'
  BY <1>1, <1>2, ClosingKept, AskingKept
<1>13. PreparedIsQuiet'
  BY <1>1, <1>2, <1>4 DEF PreparedIsQuiet
<1> QED
  BY <1>3, <1>6, <1>9, <1>11, <1>12, <1>13
-----------------------------------------------------------------------------
(***************************************************************************)
(* The end of a commit.                                                    *)
(***************************************************************************)
CommitEnds(e, ok, admitted) ==
    /\ stage[e] \in {"saving", "next"} /\ (ok => stage[e] = "saving")
    /\ admitted <=> stage[e] = "saving"
    /\ EndCommit(e, ok, admitted)
    /\ disk' = IF ok THEN [disk EXCEPT ![e] = Head(chain[e])] ELSE disk
    /\ refused' \subseteq Editor
    /\ UNCHANGED <<phase, loop, snap, admits, direct, overtaken>>
    /\ cfailed' \in BOOLEAN

LEMMA EndOfCommit ==
    ASSUME IInv, NEW e \in Editor, NEW ok \in BOOLEAN, NEW admitted \in BOOLEAN,
           CommitEnds(e, ok, admitted)
    PROVE  DrainTypes' /\ EditorTypes' /\ Editors' /\ Flushes' /\ Closing' /\ PreparedIsQuiet'
<1> USE ConstantsAssumption DEF IInv, TypeOK
<1> DEFINE v == chain[e][1]
           last == Len(chain[e]) = 1
<1>1. /\ chain[e] \in Seq(Nat) /\ chain[e] # <<>>
      /\ text[e] \in Nat /\ disk[e] \in Nat
  BY DEF CommitEnds, EditorTypes
<1>2. /\ Len(chain[e]) \in Nat \ {0}
      /\ Head(chain[e]) = v /\ v \in Nat
      /\ Tail(chain[e]) \in Seq(Nat) /\ Len(Tail(chain[e])) = Len(chain[e]) - 1
      /\ \A i \in 1 .. Len(Tail(chain[e])) : Tail(chain[e])[i] = chain[e][i + 1]
      /\ Tail(chain[e]) = <<>> <=> last
  BY <1>1, Rests
<1>3. /\ chain' = [chain EXCEPT ![e] = Tail(chain[e])]
      /\ stage' = [stage EXCEPT ![e] = IF last THEN "none" ELSE "next"]
      /\ kept' = [kept EXCEPT ![e] = IF text[e] # v THEN kept[e]
                                     ELSE IF ok THEN None
                                     ELSE IF pend[e] = None THEN v ELSE kept[e]]
      /\ qpending' = IF last THEN qpending \ {e} ELSE qpending
      /\ qfailed' = \/ qfailed
                    \/ ~ok /\ last /\ e \in qpending
                    \/ ~ok /\ admitted /\ Host \in qpending
      /\ disk' = IF ok THEN [disk EXCEPT ![e] = v] ELSE disk
      /\ UNCHANGED <<accepting, text, pend, phase, loop, snap, admits, direct, overtaken>>
  <2>1. EndCommit(e, ok, admitted)
    BY DEF CommitEnds
  <2> QED
    BY <1>2, <2>1 DEF EndCommit, CommitEnds
<1>4. /\ chain'[e] = Tail(chain[e])
      /\ stage'[e] = IF last THEN "none" ELSE "next"
      /\ kept'[e] = IF text[e] # v THEN kept[e]
                    ELSE IF ok THEN None
                    ELSE IF pend[e] = None THEN v ELSE kept[e]
      /\ disk'[e] = IF ok THEN v ELSE disk[e]
  BY <1>3 DEF EditorTypes
<1>5. EditorTypes'
  <2>1. chain' \in [Editor -> Seq(Nat)] /\ disk' \in [Editor -> Nat]
    BY <1>2, <1>3 DEF EditorTypes
  <2>2. kept' \in [Editor -> Nat \cup {None}]
    BY <1>2, <1>3 DEF EditorTypes
  <2>3. /\ stage' \in [Editor -> {"none", "next", "applying", "saving"}]
        /\ \A f \in Editor \ {e} : stage'[f] = stage[f] /\ chain'[f] = chain[f]
    BY <1>3 DEF EditorTypes
  <2>4. \A f \in Editor : stage'[f] = "none" <=> chain'[f] = <<>>
    BY <1>2, <1>4, <2>3 DEF EditorTypes
  <2>5. text' \in [Editor -> Nat] /\ pend' \in [Editor -> Nat \cup {None}]
        /\ refused' \subseteq Editor /\ overtaken' \subseteq Editor
    BY <1>3 DEF EditorTypes, CommitEnds
  <2> QED
    BY <2>1, <2>2, <2>3, <2>4, <2>5 DEF EditorTypes
<1>6. qpending' \subseteq qpending /\ qpending \ {e} \subseteq qpending' /\ qfailed' \in BOOLEAN
  BY <1>3 DEF DrainTypes
<1>7. Host \in qpending' <=> Host \in qpending
  BY <1>6
<1>8. Others(e)
  BY <1>3, <1>6 DEF EditorTypes, Others
<1>9. DrainTypes'
  BY <1>3, <1>6 DEF DrainTypes, CommitEnds
<1>10. EditorInv(e)
  BY DEF Editors
<1>11. EditorInv(e)'
  <2>1. CommitsBehind(e)'
    <3>1. \A i \in 1 .. Len(chain'[e]) :
              i + 1 \in 1 .. Len(chain[e]) /\ chain'[e][i] = chain[e][i + 1]
      BY <1>2, <1>4
    <3>2. CommitsBehind(e) /\ text'[e] = text[e] /\ pend'[e] = pend[e]
      BY <1>3, <1>10 DEF EditorInv
    <3>3. kept'[e] = None \/ kept'[e] = kept[e] \/ kept'[e] = text[e]
      BY <1>4
    <3> QED
      BY <1>1, <3>1, <3>2, <3>3 DEF CommitsBehind
  <2>2. KeptIsNewest(e)'
    <3>1. CASE text[e] = v
      BY <1>2, <1>3, <1>4, <1>10, <3>1 DEF EditorInv, KeptIsNewest, CommitsBehind
    <3>2. CASE text[e] # v /\ kept[e] # None /\ kept[e] # text[e] /\ pend[e] # text[e]
      <4>1. PICK i \in 1 .. Len(chain[e]) : chain[e][i] = text[e]
        BY <1>10, <3>2 DEF EditorInv, KeptIsNewest
      <4>2. i # 1
        BY <3>2, <4>1
      <4>3. i - 1 \in 1 .. Len(Tail(chain[e])) /\ (i - 1) + 1 = i
        BY <1>2, <4>2
      <4>4. chain'[e][i - 1] = text'[e]
        BY <1>2, <1>3, <1>4, <4>1, <4>3
      <4> QED
        BY <1>2, <1>4, <4>3, <4>4 DEF KeptIsNewest
    <3>3. CASE text[e] # v /\ (kept[e] = None \/ kept[e] = text[e] \/ pend[e] = text[e])
      BY <1>3, <1>4, <3>3 DEF KeptIsNewest
    <3> QED
      BY <3>1, <3>2, <3>3
  <2>3. NewestSomewhere(e)'
    <3> SUFFICES ASSUME e \notin overtaken
                 PROVE  NewestSomewhere(e)'
      BY <1>3 DEF NewestSomewhere
    <3>1. NewestSomewhere(e) /\ CommitsBehind(e)
      BY <1>10 DEF EditorInv
    <3>2. CASE last
      <4>1. chain'[e] = <<>> /\ Len(chain'[e]) = 0
        BY <1>2, <1>4, <3>2
      <4>2. pend'[e] = text'[e] \/ kept'[e] = text'[e] \/ disk'[e] = text'[e]
        BY <1>1, <1>2, <1>3, <1>4, <3>1, <3>2 DEF NewestSomewhere, CommitsBehind
      <4> QED
        BY <4>1, <4>2 DEF NewestSomewhere
    <3>3. CASE ~last
      <4>1. v < text[e]
        BY <1>2, <3>1, <3>3 DEF NewestSomewhere
      <4>2. kept'[e] = kept[e] /\ chain'[e] # <<>> /\ Len(chain'[e]) = Len(chain[e]) - 1
        BY <1>1, <1>2, <1>4, <3>3, <4>1
      <4>3. \A i \in 1 .. Len(chain'[e]) - 1 : chain'[e][i] < text'[e]
        <5>1. \A i \in 1 .. Len(chain'[e]) - 1 :
                  i + 1 \in 1 .. Len(chain[e]) - 1 /\ chain'[e][i] = chain[e][i + 1]
          <6> SUFFICES ASSUME NEW i \in 1 .. Len(chain'[e]) - 1
                       PROVE  /\ i + 1 \in 1 .. Len(chain[e]) - 1
                              /\ i \in 1 .. Len(Tail(chain[e]))
            BY <1>2, <1>4
          <6>1. i \in 1 .. Len(chain[e]) - 2
            BY <1>2, <4>2
          <6> QED
            BY <1>2, <6>1
        <5> QED
          BY <1>3, <3>1, <5>1 DEF NewestSomewhere
      <4>4. chain'[e][Len(chain'[e])] = chain[e][Len(chain[e])]
        BY <1>2, <1>4, <3>3, <4>2
      <4> QED
        BY <1>1, <1>3, <3>1, <4>2, <4>3, <4>4 DEF NewestSomewhere
    <3> QED
      BY <3>2, <3>3
  <2> QED
    BY <2>1, <2>2, <2>3 DEF EditorInv
<1>12. Editors'
  BY <1>8, <1>11, EditorsOfOne
<1>13. FlushInv(e)
  BY DEF Flushes
<1>14. FlushInv(e)'
  <2> SUFFICES ASSUME Draining
               PROVE  FlushInv(e)'
    BY <1>3 DEF FlushInv, Draining
  <2>1. pend'[e] = None /\ e \in qpending /\ pend[e] = None
    BY <1>1, <1>3, <1>13 DEF FlushInv
  <2>2. stage'[e] \notin {"applying", "saving"}
    BY <1>4
  <2>3. chain'[e] # <<>> => ~last /\ e \in qpending' /\ stage'[e] = "next"
    BY <1>2, <1>3, <1>4, <2>1
  <2>4. ~qfailed' /\ kept'[e] # None => chain'[e] # <<>>
    <3> SUFFICES ASSUME ~qfailed', kept'[e] # None, last
                 PROVE  FALSE
      BY <1>2, <1>4
    <3>1. ok /\ ~qfailed
      BY <1>3, <2>1
    <3>2. kept[e] # None /\ text[e] # v
      BY <1>4, <3>1
    <3>3. stage[e] # "next"
      BY <3>1 DEF CommitEnds
    <3> QED
      BY <1>13, <3>1, <3>2, <3>3 DEF FlushInv
  <2> QED
    BY <2>1, <2>2, <2>3, <2>4 DEF FlushInv
<1>15. Flushes'
  BY <1>3, <1>7, <1>8, <1>14, FlushesOfOne
<1>16. Closing'
  BY <1>1, <1>3, <1>7, <1>13 DEF Closing, Draining, Accepts, FlushInv
<1>17. PreparedIsQuiet'
  BY <1>1, <1>3 DEF PreparedIsQuiet
<1> QED
  BY <1>5, <1>9, <1>12, <1>15, <1>16, <1>17

LEMMA SaveStep ==
    ASSUME IInv, NEW e \in Editor, Save(e)
    PROVE  IInv'
<1> USE DEF IInv, TypeOK
<1>1. CommitEnds(e, TRUE, TRUE)
  BY DEF Save, CommitEnds, EditorTypes, DrainTypes, history
<1>2. UNCHANGED <<quitting, alive, counters, phase>>
  BY DEF Save
<1>3. MainTypes' /\ Asking'
  BY <1>2, MainTypesKept, AskingKept
<1> QED
  BY <1>1, <1>3, EndOfCommit

LEMMA FailSaveStep ==
    ASSUME IInv, NEW e \in Editor, FailSave(e)
    PROVE  IInv'
<1> USE DEF IInv, TypeOK
<1>1. CommitEnds(e, FALSE, TRUE)
  BY DEF FailSave, CommitEnds, EditorTypes, DrainTypes, history
<1>2. UNCHANGED <<quitting, alive, phase, edits, timeouts, losses>> /\ failures' = failures + 1
  BY DEF FailSave
<1>3. MainTypes' /\ Asking'
  BY <1>2, AskingKept DEF MainTypes, quitting
<1> QED
  BY <1>1, <1>3, EndOfCommit

LEMMA NextCommitStep ==
    ASSUME IInv, NEW e \in Editor, NextCommit(e)
    PROVE  IInv'
<1> USE ConstantsAssumption DEF IInv, TypeOK
<1>1. stage[e] = "next" /\ UNCHANGED <<quitting, alive, direct, disk, counters>>
  BY DEF NextCommit
<1>2. CASE /\ admits
           /\ stage' = [stage EXCEPT ![e] = "applying"]
           /\ UNCHANGED <<draining, accepting, text, pend, kept, chain, history>>
  <2>1. /\ ~Draining /\ stage'[e] = "applying"
        /\ UNCHANGED <<phase, loop, qpending, qfailed, admits, overtaken>>
    BY <1>2 DEF Closing, EditorTypes, draining, history
  <2>2. MainTypes' /\ DrainTypes'
    BY <1>1, <1>2, MainTypesKept, DrainTypesKept
  <2>3. EditorTypes'
    BY <1>1, <1>2 DEF EditorTypes, history
  <2>4. Others(e)
    BY <1>1, <1>2, <2>1 DEF EditorTypes, Others
  <2>5. EditorInv(e)'
    BY <1>1, <1>2, <2>1
       DEF Editors, EditorInv, CommitsBehind, KeptIsNewest, NewestSomewhere
  <2>6. Editors'
    BY <2>4, <2>5, EditorsOfOne
  <2>7. Flushes' /\ PreparedIsQuiet'
    BY <2>1 DEF Flushes, FlushInv, Draining, PreparedIsQuiet
  <2>8. Closing' /\ Asking'
    BY <1>1, <1>2, <2>1, ClosingKept, AskingKept
  <2> QED
    BY <2>2, <2>3, <2>6, <2>7, <2>8
<1>3. CASE /\ ~admits
           /\ EndCommit(e, FALSE, FALSE)
           /\ refused' = refused \cup {e}
           /\ UNCHANGED <<phase, loop, snap, cfailed, admits, overtaken>>
  <2>1. CommitEnds(e, FALSE, FALSE)
    BY <1>1, <1>3 DEF CommitEnds, EditorTypes, DrainTypes
  <2>2. MainTypes' /\ Asking'
    BY <1>1, <1>3, MainTypesKept, AskingKept
  <2> QED
    BY <2>1, <2>2, EndOfCommit
<1> QED
  BY <1>2, <1>3 DEF NextCommit
-----------------------------------------------------------------------------
(***************************************************************************)
(* The direct edits, and the renderer's part of a quit.                    *)
(***************************************************************************)
LEMMA EditDirectlyStep ==
    ASSUME IInv, EditDirectly
    PROVE  IInv'
<1> USE DEF IInv, TypeOK
<1>1. /\ ~Draining /\ direct' = "applying" /\ edits' = edits + 1
      /\ UNCHANGED <<quitting, alive, draining, editors, disk, failures, timeouts,
                     losses, history>>
  BY DEF EditDirectly, Draining, Open
<1>2. MainTypes' /\ DrainTypes' /\ EditorTypes'
  BY <1>1, EditorTypesKept DEF MainTypes, DrainTypes, quitting, draining, editors
<1>3. Editors' /\ Flushes' /\ Asking'
  BY <1>1, EditorsKept, FlushesKept, AskingKept DEF draining, editors, history
<1>4. Closing' /\ PreparedIsQuiet'
  BY <1>1 DEF Closing, PreparedIsQuiet, Draining, Accepts, draining, editors
<1> QED
  BY <1>2, <1>3, <1>4

\* What a direct edit goes through.
LEMMA DirectOn ==
    ASSUME IInv, direct # "none", direct' \in {"saving", "none"}, cfailed' \in BOOLEAN,
           UNCHANGED <<quitting, phase, loop, snap, qpending, qfailed, admits, editors,
                       disk, history>>
    PROVE  DrainTypes' /\ EditorTypes' /\ Editors' /\ Flushes' /\ Closing'
           /\ PreparedIsQuiet' /\ Asking'
<1> USE DEF IInv, TypeOK
<1>1. DrainTypes' /\ EditorTypes'
  BY EditorTypesKept DEF DrainTypes, editors
<1>2. Editors' /\ Flushes' /\ Asking'
  BY EditorsKept, FlushesKept, AskingKept DEF editors, history
<1>3. Closing' /\ PreparedIsQuiet'
  BY DEF Closing, PreparedIsQuiet, Draining, Accepts, editors
<1> QED
  BY <1>1, <1>2, <1>3

LEMMA DirectStep ==
    ASSUME IInv, DispatchDirect \/ SaveDirect \/ FailDirect
    PROVE  IInv'
<1>1. MainTypes'
  BY DEF IInv, TypeOK, MainTypes, DispatchDirect, SaveDirect, FailDirect, quitting, counters
<1>2. /\ direct # "none" /\ direct' \in {"saving", "none"} /\ cfailed' \in BOOLEAN
      /\ UNCHANGED <<quitting, phase, loop, snap, qpending, qfailed, admits, editors,
                     disk, history>>
  BY DEF IInv, TypeOK, DrainTypes, DispatchDirect, SaveDirect, FailDirect, draining
<1>3. DrainTypes' /\ EditorTypes' /\ Editors' /\ Flushes' /\ Closing'
      /\ PreparedIsQuiet' /\ Asking'
  BY <1>2, DirectOn
<1> QED
  BY <1>1, <1>3 DEF IInv, TypeOK

LEMMA HostDrainedStep ==
    ASSUME IInv, HostDrained
    PROVE  IInv'
<1> USE ConstantsAssumption DEF IInv, TypeOK
<1>1. /\ Admitted = {} /\ direct # "applying" /\ qpending' = qpending \ {Host}
      /\ UNCHANGED <<quitting, alive, phase, loop, snap, qfailed, cfailed, admits,
                     editors, direct, disk, counters, history>>
  BY DEF HostDrained
<1>2. MainTypes' /\ EditorTypes' /\ DrainTypes'
  BY <1>1, MainTypesKept, EditorTypesKept DEF DrainTypes, editors
<1>3. Editors' /\ Asking' /\ PreparedIsQuiet'
  BY <1>1, EditorsKept, AskingKept, QuietKept DEF editors, history
<1>4. \A e \in Editor : stage[e] \notin {"applying", "saving"} /\ e # Host
  BY <1>1 DEF Admitted
<1>5. Flushes'
  BY <1>1, <1>4 DEF Flushes, FlushInv, Draining, editors
<1>6. Closing'
  BY <1>1 DEF Closing, Draining, Accepts, editors
<1> QED
  BY <1>2, <1>3, <1>5, <1>6

LEMMA ReplyTypes ==
    ASSUME MainTypes, DrainTypes, NEW ok \in BOOLEAN, Reply(ok),
           UNCHANGED <<main, nonce, alive, counters>>, requests' \in Seq(Message)
    PROVE  MainTypes'
<1>1. [nonce |-> phase.nonce, ok |-> ok] \in [nonce : Nat, ok : BOOLEAN]
  BY DEF DrainTypes
<1> QED
  BY <1>1 DEF MainTypes, Reply, counters

LEMMA Refused ==
    ASSUME Reply(FALSE)
    PROVE  \A reply \in replies' :
               reply \in replies \/ (reply.nonce = phase.nonce /\ ~reply.ok)
<1>1. ASSUME NEW reply \in replies', reply \notin replies
      PROVE  reply.nonce = phase.nonce /\ ~reply.ok
  <2>1. reply = [nonce |-> phase.nonce, ok |-> FALSE]
    BY <1>1 DEF Reply
  <2>2. reply.nonce = phase.nonce
    BY <2>1
  <2>3. reply.ok = FALSE
    BY <2>1
  <2> QED
    BY <2>2, <2>3, Zenon
<1> QED
  BY <1>1, Zenon

LEMMA QuiescedStep ==
    ASSUME IInv, Quiesced
    PROVE  IInv'
<1> USE DEF IInv, TypeOK
<1>1. /\ loop = "quiesce" /\ qpending = {}
      /\ UNCHANGED <<main, nonce, requests, alive, phase, qpending, qfailed, cfailed,
                     admits, editors, direct, disk, counters, history>>
      /\ \/ ~qfailed /\ loop' = "saves" /\ snap' = Saving /\ replies' = replies
         \/ loop' = "none" /\ Reply(FALSE) /\ snap' = snap
  BY DEF Quiesced
<1>2. MainTypes'
  <2>1. CASE replies' = replies
    BY <1>1, <2>1, MainTypesKept DEF quitting
  <2>2. CASE Reply(FALSE)
    BY <1>1, <2>2, ReplyTypes DEF MainTypes
  <2> QED
    BY <1>1, <2>1, <2>2
<1>3. EditorTypes' /\ DrainTypes'
  BY <1>1, EditorTypesKept DEF DrainTypes, Saving, editors
<1>4. Editors' /\ Flushes' /\ PreparedIsQuiet'
  BY <1>1, EditorsKept, FlushesKept, QuietKept DEF editors, history
<1>5. Closing'
  BY <1>1 DEF Closing, Draining, Accepts, editors
<1>6. Asking'
  BY <1>1 DEF Asking, Reply
<1> QED
  BY <1>2, <1>3, <1>4, <1>5, <1>6

LEMMA DrainedStep ==
    ASSUME IInv, Drained
    PROVE  IInv'
<1> USE ConstantsAssumption DEF IInv, TypeOK
<1>1. /\ loop = "saves" /\ loop' = "none"
      /\ UNCHANGED <<main, nonce, requests, alive, snap, qpending, qfailed, cfailed,
                     admits, editors, direct, disk, counters, history>>
      /\ \/ /\ qpending = {} /\ Saving = {}
            /\ phase' = [phase EXCEPT !.phase = "prepared"]
            /\ Reply(TRUE)
         \/ Reply(FALSE) /\ phase' = phase
  BY DEF Drained
<1>2. MainTypes'
  BY <1>1, ReplyTypes DEF MainTypes
<1>3. phase.phase = "draining" /\ Draining /\ ~qfailed /\ qpending = {}
  BY <1>1 DEF Closing, Draining
<1>4. /\ phase' \in [phase : {"open", "draining", "prepared"}, nonce : Nat]
      /\ phase'.nonce = phase.nonce /\ phase'.phase \in {"draining", "prepared"}
      /\ phase'.phase = "prepared" => Saving = {} /\ Reply(TRUE)
      /\ phase'.phase = "draining" => Reply(FALSE)
  BY <1>1, <1>3 DEF DrainTypes
<1>5. EditorTypes' /\ DrainTypes'
  BY <1>1, <1>4, EditorTypesKept DEF DrainTypes, editors
<1>6. Editors'
  BY <1>1, EditorsKept DEF editors, history
<1>7. \A e \in Editor : chain[e] = <<>> /\ pend[e] = None /\ kept[e] = None
  BY <1>3 DEF Flushes, FlushInv
<1>8. Flushes'
  BY <1>1, <1>3, <1>4, <1>7 DEF Flushes, FlushInv, Draining, editors
<1>9. Closing'
  BY <1>1, <1>3, <1>4 DEF Closing, Draining, Accepts, editors
<1>10. PreparedIsQuiet'
  <2>1. direct # "applying" /\ accepting = {} /\ ~admits
    BY <1>3 DEF Closing
  <2>2. phase'.phase = "prepared" => direct = "none"
    BY <1>4, <2>1 DEF Saving, DrainTypes
  <2> QED
    BY <1>1, <1>7, <2>1, <2>2 DEF PreparedIsQuiet, editors
<1>11. Asking'
  <2>1. \A reply \in replies' :
            reply \in replies
            \/ (reply.nonce = phase.nonce /\ (reply.ok => phase'.phase = "prepared"))
    <3>1. CASE phase'.phase = "prepared"
      BY <1>4, <3>1 DEF Reply
    <3>2. CASE phase'.phase = "draining"
      BY <1>4, <3>2, Refused
    <3> QED
      BY <1>4, <3>1, <3>2
  <2>2. ~(phase.phase = "prepared")
    BY <1>3
  <2> QED
    BY <1>1, <1>4, <2>1, <2>2 DEF Asking
<1> QED
  BY <1>2, <1>5, <1>6, <1>8, <1>9, <1>10, <1>11
LEMMA BeginDrainStep ==
    ASSUME IInv, BeginDrain
    PROVE  IInv'
<1> USE ConstantsAssumption DEF IInv, TypeOK
<1>1. /\ requests # <<>> /\ phase = Open /\ ~Draining
      /\ phase' = [phase |-> "draining", nonce |-> Head(requests).nonce]
      /\ loop' = "quiesce" /\ requests' = Tail(requests)
      /\ accepting' = {} /\ admits' = FALSE
      /\ pend' = [e \in Editor |-> None]
      /\ chain' = [e \in Editor |-> IF Flushed(e) = None THEN chain[e]
                                    ELSE Append(chain[e], Flushed(e))]
      /\ stage' = [e \in Editor |-> IF Flushed(e) # None /\ chain[e] = <<>>
                                    THEN "applying" ELSE stage[e]]
      /\ qpending' = {Host} \cup {e \in Editor : chain'[e] # <<>>}
      /\ overtaken' = overtaken \cup {e \in Editor : Overtaken(e)}
      /\ UNCHANGED <<main, nonce, replies, alive, snap, qfailed, cfailed, text, kept,
                     direct, disk, counters, refused>>
  BY DEF BeginDrain, Draining, Open
<1>2. /\ requests \in Seq(Message) /\ Head(requests) = requests[1]
      /\ requests[1] \in Message /\ Tail(requests) \in Seq(Message)
      /\ Len(requests) \in Nat \ {0} /\ Len(Tail(requests)) = Len(requests) - 1
      /\ \A i \in 1 .. Len(Tail(requests)) : Tail(requests)[i] = requests[i + 1]
  BY <1>1, Rests DEF MainTypes
<1>3. /\ requests[1].nonce \in Nat
      /\ Draining' /\ phase'.phase = "draining" /\ phase'.nonce = requests[1].nonce
  BY <1>1, <1>2 DEF Message, Draining
<1>4. MainTypes'
  BY <1>1, <1>2 DEF MainTypes, counters
<1>5. ASSUME NEW e \in Editor
      PROVE  /\ text[e] \in Nat /\ chain[e] \in Seq(Nat)
             /\ Flushed(e) \in Nat \cup {None}
             /\ chain'[e] = IF Flushed(e) = None THEN chain[e] ELSE Append(chain[e], Flushed(e))
             /\ stage'[e] = IF Flushed(e) # None /\ chain[e] = <<>> THEN "applying" ELSE stage[e]
             /\ pend'[e] = None
             /\ Flushed(e) # None => chain'[e] # <<>>
             /\ chain'[e] \in Seq(Nat)
  <2>1. text[e] \in Nat /\ chain[e] \in Seq(Nat) /\ Flushed(e) \in Nat \cup {None}
    BY DEF EditorTypes, Flushed
  <2>2. /\ chain'[e] = IF Flushed(e) = None THEN chain[e] ELSE Append(chain[e], Flushed(e))
        /\ stage'[e] = IF Flushed(e) # None /\ chain[e] = <<>> THEN "applying" ELSE stage[e]
        /\ pend'[e] = None
    BY <1>1
  <2>3. CASE Flushed(e) = None
    BY <2>1, <2>2, <2>3
  <2>4. CASE Flushed(e) # None
    <3>1. Append(chain[e], Flushed(e)) \in Seq(Nat) /\ Append(chain[e], Flushed(e)) # <<>>
      BY <2>1, <2>4, Appended
    <3> QED
      BY <2>1, <2>2, <2>4, <3>1
  <2> QED
    BY <2>3, <2>4
<1>6. EditorTypes'
  <2>1. chain' \in [Editor -> Seq(Nat)] /\ pend' \in [Editor -> Nat \cup {None}]
    BY <1>1, <1>5
  <2>2. stage' \in [Editor -> {"none", "next", "applying", "saving"}]
    BY <1>1, <1>5 DEF EditorTypes
  <2>3. \A e \in Editor : stage'[e] = "none" <=> chain'[e] = <<>>
    BY <1>5 DEF EditorTypes
  <2> QED
    BY <1>1, <2>1, <2>2, <2>3 DEF EditorTypes
<1>7. DrainTypes'
  BY <1>1, <1>3 DEF DrainTypes
<1>8. ASSUME NEW e \in Editor
      PROVE  EditorInv(e)' /\ FlushInv(e)'
  <2>1. /\ CommitsBehind(e) /\ KeptIsNewest(e) /\ NewestSomewhere(e)
        /\ text'[e] = text[e] /\ kept'[e] = kept[e] /\ disk'[e] = disk[e]
        /\ qfailed' = qfailed
        /\ e \in overtaken' <=> e \in overtaken \/ Overtaken(e)
        /\ Host \in qpending' /\ (chain'[e] # <<>> => e \in qpending')
    BY <1>1 DEF Editors, EditorInv
  <2>2. CASE Flushed(e) = None
    <3>1. /\ pend[e] = None /\ kept[e] = None
          /\ chain'[e] = chain[e] /\ stage'[e] = stage[e] /\ pend'[e] = None
      BY <1>5, <2>2 DEF Flushed
    <3>2. EditorInv(e)'
      BY <1>5, <2>1, <3>1
         DEF EditorInv, CommitsBehind, KeptIsNewest, NewestSomewhere
    <3> QED
      BY <2>1, <3>1, <3>2 DEF FlushInv
  <2>3. CASE Flushed(e) # None
    <3>1. /\ Flushed(e) \in Nat /\ Flushed(e) = (IF pend[e] # None THEN pend[e] ELSE kept[e])
          /\ Len(chain[e]) \in Nat /\ (chain[e] = <<>> <=> Len(chain[e]) = 0)
          /\ chain'[e] # <<>> /\ Len(chain'[e]) = Len(chain[e]) + 1
          /\ \A i \in 1 .. Len(chain[e]) : chain'[e][i] = chain[e][i]
          /\ chain'[e][Len(chain[e]) + 1] = Flushed(e)
      <4>1. Flushed(e) \in Nat /\ chain[e] \in Seq(Nat)
        BY <1>5, <2>3
      <4>2. /\ Len(chain[e]) \in Nat /\ (chain[e] = <<>> <=> Len(chain[e]) = 0)
            /\ Append(chain[e], Flushed(e)) # <<>>
            /\ Len(Append(chain[e], Flushed(e))) = Len(chain[e]) + 1
            /\ \A i \in 1 .. Len(chain[e]) : Append(chain[e], Flushed(e))[i] = chain[e][i]
            /\ Append(chain[e], Flushed(e))[Len(chain[e]) + 1] = Flushed(e)
        BY <4>1, Appended
      <4>3. chain'[e] = Append(chain[e], Flushed(e))
        BY <1>5, <2>3
      <4> QED
        BY <4>1, <4>2, <4>3 DEF Flushed
    <3>2. /\ pend[e] # None => Flushed(e) = text[e]
          /\ chain[e] = <<>> => Flushed(e) = text[e]
      BY <1>5, <2>1, <3>1 DEF CommitsBehind, KeptIsNewest
    <3>3. Flushed(e) =< text[e]
      BY <1>5, <2>1, <3>1, <3>2 DEF CommitsBehind
    <3>4. CommitsBehind(e)'
      <4>1. \A i \in 1 .. Len(chain'[e]) : chain'[e][i] =< text[e]
        <5> SUFFICES ASSUME NEW i \in 1 .. Len(chain[e]) + 1
                     PROVE  chain'[e][i] =< text[e]
          BY <3>1
        <5>1. CASE i = Len(chain[e]) + 1
          BY <3>1, <3>3, <5>1
        <5>2. CASE i # Len(chain[e]) + 1
          <6>1. i \in 1 .. Len(chain[e])
            BY <3>1, <5>2
          <6> QED
            BY <2>1, <3>1, <6>1 DEF CommitsBehind
        <5> QED
          BY <5>1, <5>2
      <4> QED
        BY <1>5, <2>1, <4>1 DEF CommitsBehind
    <3>5. KeptIsNewest(e)'
      <4>1. CASE Flushed(e) = text[e]
        <5>1. Len(chain[e]) + 1 \in 1 .. Len(chain'[e])
              /\ chain'[e][Len(chain[e]) + 1] = text'[e]
          BY <2>1, <3>1, <4>1
        <5>2. Len(chain[e]) + 1 = 1 => stage'[e] # "saving"
          BY <1>5, <2>3, <3>1
        <5> QED
          BY <5>1, <5>2 DEF KeptIsNewest
      <4>2. CASE Flushed(e) # text[e]
        <5>1. /\ pend[e] = None /\ chain[e] # <<>> /\ stage'[e] = stage[e]
              /\ text[e] # None
          BY <1>5, <2>3, <3>1, <3>2, <4>2 DEF Flushed
        <5>2. SUFFICES ASSUME kept'[e] # None, kept[e] # text[e]
                       PROVE  KeptIsNewest(e)'
          BY <2>1 DEF KeptIsNewest
        <5>3. PICK i \in 1 .. Len(chain[e]) :
                 chain[e][i] = text[e] /\ (i = 1 => stage[e] # "saving")
          BY <2>1, <5>1, <5>2 DEF KeptIsNewest
        <5>4. /\ i \in 1 .. Len(chain'[e]) /\ chain'[e][i] = text'[e]
              /\ i = 1 => stage'[e] # "saving"
          BY <2>1, <3>1, <5>1, <5>3
        <5> QED
          BY <5>4 DEF KeptIsNewest
      <4> QED
        BY <4>1, <4>2
    <3>6. NewestSomewhere(e)'
      <4> SUFFICES ASSUME ~Overtaken(e)
                   PROVE  NewestSomewhere(e)'
        BY <2>1 DEF NewestSomewhere
      <4>1. Flushed(e) = text[e]
        BY <2>3, <3>2 DEF Overtaken, Flushed
      <4>2. \A i \in 1 .. Len(chain[e]) : chain[e][i] < text[e]
        <5>1. CASE pend[e] # None
          BY <2>1, <5>1 DEF CommitsBehind
        <5>2. CASE pend[e] = None
          BY <2>3, <3>1, <5>2 DEF Overtaken, Flushed
        <5> QED
          BY <5>1, <5>2
      <4>3. \A i \in 1 .. Len(chain'[e]) - 1 : chain'[e][i] < text'[e]
        BY <2>1, <3>1, <4>2
      <4>4. chain'[e] # <<>> /\ chain'[e][Len(chain'[e])] = text'[e]
        BY <2>1, <3>1, <4>1
      <4> QED
        BY <4>3, <4>4 DEF NewestSomewhere
    <3>7. FlushInv(e)'
      BY <1>5, <2>1, <3>1, <3>2 DEF FlushInv
    <3> QED
      BY <3>4, <3>5, <3>6, <3>7 DEF EditorInv
  <2> QED
    BY <2>2, <2>3
<1>9. Editors' /\ Flushes'
  BY <1>8 DEF Editors, Flushes
<1>10. Closing'
  BY <1>1, <1>3 DEF Closing
<1>11. PreparedIsQuiet'
  BY <1>3 DEF PreparedIsQuiet
<1>12. Asking'
  <2>1. \A i \in 1 .. Len(requests') :
           i + 1 \in 1 .. Len(requests) /\ requests'[i] = requests[i + 1]
    BY <1>1, <1>2
  <2>2. 1 \in 1 .. Len(requests)
    BY <1>2
  <2>3. main \notin {"flushing", "exited"}
    BY <1>1 DEF Asking, Draining
  <2> QED
    BY <1>1, <1>3, <2>1, <2>2, <2>3 DEF Asking, Draining
<1> QED
  BY <1>4, <1>6, <1>7, <1>9, <1>10, <1>11, <1>12

\* A message is taken from the queue.
LEMMA MessageTaken ==
    ASSUME MainTypes, Asking, requests # <<>>, requests' = Tail(requests)
    PROVE  /\ requests' \in Seq(Message) /\ Head(requests) = requests[1]
           /\ requests[1] \in Message /\ 1 \in 1 .. Len(requests)
           /\ \A i \in 1 .. Len(requests') :
                  i + 1 \in 1 .. Len(requests) /\ requests'[i] = requests[i + 1]
<1>1. /\ requests \in Seq(Message) /\ Head(requests) = requests[1]
      /\ requests[1] \in Message /\ Tail(requests) \in Seq(Message)
      /\ Len(requests) \in Nat \ {0} /\ Len(Tail(requests)) = Len(requests) - 1
      /\ \A i \in 1 .. Len(Tail(requests)) : Tail(requests)[i] = requests[i + 1]
  BY Rests DEF MainTypes
<1> QED
  BY <1>1

\* What a renderer that opens again keeps true, whatever is asked of it.
LEMMA OpensAgain ==
    ASSUME ConstantsAssumption, Reopened
    PROVE  /\ ~Draining' /\ phase'.nonce = 0 /\ phase'.phase = "open"
           /\ Flushes' /\ Closing' /\ PreparedIsQuiet'
           /\ (snap \subseteq Editor \cup {"direct"} /\ DrainTypes /\ direct' \in {"none", direct})
                  => DrainTypes'
<1>1. /\ phase' = Open /\ phase'.phase = "open" /\ phase'.nonce = 0 /\ loop' = "none"
      /\ qpending' = {} /\ accepting' = Editor /\ admits' = TRUE
  BY DEF Reopened, Open
<1>2. ~Draining'
  BY <1>1 DEF Draining
<1>3. Flushes' /\ PreparedIsQuiet'
  BY <1>1, <1>2 DEF Flushes, FlushInv, PreparedIsQuiet
<1>4. Closing'
  BY <1>1, <1>2 DEF Closing, Accepts, Open
<1>5. ASSUME DrainTypes, direct' \in {"none", direct}
      PROVE  DrainTypes'
  <2>1. phase' \in [phase : {"open", "draining", "prepared"}, nonce : Nat]
    BY <1>1 DEF Open
  <2>2. direct' \in {"none", "applying", "saving"}
    BY <1>5 DEF DrainTypes
  <2> QED
    BY <1>1, <2>1, <2>2 DEF DrainTypes, Reopened
<1> QED
  BY <1>1, <1>2, <1>3, <1>4, <1>5

LEMMA CancelledStep ==
    ASSUME IInv, Cancelled
    PROVE  IInv'
<1> USE ConstantsAssumption DEF IInv, TypeOK
<1>1. /\ requests # <<>> /\ Head(requests).kind = "cancel" /\ requests' = Tail(requests)
      /\ UNCHANGED <<main, nonce, alive, text, pend, kept, chain, stage, direct, disk,
                     counters, history>>
      /\ \/ /\ Draining /\ phase.nonce = Head(requests).nonce /\ Reopened
            /\ replies' = replies \/ Reply(FALSE)
         \/ UNCHANGED <<draining, accepting, replies>>
  BY DEF Cancelled
<1>2. /\ requests' \in Seq(Message) /\ Head(requests) = requests[1]
      /\ requests[1] \in Message /\ 1 \in 1 .. Len(requests)
      /\ \A i \in 1 .. Len(requests') :
             i + 1 \in 1 .. Len(requests) /\ requests'[i] = requests[i + 1]
  BY <1>1, MessageTaken
<1>3. Editors'
  BY <1>1, EditorsKept DEF history
<1>4. EditorTypes'
  BY <1>1 DEF EditorTypes, history
<1>5. CASE UNCHANGED <<draining, accepting, replies>>
  <2>1. MainTypes'
    BY <1>1, <1>2, <1>5 DEF MainTypes, counters
  <2>2. DrainTypes'
    BY <1>1, <1>5, DrainTypesKept
  <2>3. Flushes' /\ Closing' /\ PreparedIsQuiet'
    BY <1>1, <1>5, FlushesKept, ClosingKept, QuietKept DEF draining
  <2>4. Asking'
    BY <1>1, <1>2, <1>5 DEF Asking, draining
  <2> QED
    BY <1>3, <1>4, <2>1, <2>2, <2>3, <2>4
<1>6. CASE /\ Draining /\ phase.nonce = Head(requests).nonce /\ Reopened
           /\ replies' = replies \/ Reply(FALSE)
  <2>1. MainTypes'
    <3>1. CASE replies' = replies
      BY <1>1, <1>2, <3>1 DEF MainTypes, counters
    <3>2. CASE Reply(FALSE)
      BY <1>1, <1>2, <3>2, ReplyTypes
    <3> QED
      BY <1>6, <3>1, <3>2
  <2>2. /\ DrainTypes' /\ Flushes' /\ Closing' /\ PreparedIsQuiet'
        /\ phase'.nonce = 0 /\ phase'.phase = "open"
    BY <1>1, <1>6, OpensAgain DEF DrainTypes
  <2>3. \A reply \in replies' : reply \in replies \/ (reply.nonce = phase.nonce /\ ~reply.ok)
    <3>1. CASE replies' = replies
      BY <3>1, Zenon
    <3>2. CASE Reply(FALSE)
      BY <3>2, Refused
    <3> QED
      BY <1>6, <3>1, <3>2, Zenon
  <2>4. main \in {"waiting", "flushing", "exited"} => phase.nonce # nonce
    BY <1>1, <1>2, <1>6 DEF Asking
  <2>5. Asking'
    BY <1>1, <1>2, <2>2, <2>3, <2>4 DEF Asking, MainTypes
  <2> QED
    BY <1>3, <1>4, <2>1, <2>2, <2>5
<1> QED
  BY <1>1, <1>5, <1>6
-----------------------------------------------------------------------------
(***************************************************************************)
(* The main process.                                                       *)
(***************************************************************************)
\* What leaves the renderer alone.
LEMMA RendererAlone ==
    ASSUME IInv, UNCHANGED <<draining, editors, direct, disk, history>>
    PROVE  DrainTypes' /\ EditorTypes' /\ Editors' /\ Flushes' /\ Closing' /\ PreparedIsQuiet'
<1> USE DEF IInv, TypeOK
<1>1. DrainTypes' /\ EditorTypes'
  BY DrainTypesKept, EditorTypesKept DEF editors
<1>2. Editors' /\ Flushes' /\ Closing' /\ PreparedIsQuiet'
  BY EditorsKept, FlushesKept, ClosingKept, QuietKept DEF draining, editors, history
<1> QED
  BY <1>1, <1>2

\* What is sent to the renderer.
LEMMA Sent ==
    ASSUME MainTypes, NEW message \in Message, requests' = Append(requests, message)
    PROVE  /\ requests' \in Seq(Message)
           /\ \A i \in 1 .. Len(requests') :
                  requests'[i] = message \/ (i \in 1 .. Len(requests) /\ requests'[i] = requests[i])
<1>1. /\ requests' \in Seq(Message)
      /\ Len(requests') = Len(requests) + 1
      /\ \A i \in 1 .. Len(requests) : requests'[i] = requests[i]
      /\ requests'[Len(requests) + 1] = message
      /\ Len(requests) \in Nat
  BY Appended DEF MainTypes
<1>2. ASSUME NEW i \in 1 .. Len(requests')
      PROVE  i \in 1 .. Len(requests) \/ i = Len(requests) + 1
  BY <1>1
<1>3. ASSUME NEW i \in 1 .. Len(requests')
      PROVE  requests'[i] = message \/ (i \in 1 .. Len(requests) /\ requests'[i] = requests[i])
  <2>1. CASE i \in 1 .. Len(requests)
    BY <1>1, <2>1
  <2>2. CASE i = Len(requests) + 1
    <3>1. requests'[i] = message
      BY <1>1, <2>2
    <3> QED
      BY <3>1, Zenon
  <2> QED
    BY <1>2, <2>1, <2>2
<1> QED
  BY <1>1, <1>3

LEMMA QuitStep ==
    ASSUME IInv, Quit
    PROVE  IInv'
<1> USE DEF IInv, TypeOK
<1>1. /\ main = "open" /\ main' = "waiting" /\ nonce' = nonce + 1
      /\ requests' = Append(requests, [kind |-> "request", nonce |-> nonce + 1])
      /\ UNCHANGED <<replies, alive, draining, editors, direct, disk, counters, history>>
  BY DEF Quit
<1>2. [kind |-> "request", nonce |-> nonce + 1] \in Message
  BY DEF Message, MainTypes
<1>3. /\ requests' \in Seq(Message)
      /\ \A i \in 1 .. Len(requests') :
             requests'[i] = [kind |-> "request", nonce |-> nonce + 1]
             \/ (i \in 1 .. Len(requests) /\ requests'[i] = requests[i])
  BY <1>1, <1>2, Sent
<1>4. MainTypes'
  BY <1>1, <1>3 DEF MainTypes, counters
<1>5. Asking'
  <2>1. /\ nonce \in Nat /\ phase' = phase /\ phase.nonce \in Nat
        /\ \A reply \in replies : reply.nonce \in Nat
        /\ \A i \in 1 .. Len(requests) : requests[i].nonce \in Nat
    <3>1. /\ nonce \in Nat /\ phase' = phase /\ phase.nonce \in Nat
          /\ \A reply \in replies : reply.nonce \in Nat
      BY <1>1 DEF MainTypes, DrainTypes, draining
    <3>2. requests \in Seq(Message)
      BY DEF MainTypes
    <3>3. \A i \in 1 .. Len(requests) : requests[i] \in Message
      BY <3>2
    <3> QED
      BY <3>1, <3>3 DEF Message
  <2> DEFINE message == [kind |-> "request", nonce |-> nonce + 1]
  <2>2. message.nonce = nonce + 1 /\ message.kind = "request"
    OBVIOUS
  <2>3. \A i \in 1 .. Len(requests') :
            requests'[i].nonce =< nonce'
            /\ (requests'[i].kind = "cancel" => requests'[i].nonce # nonce')
    <3> SUFFICES ASSUME NEW i \in 1 .. Len(requests')
                 PROVE  /\ requests'[i].nonce =< nonce + 1
                        /\ requests'[i].kind = "cancel" => requests'[i].nonce # nonce + 1
      BY <1>1
    <3>1. CASE requests'[i] = message
      BY <2>1, <2>2, <3>1
    <3>2. CASE i \in 1 .. Len(requests) /\ requests'[i] = requests[i]
      <4>1. requests[i].nonce =< nonce /\ requests[i].nonce \in Nat
        <5>1. \A j \in 1 .. Len(requests) : requests[j].nonce =< nonce
          BY DEF Asking
        <5>2. i \in 1 .. Len(requests)
          BY <3>2
        <5>3. requests[i].nonce \in Nat
          BY <2>1, <5>2
        <5> QED
          BY <5>1, <5>2, <5>3
      <4> QED
        BY <2>1, <3>2, <4>1
    <3> QED
      BY <1>3, <3>1, <3>2
  <2>4. \A reply \in replies' : reply.nonce =< nonce' /\ reply.nonce # nonce'
    BY <1>1, <2>1 DEF Asking
  <2> QED
    BY <1>1, <2>1, <2>3, <2>4 DEF Asking
<1> QED
  BY <1>1, <1>4, <1>5, RendererAlone

\* What the main process keeps true when it gives up.
LEMMA Aborts ==
    ASSUME MainTypes, Asking, Abort, nonce' = nonce, replies' \subseteq replies,
           alive' \in BOOLEAN, edits' \in Nat, failures' \in Nat, timeouts' \in Nat,
           losses' \in Nat,
           phase'.nonce = phase.nonce \/ phase'.nonce = 0
    PROVE  MainTypes' /\ Asking'
<1>1. nonce \in Nat /\ main' = "open"
  BY DEF MainTypes, Abort
<1>2. CASE requests' = Append(requests, [kind |-> "cancel", nonce |-> nonce])
  <2>1. [kind |-> "cancel", nonce |-> nonce] \in Message
    BY <1>1 DEF Message
  <2>2. /\ requests' \in Seq(Message)
        /\ \A i \in 1 .. Len(requests') :
               requests'[i] = [kind |-> "cancel", nonce |-> nonce]
               \/ (i \in 1 .. Len(requests) /\ requests'[i] = requests[i])
    BY <1>2, <2>1, Sent
  <2>3. MainTypes'
    BY <1>1, <2>2 DEF MainTypes
  <2>4. Asking'
    BY <1>1, <2>2 DEF Asking
  <2> QED
    BY <2>3, <2>4
<1>3. CASE requests' = <<>>
  <2>1. MainTypes'
    <3>1. <<>> \in Seq(Message)
      OBVIOUS
    <3> QED
      BY <1>1, <1>3, <3>1 DEF MainTypes
  <2>2. Asking'
    BY <1>1, <1>3 DEF Asking
  <2> QED
    BY <2>1, <2>2
<1> QED
  BY <1>2, <1>3 DEF Abort

LEMMA ReceiveStep ==
    ASSUME IInv, NEW reply \in replies, ReceiveReply(reply)
    PROVE  IInv'
<1> USE DEF IInv, TypeOK
<1>1. /\ replies' = replies \ {reply} /\ alive' = alive
      /\ UNCHANGED <<nonce, draining, editors, direct, disk, counters, history>>
      /\ \/ /\ main = "waiting" /\ reply.nonce = nonce /\ reply.ok
            /\ main' = "flushing" /\ requests' = requests
         \/ Abort
         \/ UNCHANGED <<main, requests>>
  BY DEF ReceiveReply
<1>2. UNCHANGED <<phase, edits, failures, timeouts, losses>>
  BY <1>1 DEF draining, counters
<1>3. MainTypes' /\ Asking'
  <2>1. CASE Abort
    BY <1>1, <1>2, <2>1, Aborts DEF MainTypes
  <2>2. CASE /\ main = "waiting" /\ reply.nonce = nonce /\ reply.ok
             /\ main' = "flushing" /\ requests' = requests
    <3>1. MainTypes'
      BY <1>1, <1>2, <2>2 DEF MainTypes
    <3>2. Asking'
      BY <1>1, <1>2, <2>2 DEF Asking
    <3> QED
      BY <3>1, <3>2
  <2>3. CASE UNCHANGED <<main, requests>>
    <3>1. MainTypes'
      BY <1>1, <1>2, <2>3 DEF MainTypes
    <3>2. Asking'
      BY <1>1, <1>2, <2>3 DEF Asking
    <3> QED
      BY <3>1, <3>2
  <2> QED
    BY <1>1, <2>1, <2>2, <2>3
<1> QED
  BY <1>1, <1>3, RendererAlone

LEMMA GivesUpStep ==
    ASSUME IInv, Timeout \/ ExitFails
    PROVE  IInv'
<1> USE ConstantsAssumption DEF IInv, TypeOK
<1>1. /\ Abort /\ timeouts' \in Nat /\ alive' = alive
      /\ UNCHANGED <<nonce, replies, draining, editors, direct, disk, edits, failures,
                     losses, history>>
  BY DEF Timeout, ExitFails, MainTypes, counters
<1>2. MainTypes' /\ Asking'
  <2>1. phase' = phase
    BY <1>1 DEF draining
  <2> QED
    BY <1>1, <2>1, Aborts DEF MainTypes
<1> QED
  BY <1>1, <1>2, RendererAlone

LEMMA ExitStep ==
    ASSUME IInv, Exit
    PROVE  IInv'
<1> USE DEF IInv, TypeOK
<1>1. /\ main = "flushing" /\ main' = "exited"
      /\ UNCHANGED <<nonce, requests, replies, alive, draining, editors, direct, disk,
                     counters, history>>
  BY DEF Exit
<1>2. MainTypes' /\ Asking'
  BY <1>1 DEF MainTypes, Asking, counters, draining
<1> QED
  BY <1>1, <1>2, RendererAlone

LEMMA ReloadStep ==
    ASSUME IInv, Reload
    PROVE  IInv'
<1> USE DEF IInv, TypeOK
<1>1. /\ alive' = TRUE
      /\ UNCHANGED <<quitting, draining, editors, direct, disk, counters, history>>
  BY DEF Reload
<1>2. MainTypes' /\ Asking'
  BY <1>1, AskingKept DEF MainTypes, quitting, counters, draining
<1> QED
  BY <1>1, <1>2, RendererAlone

LEMMA LoseStep ==
    ASSUME IInv, LoseRenderer
    PROVE  IInv'
<1> USE ConstantsAssumption DEF IInv, TypeOK
<1>1. /\ main # "exited" /\ losses' = losses + 1 /\ alive' = FALSE
      /\ \/ Abort
         \/ /\ main # "waiting" /\ requests' = <<>>
            /\ main' = IF main = "flushing" THEN "failing" ELSE main
      /\ Reopened
      /\ text' = disk
      /\ pend' = [e \in Editor |-> None] /\ kept' = [e \in Editor |-> None]
      /\ chain' = [e \in Editor |-> <<>>] /\ stage' = [e \in Editor |-> "none"]
      /\ direct' = "none" /\ overtaken' = {}
      /\ UNCHANGED <<nonce, replies, disk, edits, failures, timeouts, refused>>
  BY DEF LoseRenderer
<1>2. /\ DrainTypes' /\ Flushes' /\ Closing' /\ PreparedIsQuiet'
      /\ phase'.nonce = 0
  BY <1>1, OpensAgain DEF DrainTypes
<1>3. /\ replies' = replies /\ replies' \subseteq replies
      /\ nonce' = nonce /\ alive' \in BOOLEAN
      /\ edits' \in Nat /\ failures' \in Nat /\ timeouts' \in Nat /\ losses' \in Nat
  <2>1. edits \in Nat /\ failures \in Nat /\ timeouts \in Nat /\ losses \in Nat
    BY DEF MainTypes
  <2>2. losses' \in Nat
    BY <1>1, <2>1
  <2>3. alive' \in BOOLEAN
    BY <1>1
  <2> QED
    BY <1>1, <2>1, <2>2, <2>3
<1>4. MainTypes' /\ Asking'
  <2>1. CASE Abort
    BY <1>2, <1>3, <2>1, Aborts
  <2>2. CASE /\ main # "waiting" /\ requests' = <<>>
             /\ main' = IF main = "flushing" THEN "failing" ELSE main
    <3>1. <<>> \in Seq(Message) /\ Len(requests') = 0
      BY <2>2
    <3>2. main' \in {"open", "failing"}
      BY <1>1, <2>2 DEF MainTypes
    <3>3. MainTypes'
      BY <1>3, <2>2, <3>1, <3>2 DEF MainTypes
    <3>4. Asking'
      BY <1>1, <1>2, <3>1, <3>2 DEF Asking, MainTypes
    <3> QED
      BY <3>3, <3>4
  <2> QED
    BY <1>1, <2>1, <2>2
<1>5. EditorTypes'
  <2>1. chain' \in [Editor -> Seq(Nat)]
    <3>1. <<>> \in Seq(Nat)
      OBVIOUS
    <3> QED
      BY <1>1, <3>1
  <2> QED
    BY <1>1, <2>1 DEF EditorTypes
<1>6. Editors'
  BY <1>1 DEF Editors, EditorInv, CommitsBehind, KeptIsNewest, NewestSomewhere
<1> QED
  BY <1>2, <1>4, <1>5, <1>6
-----------------------------------------------------------------------------
(***************************************************************************)
(* The theorems.                                                           *)
(***************************************************************************)
LEMMA InitInvariant == Init => IInv
<1> SUFFICES ASSUME Init
             PROVE  IInv
  OBVIOUS
<1> USE ConstantsAssumption
<1>1. ~Draining /\ phase = Open /\ phase.nonce = 0 /\ phase.phase = "open"
  BY DEF Init, Draining, Open
<1>2. <<>> \in Seq(Message) /\ <<>> \in Seq(Nat) /\ Len(<<>>) = 0
  OBVIOUS
<1>3. TypeOK
  <2>1. MainTypes
    BY <1>2 DEF Init, MainTypes
  <2>2. DrainTypes
    BY DEF Init, DrainTypes, Open
  <2>3. EditorTypes
    BY <1>2 DEF Init, EditorTypes
  <2> QED
    BY <2>1, <2>2, <2>3 DEF TypeOK
<1>4. ASSUME NEW e \in Editor
      PROVE  EditorInv(e)
  <2>1. /\ text[e] = 0 /\ disk[e] = 0 /\ pend[e] = None /\ kept[e] = None
        /\ chain[e] = <<>> /\ Len(chain[e]) = 0
    BY <1>2 DEF Init
  <2>2. CommitsBehind(e) /\ KeptIsNewest(e)
    BY <2>1 DEF CommitsBehind, KeptIsNewest
  <2>3. NewestSomewhere(e)
    BY <2>1 DEF NewestSomewhere
  <2> QED
    BY <2>2, <2>3 DEF EditorInv
<1>5. Flushes /\ PreparedIsQuiet
  BY <1>1 DEF Flushes, FlushInv, PreparedIsQuiet
<1>6. Closing
  BY <1>1 DEF Init, Closing, Accepts
<1>7. Asking
  BY <1>1, <1>2 DEF Init, Asking
<1> QED
  BY <1>3, <1>4, <1>5, <1>6, <1>7 DEF IInv, Editors

LEMMA NextInvariant == IInv /\ [Next]_vars => IInv'
<1> SUFFICES ASSUME IInv, [Next]_vars
             PROVE  IInv'
  OBVIOUS
<1>1. CASE UNCHANGED vars
  <2>1. /\ UNCHANGED <<quitting, alive, draining, editors, direct, disk, counters, history>>
        /\ UNCHANGED <<quitting, alive, counters>> /\ UNCHANGED <<quitting, phase>>
    BY <1>1 DEF vars, draining
  <2>2. MainTypes' /\ Asking'
    BY <2>1, MainTypesKept, AskingKept DEF IInv, TypeOK
  <2> QED
    BY <2>1, <2>2, RendererAlone DEF IInv, TypeOK
<1>2. CASE Renderer
  <2>1. ASSUME NEW e \in Editor, TimerCommits(e) \/ Dispatch(e) \/ Save(e) \/ NextCommit(e)
        PROVE  IInv'
    BY <2>1, TimerStep, DispatchStep, SaveStep, NextCommitStep
  <2>2. CASE DispatchDirect \/ SaveDirect
    BY <2>2, DirectStep
  <2>3. CASE BeginDrain \/ HostDrained \/ Quiesced \/ Drained \/ Cancelled
    BY <2>3, BeginDrainStep, HostDrainedStep, QuiescedStep, DrainedStep, CancelledStep
  <2> QED
    BY <1>2, <2>1, <2>2, <2>3 DEF Renderer
<1>3. CASE Main
  BY <1>3, ReceiveStep, ExitStep, GivesUpStep DEF Main
<1>4. ASSUME NEW e \in Editor, Type(e) \/ FailSave(e)
      PROVE  IInv'
  BY <1>4, TypeStep, FailSaveStep
<1>5. CASE EditDirectly \/ FailDirect
  BY <1>5, EditDirectlyStep, DirectStep
<1>6. CASE Quit \/ Timeout \/ LoseRenderer \/ Reload
  BY <1>6, QuitStep, GivesUpStep, LoseStep, ReloadStep
<1> QED
  BY <1>1, <1>2, <1>3, <1>4, <1>5, <1>6 DEF Next

THEOREM Invariance == Spec => []IInv
BY InitInvariant, NextInvariant, PTL DEF Spec

\* The messages, the drain and the editors keep their shape, and an editor has a
\* commit in progress when and only when one is chained.
THEOREM TypeCorrect == Spec => []TypeOK
BY Invariance, PTL DEF IInv

\* A renderer that said it is prepared has nothing left that could write, and takes
\* no text and no mutation (persistence-quit-coordinator.ts, renderer-quit-quiescence.ts).
THEOREM PreparedStaysQuiet == Spec => []PreparedIsQuiet
BY Invariance, PTL DEF IInv

\* A renderer that is open takes text and mutations, however the quit before ended.
THEOREM OpenTakesText == Spec => []OpenAccepts
<1>1. IInv => OpenAccepts
  BY DEF IInv, Closing, OpenAccepts, Draining, Open
<1> QED
  BY <1>1, Invariance, PTL

LEMMA ExitOfInvariant == IInv => ExitKeepsText
<1> SUFFICES ASSUME IInv, main = "exited", NEW e \in Editor, e \notin overtaken
             PROVE  disk[e] = text[e]
  BY DEF ExitKeepsText
<1>1. chain[e] = <<>> /\ pend[e] = None /\ kept[e] = None
  BY DEF IInv, Asking, PreparedIsQuiet
<1>2. text[e] # None
  BY ConstantsAssumption DEF IInv, TypeOK, EditorTypes
<1>3. NewestSomewhere(e)
  BY DEF IInv, Editors, EditorInv
<1> QED
  BY <1>1, <1>2, <1>3 DEF NewestSomewhere

\* The app exits with every text the user typed on disk, for any number of editors,
\* failed saves, late answers, cancelled quits and lost renderers; an editor that
\* flushed an older text behind a newer one is excepted.
THEOREM ExitsWithText == Spec => []ExitKeepsText
BY Invariance, ExitOfInvariant, PTL
=============================================================================
