-------------------------- MODULE NotificationsProofs --------------------------
(***************************************************************************)
(* Proofs about Notifications: its types, that the settings are those of   *)
(* one update unless updates met, and that a notification was asked for    *)
(* and is sent once, for any executions, handlers, lists and bounds.       *)
(*                                                                         *)
(* The actions of an update touch nothing a goroutine writes, and a        *)
(* goroutine nothing of an update; the invariant has a part for each.      *)
(***************************************************************************)
EXTENDS Notifications, FiniteSetTheorems, TLAPS

(***************************************************************************)
(* The inductive invariant.                                                *)
(***************************************************************************)
\* How many settings of its list an update has looked at.
Done(h) == Len(sent[number[h]]) - Len(list[h])

\* What is left of its list is the end of the list that was sent.
ListsLeft ==
    \A h \in Handlers : Busy(h) =>
       /\ number[h] \in 1 .. updates
       /\ Done(h) \in Nat
       /\ \A i \in 1 .. Len(list[h]) : list[h][i] = sent[number[h]][Done(h) + i]
       /\ pc[h] = "create" => list[h] # <<>>
       /\ pc[h] = "clear" => Done(h) = 0

\* The rows that the first n settings of an update make.
RowsUpTo(u, n) == {RowOf(u, i) : i \in {j \in 1 .. n : sent[u][j].channel \in Channels}}

\* An update that is alone has made the rows of what it has looked at, and no others.
AloneUpdates ==
    \A h \in Handlers : Busy(h) /\ alone[h] =>
       /\ \A k \in Handlers : k # h => ~Busy(k)
       /\ pc[h] = "create" => settings = RowsUpTo(number[h], Done(h))

\* An execution has no notifications before its goroutine sends, and none yet for the
\* settings that are left.
NotesOfSenders ==
    \A e \in Executions :
       /\ outcome[e] = "running" => sender[e] = "none"
       /\ sender[e] \in {"none", "load"} => \A n \in notes : n.execution # e
       /\ sender[e] = "send" =>
             \A n \in notes : n.execution = e => n.setting \notin left[e]
       /\ \A r \in left[e] : r.set.enabled

UpdateInv == UpdateTypes /\ ListsLeft /\ AloneUpdates /\ SettingsOfOneUpdate
SenderInv == SenderTypes /\ IsFiniteSet(notes) /\ NotesOfSenders /\ NotifiedAsAsked
IInv == UpdateInv /\ SenderInv

--------------------------------------------------------------------------------
(***************************************************************************)
(* Updates.                                                                *)
(***************************************************************************)
\* Nothing is sent, and nobody updates, at first.
LEMMA InitUpdates == Init => UpdateInv
  <1> SUFFICES ASSUME Init PROVE UpdateInv
    OBVIOUS
  <1>1. UpdateTypes
    BY BoundsAssumption DEF Init, UpdateTypes
  <1>2. ListsLeft /\ AloneUpdates /\ SettingsOfOneUpdate
    BY DEF Init, ListsLeft, AloneUpdates, SettingsOfOneUpdate, Busy
  <1> QED
    BY <1>1, <1>2 DEF UpdateInv

\* What no update writes leaves the invariant of the updates alone.
LEMMA OtherStep == UpdateInv /\ UNCHANGED <<exists, updateVars>> => UpdateInv'
  <1> SUFFICES ASSUME UpdateInv, UNCHANGED <<exists, updateVars>> PROVE UpdateInv'
    OBVIOUS
  <1>1. UpdateTypes'
    BY DEF UpdateInv, UpdateTypes, updateVars
  <1>2. ListsLeft'
    BY DEF UpdateInv, ListsLeft, updateVars, Busy, Done
  <1>3. AloneUpdates'
    BY DEF UpdateInv, AloneUpdates, updateVars, Busy, Done, RowsUpTo, RowOf
  <1>4. SettingsOfOneUpdate'
    BY DEF UpdateInv, SettingsOfOneUpdate, updateVars, Busy, RowOf
  <1> QED
    BY <1>1, <1>2, <1>3, <1>4 DEF UpdateInv

\* An update that begins has all of its list before it.
LEMMA BeginStep == ASSUME UpdateInv, NEW h \in Handlers, BeginUpdate(h) PROVE UpdateInv'
  <1>1. PICK l \in Lists :
          /\ list' = [list EXCEPT ![h] = l]
          /\ sent' = Append(sent, l)
    BY DEF BeginUpdate
  <1>2. /\ updates \in Nat /\ updates < MaxUpdates /\ updates' = updates + 1
        /\ sent \in Seq(Lists) /\ Len(sent) = updates
    BY DEF BeginUpdate, UpdateInv, UpdateTypes
  <1>3. /\ Len(sent') = updates + 1 /\ sent' \in Seq(Lists)
        /\ sent'[updates + 1] = l
        /\ \A u \in 1 .. updates : sent'[u] = sent[u]
    BY <1>1, <1>2
  <1>4. l \in Seq(Setting)
    BY ListsAssumption
  <1>5. /\ number' = [number EXCEPT ![h] = updates + 1]
        /\ pc' = [pc EXCEPT ![h] = "clear"]
        /\ alone' = [g \in Handlers |->
             IF g = h THEN \A k \in Handlers : ~Busy(k) ELSE alone[g] /\ ~Busy(g)]
        /\ settings' = settings /\ settled' = settled /\ exists' = exists
    BY DEF BeginUpdate
  <1>6. UpdateTypes'
    <2>1. list' \in [Handlers -> Seq(Setting)]
      BY <1>1, <1>4 DEF UpdateInv, UpdateTypes
    <2>2. number' \in [Handlers -> 0 .. updates']
      BY <1>2, <1>5 DEF UpdateInv, UpdateTypes
    <2>3. /\ updates' \in 0 .. MaxUpdates /\ settled' \in 0 .. updates'
          /\ sent' \in Seq(Lists) /\ Len(sent') = updates'
      BY <1>2, <1>3, <1>5, BoundsAssumption DEF UpdateInv, UpdateTypes
    <2>4. alone' \in [Handlers -> BOOLEAN]
      <3>1. \A g \in Handlers : alone'[g] \in BOOLEAN
        BY <1>5 DEF Busy, UpdateInv, UpdateTypes
      <3> QED
        BY <1>5, <3>1, Zenon
    <2>5. pc' \in [Handlers -> {"idle", "clear", "create"}]
      BY <1>5 DEF UpdateInv, UpdateTypes
    <2> QED
      BY <1>5, <2>1, <2>2, <2>3, <2>4, <2>5 DEF UpdateInv, UpdateTypes
  <1>7. ListsLeft'
    <2> SUFFICES ASSUME NEW g \in Handlers, Busy(g)'
                 PROVE  /\ number'[g] \in 1 .. updates'
                        /\ Done(g)' \in Nat
                        /\ \A i \in 1 .. Len(list'[g]) :
                              list'[g][i] = sent'[number'[g]][Done(g)' + i]
                        /\ pc'[g] = "create" => list'[g] # <<>>
                        /\ pc'[g] = "clear" => Done(g)' = 0
      BY DEF ListsLeft
    <2>1. CASE g = h
      <3>1. number'[g] = updates + 1 /\ list'[g] = l /\ pc'[g] = "clear"
        BY <2>1, <1>1, <1>5 DEF UpdateInv, UpdateTypes
      <3>2. Done(g)' = 0
        BY <3>1, <1>3, <1>4 DEF Done
      <3> QED
        BY <3>1, <3>2, <1>2, <1>3, <1>4
    <2>2. CASE g # h
      <3>1. /\ number'[g] = number[g] /\ list'[g] = list[g] /\ pc'[g] = pc[g]
            /\ Busy(g)
        BY <2>2, <1>1, <1>5 DEF UpdateInv, UpdateTypes, Busy
      <3>2. number[g] \in 1 .. updates
        BY <3>1 DEF UpdateInv, ListsLeft
      <3>3. Done(g)' = Done(g) /\ sent'[number'[g]] = sent[number[g]]
        BY <3>1, <3>2, <1>3 DEF Done
      <3>4. /\ Done(g) \in Nat
            /\ \A i \in 1 .. Len(list[g]) : list[g][i] = sent[number[g]][Done(g) + i]
            /\ pc[g] = "create" => list[g] # <<>>
            /\ pc[g] = "clear" => Done(g) = 0
        BY <3>1 DEF UpdateInv, ListsLeft
      <3> QED
        BY <3>1, <3>2, <3>3, <3>4, <1>2
    <2> QED
      BY <2>1, <2>2
  <1>8. AloneUpdates'
    <2> SUFFICES ASSUME NEW g \in Handlers, Busy(g)', alone'[g]
                 PROVE  /\ \A k \in Handlers : k # g => ~Busy(k)'
                        /\ pc'[g] = "create" => settings' = RowsUpTo(number[g], Done(g))'
      BY DEF AloneUpdates
    <2>1. g = h
      BY <1>5 DEF Busy, UpdateInv, UpdateTypes
    <2>2. \A k \in Handlers : ~Busy(k)
      BY <2>1, <1>5
    <2> QED
      BY <2>1, <2>2, <1>5 DEF Busy, UpdateInv, UpdateTypes
  <1>9. SettingsOfOneUpdate'
    BY <1>5 DEF SettingsOfOneUpdate, Busy, UpdateInv, UpdateTypes
  <1> QED
    BY <1>6, <1>7, <1>8, <1>9 DEF UpdateInv

\* Once the settings are cleared nothing of an earlier update is left.
LEMMA ClearStep == ASSUME UpdateInv, NEW h \in Handlers, ClearSettings(h) PROVE UpdateInv'
  <1>1. /\ pc[h] = "clear" /\ list' = list /\ number' = number /\ updates' = updates
        /\ sent' = sent /\ exists' = exists
    BY DEF ClearSettings
  <1>2. PICK clean \in BOOLEAN :
          /\ Continued(h, clean)
          /\ clean => alone[h] /\ alone' = alone /\ settings' = {}
          /\ settings' = settings \/ settings' = {}
          /\ \/ alone' = alone /\ settings' = {}
             \/ alone' = [alone EXCEPT ![h] = FALSE] /\ settings' = settings
    <2>1. CASE settings' = Kept /\ Continued(h, alone[h]) /\ alone' = alone
      BY <2>1 DEF Kept, UpdateInv, UpdateTypes
    <2>2. CASE Continued(h, FALSE) /\ alone' = [alone EXCEPT ![h] = FALSE] /\ settings' = settings
      BY <2>2
    <2> QED
      BY <2>1, <2>2 DEF ClearSettings
  <1>3. \/ /\ list[h] = <<>> /\ pc' = [pc EXCEPT ![h] = "idle"]
           /\ settled' = IF clean THEN number[h] ELSE 0
        \/ list[h] # <<>> /\ pc' = [pc EXCEPT ![h] = "create"] /\ settled' = settled
    BY <1>1, <1>2 DEF Continued, Finished
  <1>4. UpdateTypes'
    <2>1. settings' \subseteq SettingRow /\ alone' \in [Handlers -> BOOLEAN]
      BY <1>2 DEF UpdateInv, UpdateTypes
    <2>2. pc' \in [Handlers -> {"idle", "clear", "create"}]
      BY <1>3 DEF UpdateInv, UpdateTypes
    <2>3. number[h] \in 0 .. updates /\ settled \in 0 .. updates /\ updates \in Nat
      BY DEF UpdateInv, UpdateTypes
    <2>4. settled' \in 0 .. updates
      <3>1. settled' = number[h] \/ settled' = 0 \/ settled' = settled
        BY <1>3, Zenon
      <3> QED
        BY <3>1, <2>3
    <2> QED
      BY <1>1, <2>1, <2>2, <2>4 DEF UpdateInv, UpdateTypes
  <1>5. Busy(h) /\ \A g \in Handlers : Busy(g)' => Busy(g)
    BY <1>1, <1>3 DEF Busy, UpdateInv, UpdateTypes
  <1>6. \A g \in Handlers : g # h => pc'[g] = pc[g] /\ alone'[g] = alone[g]
    BY <1>2, <1>3 DEF UpdateInv, UpdateTypes
  <1>7. ListsLeft'
    BY <1>1, <1>3, <1>5, <1>6 DEF UpdateInv, ListsLeft, Done, UpdateTypes
  <1>8. AloneUpdates'
    <2> SUFFICES ASSUME NEW g \in Handlers, Busy(g)', alone'[g]
                 PROVE  /\ \A k \in Handlers : k # g => ~Busy(k)'
                        /\ pc'[g] = "create" => settings' = RowsUpTo(number[g], Done(g))'
      BY DEF AloneUpdates
    <2>1. g = h /\ alone[h]
      BY <1>2, <1>5, <1>6 DEF UpdateInv, AloneUpdates, UpdateTypes
    <2>2. \A k \in Handlers : k # g => ~Busy(k)'
      BY <2>1, <1>5 DEF UpdateInv, AloneUpdates
    <2>3. settings' = {}
      BY <1>2, <2>1 DEF UpdateInv, UpdateTypes
    <2>4. Done(g)' = Done(g) /\ number'[g] = number[g]
      BY <1>1 DEF Done
    <2>5. pc'[g] = "create" => Done(g) = 0
      BY <2>1, <1>1, <1>5 DEF UpdateInv, ListsLeft
    <2> QED
      BY <2>2, <2>3, <2>4, <2>5 DEF RowsUpTo
  <1>9. SettingsOfOneUpdate'
    <2> SUFFICES ASSUME settled' # 0, \A g \in Handlers : ~Busy(g)'
                 PROVE  settings' = {RowOf(settled, i)' :
                           i \in {j \in DOMAIN sent'[settled'] :
                                    sent'[settled'][j].channel \in Channels}}
      BY DEF SettingsOfOneUpdate
    <2>1. pc'[h] = "idle"
      BY DEF Busy
    <2>2. list[h] = <<>> /\ settled' = number[h] /\ settings' = {}
      BY <2>1, <1>2, <1>3 DEF UpdateInv, UpdateTypes
    <2>3. Done(h) = 0 /\ number[h] \in 1 .. updates
      BY <1>1, <1>5 DEF UpdateInv, ListsLeft
    <2>4. sent[number[h]] \in Seq(Setting)
      BY <2>3, ListsAssumption DEF UpdateInv, UpdateTypes
    <2>5. DOMAIN sent[number[h]] = {}
      BY <2>2, <2>3, <2>4 DEF Done
    <2> QED
      BY <2>2, <2>5, <1>1
  <1> QED
    BY <1>4, <1>7, <1>8, <1>9 DEF UpdateInv

\* What is left of a list that is not empty.
LEMMA TailFacts ==
    ASSUME NEW S, NEW s \in Seq(S), s # <<>>
    PROVE  /\ Len(s) \in Nat \ {0} /\ Head(s) = s[1]
           /\ Tail(s) \in Seq(S) /\ Len(Tail(s)) = Len(s) - 1
           /\ \A i \in 1 .. Len(s) - 1 : Tail(s)[i] = s[i + 1]
  OBVIOUS

\* A row that is created comes after those that the update has made.
LEMMA CreateStep == ASSUME UpdateInv, NEW h \in Handlers, CreateSetting(h) PROVE UpdateInv'
  <1> DEFINE u == number[h]
             n == Done(h)
  <1>1. /\ pc[h] = "create" /\ number' = number /\ updates' = updates /\ sent' = sent
        /\ exists' = exists /\ list' = [list EXCEPT ![h] = Tail(@)]
    BY DEF CreateSetting
  <1>2. Busy(h) /\ u \in 1 .. updates /\ n \in Nat /\ list[h] # <<>>
        /\ \A i \in 1 .. Len(list[h]) : list[h][i] = sent[u][n + i]
    BY <1>1 DEF Busy, UpdateInv, ListsLeft
  <1>3. /\ list[h] \in Seq(Setting) /\ sent[u] \in Seq(Setting)
        /\ updates \in Nat /\ updates <= MaxUpdates
    BY <1>2, ListsAssumption DEF UpdateInv, UpdateTypes
  <1>4. /\ n + 1 \in 1 .. Len(sent[u]) /\ Head(list[h]) = sent[u][n + 1]
        /\ Len(sent[u]) - Len(list[h]) + 1 = n + 1
        /\ Len(sent[u]) = n + Len(list[h])
    <2>1. Len(list[h]) \in Nat \ {0} /\ Head(list[h]) = list[h][1]
      BY <1>2, <1>3, TailFacts
    <2>2. Len(sent[u]) \in Nat /\ n = Len(sent[u]) - Len(list[h])
      BY <1>3 DEF Done
    <2>3. list[h][1] = sent[u][n + 1]
      BY <1>2, <2>1
    <2>4. n \in Nat
      BY <1>2
    <2>5. ASSUME NEW a \in Nat, NEW b \in Nat \ {0}, NEW c \in Nat, c = a - b
          PROVE  c + 1 \in 1 .. a /\ a = c + b
      BY <2>5
    <2>6. n + 1 \in 1 .. Len(sent[u])
      BY <2>1, <2>2, <2>4, <2>5, Zenon
    <2>7. Len(sent[u]) = n + Len(list[h])
      BY <2>1, <2>2, <2>4, <2>5, Zenon
    <2>8. Len(sent[u]) - Len(list[h]) + 1 = n + 1
      BY <2>2, Zenon
    <2> QED
      BY <2>1, <2>3, <2>6, <2>7, <2>8, Zenon
  <1>5. list'[h] = Tail(list[h]) /\ \A g \in Handlers : g # h => list'[g] = list[g]
    BY <1>1 DEF UpdateInv, UpdateTypes
  <1>6. /\ Len(list'[h]) = Len(list[h]) - 1 /\ Done(h)' = n + 1
        /\ \A i \in 1 .. Len(list'[h]) : list'[h][i] = list[h][i + 1]
    <2>1. /\ Len(list[h]) \in Nat /\ Len(list'[h]) = Len(list[h]) - 1
          /\ \A i \in 1 .. Len(list[h]) - 1 : list'[h][i] = list[h][i + 1]
      BY <1>2, <1>3, <1>5, TailFacts
    <2>2. Done(h)' = Len(sent[u]) - Len(list'[h]) /\ Len(sent[u]) \in Nat
      BY <1>1, <1>3 DEF Done
    <2>3. Len(sent[u]) = n + Len(list[h]) /\ n \in Nat
      BY <1>2, <1>4
    <2>4. ASSUME NEW a \in Nat, NEW b \in Nat, NEW c \in Nat, a = c + b
          PROVE  a - (b - 1) = c + 1
      BY <2>4
    <2>5. Done(h)' = n + 1
      BY <2>1, <2>2, <2>3, <2>4
    <2> QED
      BY <2>1, <2>5
  <1>7. RowOf(u, n + 1) \in SettingRow
    BY <1>2, <1>3, <1>4, BoundsAssumption DEF RowOf, SettingRow
  <1> DEFINE made == IF sent[u][n + 1].channel \in Channels THEN {RowOf(u, n + 1)} ELSE {}
  <1>8. PICK clean \in BOOLEAN :
          /\ Continued(h, clean)
          /\ clean => alone[h]
          /\ \/ alone' = alone /\ settings' = settings \cup made
             \/ /\ ~clean /\ alone' = [alone EXCEPT ![h] = FALSE]
                /\ settings' = settings
    <2>1. CASE /\ Head(list[h]).channel \in Channels
               /\ settings' = settings \cup
                     {RowOf(number[h], Len(sent[number[h]]) - Len(list[h]) + 1)}
               /\ Continued(h, alone[h]) /\ alone' = alone
      <3>1. settings' = settings \cup made
        BY <2>1, <1>4
      <3> QED
        BY <2>1, <3>1 DEF UpdateInv, UpdateTypes
    <2>2. CASE /\ Head(list[h]).channel \notin Channels
               /\ Continued(h, alone[h]) /\ alone' = alone /\ settings' = settings
      <3>1. settings' = settings \cup made
        BY <2>2, <1>4
      <3> QED
        BY <2>2, <3>1 DEF UpdateInv, UpdateTypes
    <2>3. CASE /\ Continued(h, FALSE) /\ settings' = settings
               /\ alone' = [alone EXCEPT ![h] = FALSE]
      BY <2>3
    <2> QED
      BY <2>1, <2>2, <2>3 DEF CreateSetting
  <1>9. \/ /\ list'[h] = <<>> /\ pc' = [pc EXCEPT ![h] = "idle"]
           /\ settled' = IF clean THEN number[h] ELSE 0
        \/ list'[h] # <<>> /\ pc' = [pc EXCEPT ![h] = "create"] /\ settled' = settled
    BY <1>8 DEF Continued, Finished
  <1>10. /\ \A g \in Handlers : g # h => pc'[g] = pc[g] /\ alone'[g] = alone[g]
         /\ \A g \in Handlers : Busy(g)' => Busy(g)
    BY <1>2, <1>8, <1>9 DEF Busy, UpdateInv, UpdateTypes
  <1>11. RowsUpTo(u, n + 1) = RowsUpTo(u, n) \cup made
    <2>1. \A j : j \in 1 .. n + 1 <=> j \in 1 .. n \/ j = n + 1
      BY <1>2
    <2> QED
      BY <2>1 DEF RowsUpTo
  <1> HIDE DEF made
  <1>12. made \subseteq SettingRow
    BY <1>7 DEF made
  <1>13. UpdateTypes'
    <2>1. settings' \subseteq SettingRow /\ alone' \in [Handlers -> BOOLEAN]
      BY <1>8, <1>12 DEF UpdateInv, UpdateTypes
    <2>2. pc' \in [Handlers -> {"idle", "clear", "create"}]
      BY <1>9 DEF UpdateInv, UpdateTypes
    <2>3. settled' \in 0 .. updates
      <3>1. settled' = number[h] \/ settled' = 0 \/ settled' = settled
        BY <1>9, Zenon
      <3> QED
        BY <3>1, <1>2, <1>3 DEF UpdateInv, UpdateTypes
    <2>4. list' \in [Handlers -> Seq(Setting)]
      <3>1. Tail(list[h]) \in Seq(Setting)
        BY <1>2, <1>3
      <3> QED
        BY <3>1, <1>1 DEF UpdateInv, UpdateTypes
    <2> QED
      BY <1>1, <2>1, <2>2, <2>3, <2>4 DEF UpdateInv, UpdateTypes
  <1>14. ListsLeft'
    <2> SUFFICES ASSUME NEW g \in Handlers, Busy(g)'
                 PROVE  /\ number'[g] \in 1 .. updates'
                        /\ Done(g)' \in Nat
                        /\ \A i \in 1 .. Len(list'[g]) :
                              list'[g][i] = sent'[number'[g]][Done(g)' + i]
                        /\ pc'[g] = "create" => list'[g] # <<>>
                        /\ pc'[g] = "clear" => Done(g)' = 0
      BY DEF ListsLeft
    <2>1. CASE g = h
      <3>1. \A i \in 1 .. Len(list'[h]) : list'[h][i] = sent[u][n + 1 + i]
        <4> SUFFICES ASSUME NEW i \in 1 .. Len(list'[h])
                     PROVE  list'[h][i] = sent[u][n + 1 + i]
          OBVIOUS
        <4>1. i + 1 \in 1 .. Len(list[h]) /\ n + (i + 1) = n + 1 + i
          <5>1. Len(list[h]) \in Nat /\ Len(list'[h]) = Len(list[h]) - 1
            BY <1>3, <1>6
          <5>2. n \in Nat
            BY <1>2
          <5> HIDE DEF n
          <5> QED
            BY <5>1, <5>2
        <4>2. list'[h][i] = list[h][i + 1]
          BY <1>6
        <4>3. list[h][i + 1] = sent[u][n + (i + 1)]
          BY <1>2, <4>1
        <4> HIDE DEF n, u
        <4> QED
          BY <4>1, <4>2, <4>3
      <3>2. pc'[h] = "create" /\ list'[h] # <<>>
        BY <2>1, <1>9 DEF Busy, UpdateInv, UpdateTypes
      <3> QED
        BY <2>1, <3>1, <3>2, <1>1, <1>2, <1>6
    <2>2. CASE g # h
      <3>1. Busy(g) /\ Done(g)' = Done(g) /\ pc'[g] = pc[g]
        BY <2>2, <1>1, <1>5, <1>10 DEF Done
      <3> QED
        BY <2>2, <3>1, <1>1, <1>5 DEF UpdateInv, ListsLeft
    <2> QED
      BY <2>1, <2>2
  <1>15. alone'[h] => settings' = settings \cup made
    BY <1>8 DEF UpdateInv, UpdateTypes
  <1>16. alone'[h] => alone[h]
    BY <1>8 DEF UpdateInv, UpdateTypes
  <1>17. alone[h] => settings = RowsUpTo(u, n) /\ \A k \in Handlers : k # h => ~Busy(k)
    BY <1>1, <1>2 DEF UpdateInv, AloneUpdates
  <1>18. AloneUpdates'
    <2> SUFFICES ASSUME NEW g \in Handlers, Busy(g)', alone'[g]
                 PROVE  /\ \A k \in Handlers : k # g => ~Busy(k)'
                        /\ pc'[g] = "create" => settings' = RowsUpTo(number[g], Done(g))'
      BY DEF AloneUpdates
    <2>1. g = h /\ alone[h]
      BY <1>2, <1>10, <1>16 DEF UpdateInv, AloneUpdates
    <2>2. settings' = RowsUpTo(u, n + 1)
      BY <2>1, <1>11, <1>15, <1>17
    <2>3. RowsUpTo(number[g], Done(g))' = RowsUpTo(u, n + 1)
      BY <2>1, <1>1, <1>6 DEF RowsUpTo, RowOf
    <2> QED
      BY <2>1, <2>2, <2>3, <1>10, <1>17
  <1>19. SettingsOfOneUpdate'
    <2> SUFFICES ASSUME settled' # 0, \A g \in Handlers : ~Busy(g)'
                 PROVE  settings' = {RowOf(settled, i)' :
                           i \in {j \in DOMAIN sent'[settled'] :
                                    sent'[settled'][j].channel \in Channels}}
      BY DEF SettingsOfOneUpdate
    <2>1. pc'[h] = "idle"
      BY DEF Busy
    <2>2. list'[h] = <<>> /\ settled' = u /\ clean
      BY <2>1, <1>9 DEF UpdateInv, UpdateTypes
    <2>3. settings' = RowsUpTo(u, n + 1)
      BY <2>2, <1>8, <1>11, <1>17
    <2>4. DOMAIN sent[u] = 1 .. n + 1
      <3>1. Len(list'[h]) = 0 /\ Len(list[h]) \in Nat /\ DOMAIN sent[u] = 1 .. Len(sent[u])
        BY <2>2, <1>3
      <3>2. Len(list'[h]) = Len(list[h]) - 1 /\ Len(sent[u]) = n + Len(list[h]) /\ n \in Nat
        BY <1>2, <1>4, <1>6
      <3> HIDE DEF n, u
      <3> QED
        BY <3>1, <3>2
    <2> QED
      BY <2>2, <2>3, <2>4, <1>1 DEF RowsUpTo, RowOf
  <1> QED
    BY <1>13, <1>14, <1>18, <1>19 DEF UpdateInv

\* A delete of the workflow takes the settings with it and excuses all updates.
LEMMA DeleteStep == UpdateInv /\ DeleteWorkflow => UpdateInv'
  <1> SUFFICES ASSUME UpdateInv, DeleteWorkflow PROVE UpdateInv'
    OBVIOUS
  <1>1. UpdateTypes'
    <2>1. /\ settings' \subseteq SettingRow /\ exists' \in BOOLEAN
          /\ alone' \in [Handlers -> BOOLEAN]
      BY DEF DeleteWorkflow
    <2>2. updates \in 0 .. MaxUpdates
      BY DEF UpdateInv, UpdateTypes
    <2>3. settled' \in 0 .. updates
      BY <2>2, BoundsAssumption DEF DeleteWorkflow
    <2> QED
      BY <2>1, <2>3 DEF DeleteWorkflow, UpdateInv, UpdateTypes
  <1>2. ListsLeft'
    BY DEF DeleteWorkflow, UpdateInv, ListsLeft, Busy, Done
  <1>3. AloneUpdates' /\ SettingsOfOneUpdate'
    BY DEF DeleteWorkflow, AloneUpdates, SettingsOfOneUpdate
  <1> QED
    BY <1>1, <1>2, <1>3 DEF UpdateInv

\* A restart ends the updates where they are.
LEMMA RestartStep == UpdateInv /\ Restart => UpdateInv'
  <1> SUFFICES ASSUME UpdateInv, Restart PROVE UpdateInv'
    OBVIOUS
  <1>1. UpdateTypes'
    BY DEF Restart, UpdateInv, UpdateTypes
  <1>2. ListsLeft' /\ AloneUpdates'
    BY DEF Restart, ListsLeft, AloneUpdates, Busy
  <1>3. SettingsOfOneUpdate'
    BY DEF Restart, UpdateInv, SettingsOfOneUpdate, Busy, RowOf
  <1> QED
    BY <1>1, <1>2, <1>3 DEF UpdateInv

--------------------------------------------------------------------------------
(***************************************************************************)
(* Goroutines and readers.                                                 *)
(***************************************************************************)
\* No goroutine has started, and nobody is notified, at first.
LEMMA InitSenders == Init => SenderInv
  <1> SUFFICES ASSUME Init PROVE SenderInv
    OBVIOUS
  <1>1. SenderTypes
    BY BoundsAssumption, BudgetAssumption DEF Init, SenderTypes
  <1>2. IsFiniteSet(notes) /\ NotesOfSenders /\ NotifiedAsAsked
    BY FS_EmptySet DEF Init, NotesOfSenders, NotifiedAsAsked
  <1> QED
    BY <1>1, <1>2 DEF SenderInv

\* An access that fails is one of those that may.
LEMMA FaultsBounded == SenderTypes /\ (AccessFails \/ UNCHANGED faults) => faults' \in 0 .. MaxFaults
  BY BoundsAssumption DEF SenderTypes, AccessFails

\* What an update does is nothing to the goroutines.
LEMMA UpdateStep ==
    ASSUME SenderInv, UNCHANGED <<senderVars, notes, crashes, excused>>,
           AccessFails \/ UNCHANGED faults
    PROVE  SenderInv'
  <1>1. SenderTypes'
    BY FaultsBounded DEF SenderInv, SenderTypes, senderVars
  <1>2. IsFiniteSet(notes)' /\ NotesOfSenders' /\ NotifiedAsAsked'
    BY DEF SenderInv, NotesOfSenders, NotifiedAsAsked, senderVars
  <1> QED
    BY <1>1, <1>2 DEF SenderInv

\* A goroutine that starts finds no notification of its execution.
LEMMA DispatchStep == ASSUME SenderInv, NEW e \in Executions, Dispatch(e) PROVE SenderInv'
  <1>1. PICK status \in Outcomes : outcome' = [outcome EXCEPT ![e] = status]
    BY DEF Dispatch
  <1>2. /\ outcome[e] = "running" /\ sender' = [sender EXCEPT ![e] = "load"]
        /\ left' = left /\ spent' = spent /\ notes' = notes /\ faults' = faults
        /\ crashes' = crashes /\ excused' = excused
    BY DEF Dispatch
  <1>3. SenderTypes'
    <2>1. long' \in [Executions -> BOOLEAN]
      BY DEF Dispatch, SenderInv, SenderTypes
    <2>2. /\ outcome' \in [Executions -> Outcomes \cup {"running", "lost"}]
          /\ sender' \in [Executions -> {"none", "load", "send", "done"}]
      BY <1>1, <1>2 DEF SenderInv, SenderTypes
    <2> QED
      BY <1>2, <2>1, <2>2 DEF SenderInv, SenderTypes
  <1>4. sender[e] = "none" /\ \A n \in notes : n.execution # e
    BY <1>2 DEF SenderInv, NotesOfSenders
  <1>5. \A d \in Executions : d # e => outcome'[d] = outcome[d] /\ sender'[d] = sender[d]
    BY <1>1, <1>2 DEF SenderInv, SenderTypes
  <1>6. outcome'[e] # "running" /\ sender'[e] = "load"
    BY <1>1, <1>2 DEF SenderInv, SenderTypes, Outcomes
  <1>7. NotesOfSenders'
    BY <1>2, <1>4, <1>5, <1>6 DEF SenderInv, NotesOfSenders
  <1>8. NotifiedAsAsked'
    <2>1. \A n \in notes : n.execution \in Executions /\ n.execution # e
      BY <1>4 DEF SenderInv, SenderTypes, Note
    <2> QED
      BY <1>2, <1>5, <2>1 DEF SenderInv, NotifiedAsAsked
  <1> QED
    BY <1>2, <1>3, <1>7, <1>8 DEF SenderInv

\* The settings that are loaded are enabled, and none of them has been looked at.
LEMMA LoadStep ==
    ASSUME UpdateInv, SenderInv, NEW e \in Executions, LoadSettings(e) PROVE SenderInv'
  <1>1. /\ sender[e] = "load" /\ outcome' = outcome /\ long' = long /\ spent' = spent
        /\ notes' = notes /\ crashes' = crashes
    BY DEF LoadSettings
  <1>2. PICK s \in {"send", "done"} : sender' = [sender EXCEPT ![e] = s]
    BY DEF LoadSettings
  <1>3. /\ left' \in [Executions -> SUBSET SettingRow]
        /\ \A d \in Executions : d # e => left'[d] = left[d]
        /\ \A r \in left'[e] : r.set.enabled
    <2>1. {r \in settings : r.set.enabled} \in SUBSET SettingRow
      BY DEF UpdateInv, UpdateTypes
    <2> QED
      BY <2>1 DEF LoadSettings, SenderInv, SenderTypes, NotesOfSenders
  <1>4. SenderTypes'
    <2>1. faults' \in 0 .. MaxFaults
      BY FaultsBounded DEF LoadSettings, SenderInv
    <2>2. excused' \in [Executions -> BOOLEAN]
      BY DEF LoadSettings, SenderInv, SenderTypes
    <2>3. sender' \in [Executions -> {"none", "load", "send", "done"}]
      BY <1>2 DEF SenderInv, SenderTypes
    <2> QED
      BY <1>1, <1>3, <2>1, <2>2, <2>3 DEF SenderInv, SenderTypes
  <1>5. /\ \A d \in Executions : d # e => sender'[d] = sender[d]
        /\ sender'[e] \in {"send", "done"}
    BY <1>2 DEF SenderInv, SenderTypes
  <1>6. outcome[e] # "running" /\ \A n \in notes : n.execution # e
    BY <1>1 DEF SenderInv, NotesOfSenders
  <1>7. NotesOfSenders'
    BY <1>1, <1>3, <1>5, <1>6 DEF SenderInv, NotesOfSenders
  <1>8. NotifiedAsAsked'
    BY <1>1 DEF SenderInv, NotifiedAsAsked
  <1> QED
    BY <1>1, <1>4, <1>7, <1>8 DEF SenderInv

\* A notification that is added is the first for its setting, which asked for it.
LEMMA SendStep == ASSUME SenderInv, NEW e \in Executions, Send(e) PROVE SenderInv'
  <1>1. PICK r \in left[e] :
          /\ left' = [left EXCEPT ![e] = Rest(e, r)]
          /\ \/ /\ shouldNotify(r.set.notifyOn, outcome[e])
                /\ AddNote(e, r) \/ CallWebhook(e, r)
             \/ UNCHANGED <<spent, notes, faults, excused>>
    BY DEF Send
  <1>2. /\ sender[e] = "send" /\ outcome' = outcome /\ long' = long /\ sender' = sender
        /\ crashes' = crashes
    BY DEF Send
  <1> DEFINE note == [id |-> Cardinality(notes) + 1, execution |-> e,
                      setting |-> r, status |-> "unread"]
  <1>3. /\ AccessFails \/ UNCHANGED faults
        /\ excused' \in [Executions -> BOOLEAN]
    BY <1>1 DEF AddNote, CallWebhook, SenderInv, SenderTypes
  <1>4. spent' \in [Executions -> 0 .. Budget]
    <2>1. CASE spent' = spent
      BY <2>1 DEF SenderInv, SenderTypes
    <2>2. CASE InTime(e) /\ spent' = [spent EXCEPT ![e] = @ + 1]
      <3>1. spent[e] + 1 \in 0 .. Budget
        BY <2>2, BudgetAssumption DEF InTime, SenderInv, SenderTypes
      <3> QED
        BY <2>2, <3>1 DEF SenderInv, SenderTypes
    <2> QED
      BY <1>1, <2>1, <2>2 DEF AddNote, CallWebhook
  <1>5. \/ notes' = notes
        \/ /\ notes' = notes \cup {note} /\ r.set.channel = "in_app"
           /\ shouldNotify(r.set.notifyOn, outcome[e])
    BY <1>1 DEF AddNote, CallWebhook
  <1>6. note \in Note
    <2>1. Cardinality(notes) + 1 \in Nat \ {0}
      BY FS_CardinalityType DEF SenderInv
    <2>2. r \in SettingRow
      BY DEF SenderInv, SenderTypes
    <2> QED
      BY <2>1, <2>2 DEF Note
  <1>7. left' \in [Executions -> SUBSET SettingRow]
    BY <1>1 DEF Rest, SenderInv, SenderTypes
  <1>8. SenderTypes'
    <2>1. faults' \in 0 .. MaxFaults
      BY <1>3, FaultsBounded DEF SenderInv
    <2>2. notes' \subseteq Note
      BY <1>5, <1>6 DEF SenderInv, SenderTypes
    <2> QED
      BY <1>2, <1>3, <1>4, <1>7, <2>1, <2>2 DEF SenderInv, SenderTypes
  <1>9. IsFiniteSet(notes')
    BY <1>5, FS_AddElement DEF SenderInv
  <1>10. /\ left'[e] = left[e] \ {r}
         /\ \A d \in Executions : d # e => left'[d] = left[d]
         /\ \A n \in notes : n.execution = e => n.setting # r
         /\ r.set.enabled
    BY <1>1, <1>2 DEF Rest, SenderInv, SenderTypes, NotesOfSenders
  <1>11. note.execution = e /\ note.setting = r
    OBVIOUS
  <1> HIDE DEF note
  <1>12. NotesOfSenders'
    <2> SUFFICES ASSUME NEW d \in Executions
                 PROVE  /\ outcome'[d] = "running" => sender'[d] = "none"
                        /\ sender'[d] \in {"none", "load"} => \A n \in notes' : n.execution # d
                        /\ sender'[d] = "send" =>
                              \A n \in notes' : n.execution = d => n.setting \notin left'[d]
                        /\ \A s \in left'[d] : s.set.enabled
      BY DEF NotesOfSenders
    <2>1. CASE d = e
      BY <2>1, <1>2, <1>5, <1>10, <1>11 DEF SenderInv, NotesOfSenders
    <2>2. CASE d # e
      BY <2>2, <1>2, <1>5, <1>10, <1>11 DEF SenderInv, NotesOfSenders
    <2> QED
      BY <2>1, <2>2
  <1>13. NotifiedAsAsked'
    <2>1. CASE notes' = notes
      BY <2>1, <1>2 DEF SenderInv, NotifiedAsAsked
    <2>2. CASE /\ notes' = notes \cup {note} /\ r.set.channel = "in_app"
               /\ shouldNotify(r.set.notifyOn, outcome[e])
      BY <2>2, <1>2, <1>10, <1>11 DEF SenderInv, NotifiedAsAsked, shouldNotify
    <2> QED
      BY <1>5, <2>1, <2>2
  <1> QED
    BY <1>8, <1>9, <1>12, <1>13 DEF SenderInv

\* A goroutine that returns changes nothing else.
LEMMA ReturnStep == ASSUME SenderInv, NEW e \in Executions, Return(e) PROVE SenderInv'
  <1>1. SenderTypes'
    BY DEF Return, SenderInv, SenderTypes
  <1>2. NotesOfSenders'
    BY DEF Return, SenderInv, SenderTypes, NotesOfSenders
  <1>3. IsFiniteSet(notes)' /\ NotifiedAsAsked'
    BY DEF Return, SenderInv, NotifiedAsAsked
  <1> QED
    BY <1>1, <1>2, <1>3 DEF SenderInv

\* A notification that is read stays that of its setting and execution.
LEMMA ReadFacts ==
    ASSUME NEW n \in Note
    PROVE  /\ Read(n) \in Note /\ Read(n).execution = n.execution
           /\ Read(n).setting = n.setting
  BY DEF Note, Read

LEMMA MarkStep == SenderInv /\ (MarkRead \/ MarkAllRead) => SenderInv'
  <1> SUFFICES ASSUME SenderInv, MarkRead \/ MarkAllRead PROVE SenderInv'
    OBVIOUS
  <1>1. /\ outcome' = outcome /\ long' = long /\ sender' = sender /\ left' = left
        /\ spent' = spent /\ faults' = faults /\ crashes' = crashes /\ excused' = excused
    BY DEF MarkRead, MarkAllRead, senderVars
  <1>2. notes \subseteq Note /\ IsFiniteSet(notes)
    BY DEF SenderInv, SenderTypes
  <1>3. \A n \in notes : /\ Read(n) \in Note /\ Read(n).execution = n.execution
                         /\ Read(n).setting = n.setting
    BY <1>2, ReadFacts
  <1>4. IsFiniteSet(notes')
    <2>1. CASE MarkRead
      <3>1. PICK n \in notes : notes' = (notes \ {n}) \cup {Read(n)}
        BY <2>1 DEF MarkRead
      <3>2. IsFiniteSet(notes \ {n})
        BY <1>2, FS_RemoveElement
      <3> QED
        BY <3>1, <3>2, FS_AddElement
    <2>2. CASE MarkAllRead
      <3> DEFINE f == [n \in notes |-> Read(n)]
      <3>1. f \in Surjection(notes, {Read(n) : n \in notes})
        BY DEF Surjection
      <3>2. IsFiniteSet({Read(n) : n \in notes})
        BY <3>1, <1>2, FS_Surjection
      <3> QED
        BY <2>2, <3>2 DEF MarkAllRead
    <2> QED
      BY <2>1, <2>2
  \* Each notification was one of the same setting, and two that were not the same still differ.
  <1>5. \A m \in notes' : m \in Note /\ \E n \in notes :
           m.execution = n.execution /\ m.setting = n.setting
    <2>1. CASE MarkRead
      BY <2>1, <1>2, <1>3 DEF MarkRead
    <2>2. CASE MarkAllRead
      BY <2>2, <1>2, <1>3 DEF MarkAllRead
    <2> QED
      BY <2>1, <2>2
  <1>6. \A l, m \in notes' : l.execution = m.execution /\ l.setting = m.setting => l = m
    <2>1. CASE MarkRead
      BY <2>1, <1>2, <1>3 DEF MarkRead, SenderInv, NotifiedAsAsked
    <2>2. CASE MarkAllRead
      BY <2>2, <1>2, <1>3 DEF MarkAllRead, SenderInv, NotifiedAsAsked
    <2> QED
      BY <2>1, <2>2
  <1>7. SenderTypes'
    BY <1>1, <1>5 DEF SenderInv, SenderTypes
  <1>8. NotesOfSenders'
    BY <1>1, <1>5 DEF SenderInv, NotesOfSenders
  <1>9. NotifiedAsAsked'
    BY <1>1, <1>5, <1>6 DEF SenderInv, NotifiedAsAsked
  <1> QED
    BY <1>4, <1>7, <1>8, <1>9 DEF SenderInv

\* A delete takes the notifications with it; a restart leaves them and ends the goroutines.
LEMMA EndStep == SenderInv /\ (DeleteWorkflow \/ Restart) => SenderInv'
  <1>1. ASSUME SenderInv, DeleteWorkflow PROVE SenderInv'
    <2>1. SenderTypes'
      BY <1>1 DEF DeleteWorkflow, senderVars, SenderInv, SenderTypes
    <2>2. IsFiniteSet(notes)' /\ NotesOfSenders' /\ NotifiedAsAsked'
      BY <1>1, FS_EmptySet
         DEF DeleteWorkflow, senderVars, SenderInv, NotesOfSenders, NotifiedAsAsked
    <2> QED
      BY <2>1, <2>2 DEF SenderInv
  <1>2. ASSUME SenderInv, Restart PROVE SenderInv'
    <2>1. SenderTypes'
      <3>1. crashes' \in 0 .. MaxCrashes
        BY <1>2, BoundsAssumption DEF Restart, SenderInv, SenderTypes
      <3>2. outcome' \in [Executions -> Outcomes \cup {"running", "lost"}]
        BY <1>2 DEF Restart, SenderInv, SenderTypes
      <3>3. excused' \in [Executions -> BOOLEAN]
        BY <1>2 DEF Restart, SenderInv, SenderTypes
      <3> QED
        BY <1>2, <3>1, <3>2, <3>3 DEF Restart, SenderInv, SenderTypes
    <2>2. NotesOfSenders'
      BY <1>2 DEF Restart, SenderInv, SenderTypes, NotesOfSenders
    <2>3. IsFiniteSet(notes)' /\ NotifiedAsAsked'
      <3>1. \A n \in notes : n.execution \in Executions /\ outcome[n.execution] # "running"
        BY <1>2 DEF SenderInv, SenderTypes, Note, NotesOfSenders
      <3>2. \A n \in notes : outcome'[n.execution] = outcome[n.execution]
        BY <1>2, <3>1 DEF Restart
      <3> QED
        BY <1>2, <3>2 DEF Restart, SenderInv, NotifiedAsAsked
    <2> QED
      BY <2>1, <2>2, <2>3 DEF SenderInv
  <1> QED
    BY <1>1, <1>2

--------------------------------------------------------------------------------
(***************************************************************************)
(* The theorems.                                                           *)
(***************************************************************************)
LEMMA NextInvariant == IInv /\ [Next]_vars => IInv'
  <1> SUFFICES ASSUME IInv, [Next]_vars PROVE IInv'
    OBVIOUS
  <1>0. UpdateInv /\ SenderInv
    BY DEF IInv
  <1>1. ASSUME NEW h \in Handlers, BeginUpdate(h) PROVE IInv'
    <2>1. UNCHANGED <<senderVars, notes, crashes, excused>> /\ UNCHANGED faults
      BY <1>1 DEF BeginUpdate
    <2> QED
      BY <1>0, <1>1, <2>1, BeginStep, UpdateStep DEF IInv
  <1>2. ASSUME NEW h \in Handlers, Update(h) PROVE IInv'
    <2>1. /\ UNCHANGED <<senderVars, notes, crashes, excused>>
          /\ AccessFails \/ UNCHANGED faults
      BY <1>2 DEF Update, ClearSettings, CreateSetting
    <2> QED
      BY <1>0, <1>2, <2>1, ClearStep, CreateStep, UpdateStep DEF Update, IInv
  <1>3. ASSUME NEW e \in Executions, Dispatch(e) \/ Goroutine(e) PROVE IInv'
    <2>1. UNCHANGED <<exists, updateVars>>
      BY <1>3 DEF Dispatch, Goroutine, LoadSettings, Send, Return
    <2> QED
      BY <1>0, <1>3, <2>1, OtherStep, DispatchStep, LoadStep, SendStep, ReturnStep
         DEF Goroutine, IInv
  <1>4. CASE MarkRead \/ MarkAllRead
    <2>1. UNCHANGED <<exists, updateVars>>
      BY <1>4 DEF MarkRead, MarkAllRead
    <2> QED
      BY <1>0, <1>4, <2>1, OtherStep, MarkStep DEF IInv
  <1>5. CASE DeleteWorkflow
    BY <1>0, <1>5, DeleteStep, EndStep DEF IInv
  <1>6. CASE Restart
    BY <1>0, <1>6, RestartStep, EndStep DEF IInv
  <1>7. CASE UNCHANGED vars
    <2>1. UNCHANGED <<exists, updateVars>> /\ UNCHANGED <<senderVars, notes, crashes, excused>>
          /\ UNCHANGED faults
      BY <1>7 DEF vars
    <2> QED
      BY <1>0, <2>1, OtherStep, UpdateStep DEF IInv
  <1> QED
    BY <1>1, <1>2, <1>3, <1>4, <1>5, <1>6, <1>7 DEF Next

\* The invariant holds for ever.
LEMMA AlwaysIInv == Spec => []IInv
  <1>1. Init => IInv
    BY InitUpdates, InitSenders DEF IInv
  <1> QED
    BY <1>1, NextInvariant, PTL DEF Spec

\* Every variable has its type: settings are rows of lists that pages sent, and no
\* goroutine waits for webhooks once its time is over (dispatch.go:23).
THEOREM NotificationsTypeCorrect == Spec => []TypeOK
  <1>1. IInv => TypeOK
    BY DEF IInv, UpdateInv, SenderInv, TypeOK
  <1> QED
    BY <1>1, AlwaysIInv, PTL

\* Unless updates met or an access failed, the settings are the list of one update
\* (handler.go:292), for any handlers, lists, updates and failures.
THEOREM SettingsAreOfOneUpdate == Spec => []SettingsOfOneUpdate
  <1>1. IInv => SettingsOfOneUpdate
    BY DEF IInv, UpdateInv
  <1> QED
    BY <1>1, AlwaysIInv, PTL

\* A notification was asked for and is sent once for each setting (dispatch.go:34), for any
\* executions, settings that change meanwhile, restarts and failures.
THEOREM NotifiesAsAsked == Spec => []NotifiedAsAsked
  <1>1. IInv => NotifiedAsAsked
    BY DEF IInv, SenderInv
  <1> QED
    BY <1>1, AlwaysIInv, PTL

================================================================================
