-------------------------- MODULE TurnQueueProofs --------------------------
(***************************************************************************)
(* Safety of the conversation-turn queue for any number of users, threads, *)
(* keys and turns and for any limit maxActive.                             *)
(***************************************************************************)
EXTENDS TurnQueue, TLAPS, FiniteSetTheorems, WellFoundedInduction

(* The properties as predicates on a status function, because an admission *)
(* pass starts from statuses that the same step has already changed.       *)
Serial(st) ==
    \A i, j \in Turn :
        st[i] \in ActiveStatus /\ st[j] \in ActiveStatus /\ thread[i] = thread[j] => i = j

Ordered(st) ==
    \A i, j \in Turn :
        i < j /\ thread[i] = thread[j] /\ st[i] = "queued" => st[j] \in {"queued", "cancelled"}

\* A stream belongs to an active row, or to a cancelled one that unwinds.
Driven(st, strm) == \A i \in strm : st[i] \in {"running", "cancelling", "cancelled"}

\* Rows are inserted in rowid order.
Contiguous == \A i, j \in Turn : i < j /\ status[i] = "absent" => status[j] = "absent"

\* The inductive invariant: a new row takes the last rowid (Contiguous), so it
\* cannot be overtaken by rows behind it; a stream belongs to an active row or to a
\* cancelled one (Driven), so two streams of a thread are told apart by their rows.
IInv ==
    /\ TypeOK
    /\ Contiguous
    /\ Driven(status, stream)
    /\ ThreadSerial
    /\ NoOvertaking
    /\ KeyNamesOneTurn

-----------------------------------------------------------------------------
\* The statuses the pass of advanceTurnQueue may write: a queued row becomes
\* running, every other row is left alone.
LEMMA AdvanceWrites ==
    ASSUME NEW st \in [Turn -> TurnStatus], NEW strm \in SUBSET Turn, NEW U,
           advanceTurnQueue(st, strm, U)
    PROVE  /\ status' \in [Turn -> TurnStatus]
           /\ stream' \in SUBSET Turn
           /\ \A i \in Turn : \/ status'[i] = st[i]
                              \/ st[i] = "queued" /\ status'[i] = "running" /\ i \in Heads(st)
           /\ \A i \in stream' : i \in strm \/ status'[i] = "running"
           /\ \A i \in strm : i \in stream'
  BY DEF advanceTurnQueue, Admitted, Heads, TurnStatus, ActiveStatus

\* A pass keeps the turns of a thread serial and in order: it admits a row only
\* when the thread has no active turn and no earlier queued row.
LEMMA AdvanceKeepsOrder ==
    ASSUME NEW st \in [Turn -> TurnStatus], NEW strm \in SUBSET Turn, NEW U,
           advanceTurnQueue(st, strm, U), thread' = thread,
           Serial(st), Ordered(st), Driven(st, strm)
    PROVE  ThreadSerial' /\ NoOvertaking' /\ Driven(status', stream')
  <1>w. /\ \A i \in Turn : \/ status'[i] = st[i]
                           \/ st[i] = "queued" /\ status'[i] = "running" /\ i \in Heads(st)
        /\ \A i \in stream' : i \in strm \/ status'[i] = "running"
    BY AdvanceWrites
  <1>h. \A i \in Heads(st) :
            /\ i \in Turn
            /\ \A j \in Turn : thread[j] = thread[i] => st[j] \notin ActiveStatus
            /\ \A j \in Turn : j < i /\ thread[j] = thread[i] => st[j] # "queued"
    BY DEF Heads, threadHasActiveTurn
  <1>q. "queued" \notin ActiveStatus /\ "cancelled" \notin ActiveStatus
    BY DEF ActiveStatus
  <1>t. Turn \subseteq Nat
    BY TurnQueueAssumption DEF Turn
  <1>1. ThreadSerial'
    <2>1. SUFFICES ASSUME NEW i \in Turn, NEW j \in Turn, i # j,
                          status'[i] \in ActiveStatus, status'[j] \in ActiveStatus,
                          thread[i] = thread[j]
                   PROVE  FALSE
      BY DEF ThreadSerial
    <2>2. CASE status'[i] = st[i] /\ status'[j] = st[j]
      BY <2>1, <2>2 DEF Serial
    <2>3. CASE i \in Heads(st) /\ st[i] = "queued" /\ status'[j] = st[j]
      BY <2>1, <2>3, <1>h
    <2>4. CASE j \in Heads(st) /\ st[j] = "queued" /\ status'[i] = st[i]
      BY <2>1, <2>4, <1>h
    <2>5. CASE i \in Heads(st) /\ st[i] = "queued" /\ j \in Heads(st) /\ st[j] = "queued"
      <3>1. i < j \/ j < i
        BY <2>1, <1>t
      <3> QED BY <2>1, <2>5, <3>1, <1>h
    <2> QED BY <2>2, <2>3, <2>4, <2>5, <1>w
  <1>2. NoOvertaking'
    <2>1. SUFFICES ASSUME NEW i \in Turn, NEW j \in Turn, i < j, thread[i] = thread[j],
                          status'[i] = "queued"
                   PROVE  status'[j] \in {"queued", "cancelled"}
      BY DEF NoOvertaking
    <2>2. st[i] = "queued"
      BY <2>1, <1>w
    <2>3. j \notin Heads(st)
      BY <2>1, <2>2, <1>h
    <2> QED BY <2>1, <2>2, <2>3, <1>w DEF Ordered
  <1>3. Driven(status', stream')
    BY <1>w DEF Driven
  <1> QED BY <1>1, <1>2, <1>3

\* The remaining conjuncts depend only on which rows exist.
LEMMA SameRows ==
    ASSUME IInv, thread' = thread, key' = key, advancing' \in SUBSET Users, up' \in BOOLEAN,
           status' \in [Turn -> TurnStatus], stream' \in SUBSET Turn,
           \A i \in Turn : status'[i] = "absent" <=> status[i] = "absent"
    PROVE  TypeOK' /\ Contiguous' /\ KeyNamesOneTurn'
  <1>1. Rows' = Rows
    BY DEF Rows
  <1>2. TypeOK'
    BY DEF IInv, TypeOK
  <1>3. Contiguous'
    BY DEF IInv, Contiguous
  <1>4. KeyNamesOneTurn'
    BY <1>1 DEF IInv, KeyNamesOneTurn, UserOf
  <1> QED BY <1>2, <1>3, <1>4

\* A handler that first writes the statuses st and then runs a pass.
LEMMA PassKeepsIInv ==
    ASSUME IInv, NEW st \in [Turn -> TurnStatus], NEW strm \in SUBSET Turn, NEW U,
           advanceTurnQueue(st, strm, U), thread' = thread, key' = key,
           advancing' \in SUBSET Users, up' \in BOOLEAN,
           Serial(st), Ordered(st), Driven(st, strm),
           \A i \in Turn : st[i] = "absent" <=> status[i] = "absent"
    PROVE  IInv'
  <1>1. /\ status' \in [Turn -> TurnStatus]
        /\ stream' \in SUBSET Turn
        /\ \A i \in Turn : status'[i] = "absent" <=> status[i] = "absent"
    BY AdvanceWrites
  <1>2. ThreadSerial' /\ NoOvertaking' /\ Driven(status', stream')
    BY AdvanceKeepsOrder
  <1>3. TypeOK' /\ Contiguous' /\ KeyNamesOneTurn'
    BY <1>1, SameRows
  <1> QED BY <1>2, <1>3 DEF IInv, Driven

\* Clearing some rows of a serial, ordered table to terminal statuses keeps it
\* serial and ordered, provided the cleared rows were active.
LEMMA ClearingActiveRows ==
    ASSUME IInv, NEW st \in [Turn -> TurnStatus],
           \A i \in Turn : \/ st[i] = status[i]
                           \/ status[i] \in ActiveStatus /\ st[i] \in TerminalStatus
    PROVE  /\ Serial(st)
           /\ Ordered(st)
           /\ \A i \in Turn : st[i] = "absent" <=> status[i] = "absent"
  <1>1. Serial(st)
    BY DEF IInv, ThreadSerial, Serial, TerminalStatus, ActiveStatus
  <1>2. Ordered(st)
    BY DEF IInv, NoOvertaking, Ordered, TerminalStatus, ActiveStatus
  <1> QED BY <1>1, <1>2 DEF TerminalStatus, ActiveStatus

LEMMA InitIInv == Init => IInv
  BY TurnQueueAssumption
     DEF Init, IInv, TypeOK, Contiguous, Driven, ThreadSerial, NoOvertaking, KeyNamesOneTurn,
         Rows, TurnStatus, ActiveStatus

\* Every action keeps the inductive invariant.
LEMMA NextIInv == IInv /\ [Next]_vars => IInv'
  <1> SUFFICES ASSUME IInv, [Next]_vars PROVE IInv'
    OBVIOUS
  <1>t. /\ Turn \subseteq Nat
        /\ status \in [Turn -> TurnStatus]
        /\ stream \in SUBSET Turn
        /\ advancing \in SUBSET Users
        /\ up \in BOOLEAN
    BY TurnQueueAssumption DEF IInv, TypeOK, Turn
  <1>s. Serial(status) /\ Ordered(status) /\ Driven(status, stream)
    BY DEF IInv, Serial, Ordered, ThreadSerial, NoOvertaking
  <1>1. ASSUME NEW i \in Turn, NEW th \in Threads, NEW k \in Keys \cup {NoKey},
               enqueueConversationTurn(i, th, k)
        PROVE  IInv'
    <2>u. ThreadUser[th] \in Users
      BY TurnQueueAssumption
    <2>f. /\ status[i] = "absent"
          /\ thread[i] = NoThread
          /\ \A j \in Turn : j < i => status[j] # "absent"
          /\ \A j \in Turn : i < j => status[j] = "absent"
      BY <1>1 DEF enqueueConversationTurn, IInv, Contiguous, TypeOK
    <2>e. /\ status' = [status EXCEPT ![i] = "queued"]
          /\ thread' = [thread EXCEPT ![i] = th]
          /\ key' = [key EXCEPT ![i] = k]
          /\ stream' = stream
          /\ up' = up
          /\ advancing' = advancing \cup {ThreadUser[th]}
      BY <1>1 DEF enqueueConversationTurn
    <2>p. /\ thread \in [Turn -> Threads \cup {NoThread}]
          /\ key \in [Turn -> Keys \cup {NoKey}]
          /\ NoThread \notin Threads
          /\ \A j \in Turn : status[j] = "absent" <=> thread[j] = NoThread
      BY TurnQueueAssumption DEF IInv, TypeOK
    <2>1. TypeOK'
      <3>1. "queued" \in TurnStatus /\ "queued" # "absent"
        BY DEF TurnStatus
      <3>2. \A j \in Turn : status'[j] = "absent" <=> thread'[j] = NoThread
        BY <2>e, <2>p, <1>t, <3>1
      <3> QED BY <1>t, <2>u, <2>e, <2>p, <3>1, <3>2 DEF TypeOK
    <2>2. Contiguous'
      BY <1>t, <2>f, <2>e DEF IInv, Contiguous
    <2>3. Driven(status', stream')
      BY <1>t, <1>s, <2>f, <2>e DEF Driven
    <2>4. ThreadSerial'
      <3>1. \A j \in Turn : status'[j] \in ActiveStatus =>
                j # i /\ status'[j] = status[j] /\ thread'[j] = thread[j]
        BY <1>t, <2>e, <2>p DEF ActiveStatus
      <3> QED BY <3>1, <1>s DEF ThreadSerial, Serial
    <2>5. NoOvertaking'
      <3>1. SUFFICES ASSUME NEW a \in Turn, NEW b \in Turn, a < b, thread'[a] = thread'[b],
                            status'[a] = "queued"
                     PROVE  status'[b] \in {"queued", "cancelled"}
        BY DEF NoOvertaking
      <3>2. CASE b = i
        BY <3>2, <2>e, <1>t
      <3>3. CASE a = i
        <4>1. thread'[a] = th /\ thread'[b] = NoThread
          BY <3>1, <3>3, <2>e, <2>p, <2>f, <1>t
        <4> QED BY Zenon, <3>1, <4>1, <2>p
      <3>4. CASE a # i /\ b # i
        BY <3>1, <3>4, <2>e, <2>p, <1>t, <1>s DEF Ordered
      <3> QED BY <3>2, <3>3, <3>4
    <2>6. KeyNamesOneTurn'
      <3>1. SUFFICES ASSUME NEW a \in Rows', NEW b \in Rows', key'[a] # NoKey,
                            key'[a] = key'[b], UserOf(a)' = UserOf(b)'
                     PROVE  a = b
        BY DEF KeyNamesOneTurn
      <3>2. \A c \in Rows' : /\ c \in Turn
                             /\ c # i => /\ c \in Rows
                                         /\ key'[c] = key[c]
                                         /\ UserOf(c)' = UserOf(c)
        BY <1>t, <2>e, <2>p DEF Rows, UserOf
      <3>3. key'[i] = k /\ UserOf(i)' = ThreadUser[th]
        BY <2>e, <2>p DEF UserOf
      <3>4. k = NoKey \/ \A c \in Rows : ~(UserOf(c) = ThreadUser[th] /\ key[c] = k)
        BY <1>1 DEF enqueueConversationTurn, KeyIsFresh
      <3>5. CASE a # i /\ b # i
        BY <3>1, <3>2, <3>5 DEF IInv, KeyNamesOneTurn
      <3>6. CASE a = i /\ b # i
        BY <3>1, <3>2, <3>3, <3>4, <3>6
      <3>7. CASE a # i /\ b = i
        BY <3>1, <3>2, <3>3, <3>4, <3>7
      <3> QED BY <3>5, <3>6, <3>7
    <2> QED BY <2>1, <2>2, <2>3, <2>4, <2>5, <2>6 DEF IInv, Driven
  <1>2. ASSUME NEW i \in Turn, cancelConversationTurn(i) PROVE IInv'
    <2>1. /\ status[i] \in {"queued"} \cup ActiveStatus
          /\ status' = [status EXCEPT ![i] = IF @ = "queued" THEN "cancelled" ELSE "cancelling"]
          /\ thread' = thread /\ key' = key /\ stream' = stream /\ up' = up
          /\ advancing' = advancing \cup {UserOf(i)}
      BY <1>2 DEF cancelConversationTurn
    <2>2. UserOf(i) \in Users
      BY <2>1, TurnQueueAssumption DEF IInv, TypeOK, UserOf, ActiveStatus
    <2>3. TypeOK' /\ Contiguous' /\ KeyNamesOneTurn'
      BY <1>t, <2>1, <2>2, SameRows DEF TurnStatus, ActiveStatus, TerminalStatus
    <2>4. ThreadSerial'
      BY <1>t, <1>s, <2>1 DEF ThreadSerial, Serial, ActiveStatus
    <2>5. NoOvertaking'
      BY <1>t, <1>s, <2>1 DEF NoOvertaking, Ordered, ActiveStatus
    <2>6. Driven(status', stream')
      BY <1>t, <1>s, <2>1 DEF Driven
    <2> QED BY <2>3, <2>4, <2>5, <2>6 DEF IInv, Driven
  <1>3. ASSUME NEW u \in Users, AdvanceForUser(u) PROVE IInv'
    BY <1>3, <1>t, <1>s, PassKeepsIInv DEF AdvanceForUser
  <1>4. ASSUME NEW i \in Turn, NEW s \in TerminalStatus, Settle(i, s) PROVE IInv'
    <2> DEFINE st == [status EXCEPT ![i] = s]
    <2>1. st \in [Turn -> TurnStatus]
      BY <1>t, <1>4 DEF TurnStatus
    <2>2. status[i] \in ActiveStatus
      BY <1>4 DEF Settle, Streaming, ActiveStatus
    <2>3. /\ Serial(st)
          /\ Ordered(st)
          /\ \A j \in Turn : st[j] = "absent" <=> status[j] = "absent"
      <3>1. \A j \in Turn : \/ st[j] = status[j]
                            \/ status[j] \in ActiveStatus /\ st[j] \in TerminalStatus
        BY <1>t, <1>4, <2>2
      <3> HIDE DEF st
      <3> QED BY <2>1, <3>1, ClearingActiveRows
    <2>4. Driven(st, stream \ {i})
      BY <1>t, <1>s DEF Driven
    <2>5. /\ advanceTurnQueue(st, stream \ {i}, {UserOf(i)})
          /\ thread' = thread /\ key' = key /\ advancing' = advancing /\ up' = up
      BY <1>4 DEF Settle
    <2> HIDE DEF st
    <2> QED BY <1>t, <2>1, <2>3, <2>4, <2>5, PassKeepsIInv
  <1>5. CASE Crash
    <2>1. /\ stream' = {} /\ advancing' = {} /\ up' = FALSE
          /\ thread' = thread /\ key' = key /\ status' = status
      BY <1>5 DEF Crash
    <2>2. TypeOK' /\ Contiguous' /\ KeyNamesOneTurn'
      BY Zenon, <1>t, <2>1, SameRows
    <2> QED BY <2>1, <2>2 DEF IInv, Driven, ThreadSerial, NoOvertaking
  <1>6. CASE Startup
    <2> DEFINE st == [i \in Turn |-> Reconciled(status[i])]
    <2>1. \A i \in Turn : \/ st[i] = status[i]
                          \/ status[i] \in ActiveStatus /\ st[i] \in TerminalStatus
      BY DEF Reconciled, ActiveStatus, TerminalStatus
    <2>2. st \in [Turn -> TurnStatus]
      BY <1>t DEF Reconciled, TurnStatus, TerminalStatus, ActiveStatus
    <2>3. /\ advanceTurnQueue(st, {}, Users)
          /\ thread' = thread /\ key' = key /\ advancing' = advancing /\ up' = TRUE
      BY <1>6 DEF Startup
    <2> HIDE DEF st
    <2>4. /\ Serial(st)
          /\ Ordered(st)
          /\ \A j \in Turn : st[j] = "absent" <=> status[j] = "absent"
      BY <2>1, <2>2, ClearingActiveRows
    <2>5. Driven(st, {})
      BY DEF Driven
    <2> QED BY <1>t, <2>2, <2>3, <2>4, <2>5, PassKeepsIInv
  <1>7. CASE UNCHANGED vars
    BY <1>7 DEF vars, IInv, TypeOK, Contiguous, Driven, ThreadSerial, NoOvertaking,
                KeyNamesOneTurn, Rows, UserOf
  <1>8. ASSUME NEW i \in Turn, StreamEnds(i) \/ StreamFails(i) PROVE IInv'
    BY <1>8, <1>4 DEF StreamEnds, StreamFails, TerminalStatus
  <1>9. ASSUME NEW i \in Turn, StreamMeetsCancel(i) PROVE IInv'
    <2>1. /\ status[i] = "cancelling"
          /\ status' = [status EXCEPT ![i] = "cancelled"]
          /\ thread' = thread /\ key' = key /\ stream' = stream /\ up' = up
          /\ advancing' = advancing
      BY <1>9 DEF StreamMeetsCancel
    <2>2. TypeOK' /\ Contiguous' /\ KeyNamesOneTurn'
      BY <1>t, <2>1, SameRows DEF TurnStatus, TerminalStatus
    <2>3. ThreadSerial'
      BY <1>t, <1>s, <2>1 DEF ThreadSerial, Serial, ActiveStatus
    <2>4. NoOvertaking'
      BY <1>t, <1>s, <2>1 DEF NoOvertaking, Ordered
    <2>5. Driven(status', stream')
      BY <1>t, <1>s, <2>1 DEF Driven
    <2> QED BY <2>2, <2>3, <2>4, <2>5 DEF IInv, Driven
  <1>10. ASSUME NEW i \in Turn, Unwinds(i) PROVE IInv'
    <2>1. Driven(status, stream \ {i})
      BY <1>s DEF Driven
    <2>2. /\ advanceTurnQueue(status, stream \ {i}, {UserOf(i)})
          /\ thread' = thread /\ key' = key /\ advancing' = advancing /\ up' = up
      BY <1>10 DEF Unwinds
    <2> QED BY <1>t, <1>s, <2>1, <2>2, PassKeepsIInv
  <1> QED BY <1>1, <1>2, <1>3, <1>5, <1>6, <1>7, <1>8, <1>9, <1>10 DEF Next

\* Same-thread turns serialize in every reachable state (with the types of the
\* columns): advanceTurnQueue admits a row only into an idle thread.
THEOREM TurnQueueThreadSerial == Spec => [](TypeOK /\ ThreadSerial)
  <1>1. IInv => TypeOK /\ ThreadSerial
    BY DEF IInv
  <1> QED BY <1>1, InitIInv, NextIInv, PTL DEF Spec

\* Turns of a thread start in insertion order.
THEOREM TurnQueueNoOvertaking == Spec => []NoOvertaking
  <1>1. IInv => NoOvertaking
    BY DEF IInv
  <1> QED BY <1>1, InitIInv, NextIInv, PTL DEF Spec

\* Two streams of a thread are live at once only while the turn of one of them is
\* cancelled and unwinds (runAdmittedTurn, its return from the for-await loop).
THEOREM TurnQueueStreamsSerial == Spec => []StreamsSerial
  <1>1. IInv => StreamsSerial
    <2> SUFFICES ASSUME IInv, NEW i \in stream, NEW j \in stream, thread[i] = thread[j],
                        i \notin Unwinding, j \notin Unwinding
                 PROVE  i = j
      BY DEF StreamsSerial
    <2>1. i \in Turn /\ j \in Turn /\ status[i] \in ActiveStatus /\ status[j] \in ActiveStatus
      BY DEF IInv, TypeOK, Driven, Unwinding, ActiveStatus
    <2> QED BY <2>1 DEF IInv, ThreadSerial
  <1> QED BY <1>1, InitIInv, NextIInv, PTL DEF Spec

\* An idempotency key of a user names one turn.
THEOREM TurnQueueKeyNamesOneTurn == Spec => []KeyNamesOneTurn
  <1>1. IInv => KeyNamesOneTurn
    BY DEF IInv
  <1> QED BY <1>1, InitIInv, NextIInv, PTL DEF Spec

-----------------------------------------------------------------------------
\* A non-empty set of turns has a last element.
LEMMA LastTurn ==
    ASSUME NEW A \in SUBSET Turn, A # {}
    PROVE  \E m \in A : \A i \in A : i <= m
  <1> DEFINE R == OpToRel(<, Nat)
             T == {MaxTurns - i : i \in A}
  <1>1. MaxTurns \in Nat /\ \A i \in A : i \in Nat /\ i <= MaxTurns
    BY TurnQueueAssumption DEF Turn
  <1>2. T \subseteq Nat /\ T # {}
    BY <1>1
  <1>3. PICK x \in T : \A y \in T : ~(<<y, x>> \in R)
    <2> HIDE DEF T, R
    <2> QED BY <1>2, WFMin, NatLessThanWellFounded DEF R
  <1>4. \A y \in T : ~(y < x)
    BY Zenon, <1>2, <1>3 DEF OpToRel
  <1> HIDE DEF R
  <1>5. PICK m \in A : x = MaxTurns - m
    OBVIOUS
  <1>6. \A i \in A : ~(MaxTurns - i < MaxTurns - m)
    BY <1>4, <1>5
  <1> QED BY <1>1, <1>6

Cap(st) == \A u \in Users : Cardinality(ActiveTurns(st, u)) <= maxActive

LEMMA ActiveTurnsFinite ==
    ASSUME NEW S \in SUBSET Turn
    PROVE  IsFiniteSet(S) /\ Cardinality(S) \in Nat
  <1>1. IsFiniteSet(Turn)
    BY TurnQueueAssumption, FS_Interval DEF Turn
  <1> QED BY <1>1, FS_Subset, FS_CardinalityType

LEMMA UnionBound ==
    ASSUME NEW S, IsFiniteSet(S), NEW T, IsFiniteSet(T), NEW x,
           NEW V \in SUBSET ((S \cup T) \cup {x})
    PROVE  Cardinality(V) <= Cardinality(S) + Cardinality(T) + 1
  <1>1. /\ IsFiniteSet(S \cup T)
        /\ Cardinality(S \cup T) = Cardinality(S) + Cardinality(T) - Cardinality(S \cap T)
    BY FS_Union
  <1>2. S \cap T \in SUBSET S
    OBVIOUS
  <1>3. IsFiniteSet(S \cap T)
    BY <1>2, FS_Subset
  <1>4. /\ Cardinality(S) \in Nat /\ Cardinality(T) \in Nat
        /\ Cardinality(S \cap T) \in Nat /\ Cardinality(S \cup T) \in Nat
    BY <1>1, <1>3, FS_CardinalityType
  <1> DEFINE W == S \cup T
  <1>5. /\ IsFiniteSet(W \cup {x})
        /\ Cardinality(W \cup {x}) = IF x \in W THEN Cardinality(W) ELSE Cardinality(W) + 1
    <2> HIDE DEF W
    <2>1. IsFiniteSet(W)
      BY <1>1 DEF W
    <2> QED BY <2>1, FS_AddElement
  <1>6. IsFiniteSet(V) /\ Cardinality(V) <= Cardinality(W \cup {x})
    BY <1>5, FS_Subset
  <1>7. Cardinality(V) \in Nat /\ Cardinality(W \cup {x}) \in Nat
    BY <1>5, <1>6, FS_CardinalityType
  <1> QED BY <1>1, <1>4, <1>5, <1>6, <1>7

\* A pass keeps the user limit: of the rows it admits for a user, take the last;
\* the others are heads before it, and its own check counted all of those.
LEMMA PassKeepsCap ==
    ASSUME NEW st \in [Turn -> TurnStatus], NEW strm, NEW U,
           advanceTurnQueue(st, strm, U), thread' = thread, Cap(st)
    PROVE  UserCap'
  <1> SUFFICES ASSUME NEW u \in Users
               PROVE  Cardinality(ActiveTurns(status', u)) <= maxActive
    BY DEF UserCap, ActiveTurns, UserOf
  <1> DEFINE A == {i \in Admitted(st, U) : UserOf(i) = u}
             B == ActiveTurns(st, u)
  <1>1. A \in SUBSET Turn /\ B \in SUBSET Turn
    BY DEF Admitted, Heads, ActiveTurns
  <1>2. ActiveTurns(status', u) \subseteq B \cup A
    BY DEF advanceTurnQueue, ActiveTurns
  <1>3. CASE A = {}
    <2>1. ActiveTurns(status', u) \in SUBSET B
      BY <1>2, <1>3
    <2>2. Cardinality(ActiveTurns(status', u)) <= Cardinality(B)
      BY <1>1, <2>1, FS_Subset, ActiveTurnsFinite
    <2>3. /\ Cardinality(ActiveTurns(status', u)) \in Nat
          /\ Cardinality(B) \in Nat
      BY <1>1, <2>1, ActiveTurnsFinite
    <2> QED BY <2>2, <2>3, TurnQueueAssumption DEF Cap
  <1>4. CASE A # {}
    <2>1. PICK m \in A : \A i \in A : i <= m
      BY Zenon, <1>1, <1>4, LastTurn
    <2> DEFINE H == HeadsBefore(st, m)
    <2>2. /\ m \in Heads(st) /\ UserOf(m) = u
          /\ Cardinality(B) + Cardinality(H) < maxActive
      BY <2>1 DEF Admitted
    <2>3. A \subseteq H \cup {m}
      <3>1. \A i \in A : i \in Nat /\ i \in Heads(st) /\ UserOf(i) = u
        BY <1>1, TurnQueueAssumption DEF Admitted, Turn
      <3> QED BY <2>1, <2>2, <3>1 DEF HeadsBefore
    <2>4. H \in SUBSET Turn
      BY DEF HeadsBefore, Heads
    <2>5. ActiveTurns(status', u) \in SUBSET ((B \cup H) \cup {m})
      BY <1>2, <2>3
    <2> HIDE DEF A, B, H
    <2>6. /\ IsFiniteSet(B) /\ Cardinality(B) \in Nat
          /\ IsFiniteSet(H) /\ Cardinality(H) \in Nat
          /\ Cardinality(ActiveTurns(status', u)) \in Nat
      <3>1. ActiveTurns(status', u) \in SUBSET Turn
        BY DEF ActiveTurns
      <3> QED BY <1>1, <2>4, <3>1, ActiveTurnsFinite
    <2>7. Cardinality(ActiveTurns(status', u)) <= Cardinality(B) + Cardinality(H) + 1
      BY Zenon, <2>5, <2>6, UnionBound
    <2> QED BY <2>2, <2>6, <2>7, TurnQueueAssumption
  <1> QED BY <1>3, <1>4

\* Rows that leave the active statuses only lower a user's count.
LEMMA FewerActive ==
    ASSUME UserCap, NEW st \in [Turn -> TurnStatus],
           \A i \in Turn : st[i] \in ActiveStatus => status[i] \in ActiveStatus
    PROVE  Cap(st)
  <1> SUFFICES ASSUME NEW u \in Users PROVE Cardinality(ActiveTurns(st, u)) <= maxActive
    BY DEF Cap
  <1>1. /\ ActiveTurns(st, u) \in SUBSET ActiveTurns(status, u)
        /\ ActiveTurns(st, u) \in SUBSET Turn
        /\ ActiveTurns(status, u) \in SUBSET Turn
    BY DEF ActiveTurns
  <1>2. Cardinality(ActiveTurns(st, u)) <= Cardinality(ActiveTurns(status, u))
    BY <1>1, FS_Subset, ActiveTurnsFinite
  <1>3. /\ Cardinality(ActiveTurns(st, u)) \in Nat
        /\ Cardinality(ActiveTurns(status, u)) \in Nat
    BY <1>1, ActiveTurnsFinite
  <1> QED BY <1>2, <1>3, TurnQueueAssumption DEF UserCap

\* A user never has more than maxActive turns in flight, for any limit.
THEOREM TurnQueueUserCap == Spec => []UserCap
  <1>1. Init => UserCap
    <2> SUFFICES ASSUME Init, NEW u \in Users PROVE Cardinality(ActiveTurns(status, u)) <= maxActive
      BY DEF UserCap
    <2>1. ActiveTurns(status, u) = {}
      BY DEF Init, ActiveTurns, ActiveStatus
    <2> QED BY <2>1, FS_EmptySet, TurnQueueAssumption
  <1>2. IInv /\ UserCap /\ [Next]_vars => UserCap'
    <2> SUFFICES ASSUME IInv, UserCap, [Next]_vars PROVE UserCap'
      OBVIOUS
    <2>t. status \in [Turn -> TurnStatus] /\ thread \in [Turn -> Threads \cup {NoThread}]
      BY DEF IInv, TypeOK
    <2>c. Cap(status)
      BY DEF Cap, UserCap
    <2>1. ASSUME NEW i \in Turn, NEW th \in Threads, NEW k \in Keys \cup {NoKey},
                 enqueueConversationTurn(i, th, k)
          PROVE  UserCap'
      <3>1. \A u \in Users : ActiveTurns(status, u)' = ActiveTurns(status, u)
        BY <2>1, <2>t DEF enqueueConversationTurn, ActiveTurns, UserOf, ActiveStatus
      <3> QED BY <3>1 DEF UserCap
    <2>2. ASSUME NEW i \in Turn, cancelConversationTurn(i) PROVE UserCap'
      <3>1. \A u \in Users : ActiveTurns(status, u)' = ActiveTurns(status, u)
        BY <2>2, <2>t DEF cancelConversationTurn, ActiveTurns, UserOf, ActiveStatus
      <3> QED BY <3>1 DEF UserCap
    <2>3. ASSUME NEW u \in Users, AdvanceForUser(u) PROVE UserCap'
      BY <2>3, <2>t, <2>c, PassKeepsCap DEF AdvanceForUser
    <2>4. ASSUME NEW i \in Turn, NEW s \in TerminalStatus, Settle(i, s) PROVE UserCap'
      <3> DEFINE st == [status EXCEPT ![i] = s]
      <3>1. st \in [Turn -> TurnStatus]
        BY <2>t, <2>4 DEF TurnStatus
      <3>2. \A j \in Turn : st[j] \in ActiveStatus => status[j] \in ActiveStatus
        BY <2>t, <2>4 DEF ActiveStatus, TerminalStatus
      <3>3. advanceTurnQueue(st, stream \ {i}, {UserOf(i)}) /\ thread' = thread
        BY <2>4 DEF Settle
      <3> HIDE DEF st
      <3> QED BY <3>1, <3>2, <3>3, FewerActive, PassKeepsCap
    <2>5. CASE Startup
      <3> DEFINE st == [i \in Turn |-> Reconciled(status[i])]
      <3>1. st \in [Turn -> TurnStatus]
        BY <2>t DEF Reconciled, TurnStatus, TerminalStatus, ActiveStatus
      <3>2. \A j \in Turn : st[j] \in ActiveStatus => status[j] \in ActiveStatus
        BY <2>t DEF Reconciled, ActiveStatus
      <3>3. advanceTurnQueue(st, {}, Users) /\ thread' = thread
        BY <2>5 DEF Startup
      <3> HIDE DEF st
      <3> QED BY <3>1, <3>2, <3>3, FewerActive, PassKeepsCap
    <2>6. CASE Crash \/ UNCHANGED vars
      <3>1. \A u \in Users : ActiveTurns(status, u)' = ActiveTurns(status, u)
        BY <2>6 DEF Crash, vars, ActiveTurns, UserOf
      <3> QED BY <3>1 DEF UserCap
    <2>7. ASSUME NEW i \in Turn, StreamEnds(i) \/ StreamFails(i) PROVE UserCap'
      BY <2>7, <2>4 DEF StreamEnds, StreamFails, TerminalStatus
    <2>8. ASSUME NEW i \in Turn, StreamMeetsCancel(i) PROVE UserCap'
      <3> DEFINE st == [status EXCEPT ![i] = "cancelled"]
      <3>1. st \in [Turn -> TurnStatus]
        BY <2>t DEF TurnStatus, TerminalStatus
      <3>2. \A j \in Turn : st[j] \in ActiveStatus => status[j] \in ActiveStatus
        BY <2>t DEF ActiveStatus
      <3>3. status' = st /\ thread' = thread
        BY <2>8 DEF StreamMeetsCancel
      <3> HIDE DEF st
      <3>4. Cap(st)
        BY <3>1, <3>2, FewerActive
      <3> QED BY <3>3, <3>4 DEF Cap, UserCap, ActiveTurns, UserOf
    <2>9. ASSUME NEW i \in Turn, Unwinds(i) PROVE UserCap'
      BY <2>9, <2>t, <2>c, PassKeepsCap DEF Unwinds
    <2> QED BY <2>1, <2>2, <2>3, <2>5, <2>6, <2>7, <2>8, <2>9 DEF Next
  <1> QED BY <1>1, <1>2, InitIInv, NextIInv, PTL DEF Spec

\* What a step may do to a settled row and to a row being cancelled.
LEMMA StepWrites ==
    ASSUME IInv, [Next]_vars, NEW i \in Turn
    PROVE  /\ status[i] \in TerminalStatus => status'[i] = status[i]
           /\ status[i] = "cancelling" => status'[i] \in {"cancelling", "cancelled"}
  <1>t. /\ status \in [Turn -> TurnStatus]
        /\ stream \in SUBSET Turn
        /\ "queued" \notin TerminalStatus
        /\ \A j \in Streaming : status[j] \notin TerminalStatus
    BY DEF IInv, TypeOK, Streaming, TerminalStatus
  <1>1. ASSUME NEW j \in Turn, NEW th \in Threads, NEW k \in Keys \cup {NoKey},
               enqueueConversationTurn(j, th, k)
        PROVE  i # j => status'[i] = status[i]
    BY <1>1, <1>t DEF enqueueConversationTurn
  <1>2. ASSUME NEW j \in Turn, NEW th \in Threads, NEW k \in Keys \cup {NoKey},
               enqueueConversationTurn(j, th, k)
        PROVE  status[j] = "absent"
    BY <1>2 DEF enqueueConversationTurn
  <1>3. ASSUME NEW j \in Turn, cancelConversationTurn(j)
        PROVE  \/ status'[i] = status[i]
               \/ status[i] \in {"queued"} \cup ActiveStatus /\ status'[i] = "cancelling"
               \/ status[i] = "queued"
    BY <1>3, <1>t DEF cancelConversationTurn
  <1>4. ASSUME NEW u \in Users, AdvanceForUser(u)
        PROVE  status'[i] = status[i] \/ status[i] = "queued"
    BY <1>4, <1>t, AdvanceWrites DEF AdvanceForUser
  <1>5. ASSUME NEW j \in Turn, StreamEnds(j) \/ StreamFails(j)
        PROVE  /\ status[i] \in TerminalStatus => status'[i] = status[i]
               /\ status[i] = "cancelling" => status'[i] \in {"cancelling", "cancelled"}
    <2>1. PICK s \in TerminalStatus : Settle(j, s) /\ (status[j] = "cancelling" => s = "cancelled")
      BY <1>5 DEF StreamEnds, StreamFails, TerminalStatus
    <2> DEFINE st == [status EXCEPT ![j] = s]
    <2>2. st \in [Turn -> TurnStatus] /\ stream \ {j} \in SUBSET Turn
      BY <1>t DEF TurnStatus
    <2>3. advanceTurnQueue(st, stream \ {j}, {UserOf(j)}) /\ j \in Streaming
      BY <2>1 DEF Settle
    <2>4. /\ i # j => st[i] = status[i]
          /\ st[j] = s
      BY <1>t
    <2> HIDE DEF st
    <2>5. status'[i] = st[i] \/ st[i] = "queued"
      BY <2>2, <2>3, AdvanceWrites
    <2> QED BY <1>t, <2>1, <2>3, <2>4, <2>5 DEF TerminalStatus
  <1>6. CASE Startup
    <2> DEFINE st == [j \in Turn |-> Reconciled(status[j])]
    <2>1. st \in [Turn -> TurnStatus]
      BY <1>t DEF Reconciled, TurnStatus, TerminalStatus, ActiveStatus
    <2>2. /\ status[i] \in TerminalStatus => st[i] = status[i]
          /\ status[i] = "cancelling" => st[i] = "cancelled"
      BY DEF Reconciled, ActiveStatus, TerminalStatus
    <2>3. advanceTurnQueue(st, {}, Users)
      BY <1>6 DEF Startup
    <2> HIDE DEF st
    <2>4. status'[i] = st[i] \/ st[i] = "queued"
      BY <2>1, <2>3, AdvanceWrites
    <2> QED BY <2>2, <2>4 DEF TerminalStatus
  <1>7. CASE Crash \/ UNCHANGED vars
    BY <1>7 DEF Crash, vars
  <1>8. ASSUME NEW j \in Turn, StreamMeetsCancel(j)
        PROVE  \/ status'[i] = status[i]
               \/ status[i] = "cancelling" /\ status'[i] = "cancelled"
    BY <1>8, <1>t DEF StreamMeetsCancel
  <1>9. ASSUME NEW j \in Turn, Unwinds(j)
        PROVE  status'[i] = status[i] \/ status[i] = "queued"
    <2>1. advanceTurnQueue(status, stream \ {j}, {UserOf(j)}) /\ stream \ {j} \in SUBSET Turn
      BY <1>9, <1>t DEF Unwinds
    <2> QED BY <1>t, <2>1, AdvanceWrites
  <1> QED BY <1>1, <1>2, <1>3, <1>4, <1>5, <1>6, <1>7, <1>8, <1>9
          DEF Next, TerminalStatus, ActiveStatus

\* No step changes a settled turn (runAdmittedTurn, cancelConversationTurn and
\* the start-up reconciliation included).
THEOREM TurnQueueTerminalIsFinal == Spec => TerminalIsFinal
  <1>1. IInv /\ [Next]_vars =>
            [\A i \in Turn : status[i] \in TerminalStatus => status'[i] = status[i]]_vars
    BY StepWrites
  <1> QED BY <1>1, InitIInv, NextIInv, PTL DEF Spec, TerminalIsFinal

\* No step loses a requested cancellation.
THEOREM TurnQueueCancelHonoured == Spec => CancelHonoured
  <1>1. IInv /\ [Next]_vars =>
            [\A i \in Turn :
                status[i] = "cancelling" => status'[i] \in {"cancelling", "cancelled"}]_vars
    BY StepWrites
  <1> QED BY <1>1, InitIInv, NextIInv, PTL DEF Spec, CancelHonoured
=============================================================================
