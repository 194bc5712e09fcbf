------------------------- MODULE ThreadResultValue -------------------------
(* CThreadResultValue of SharedUtil.Time: one thread sets a value and others *)
(* read it without locks.  A value wider than a machine word (long long in   *)
(* a 32-bit module) is copied word by word, so a copy made while the writer  *)
(* is at work may mix two values; the reader compares two copies to notice.  *)
(* One action per access to shared memory.                                   *)
EXTENDS Integers, Sequences

CONSTANTS
    Readers,
    BUFFER_SIZE,
    Values,      \* what the writer sets, one after the other; a sequence of pairs of words
    MaxLead      \* bound: how many SetValue calls may overlap one GetValue

ResultValueAssumption ==
    /\ BUFFER_SIZE \in 2 .. 256  \* the index is a uchar
    /\ MaxLead \in Nat \ {0}
    /\ Values \in Seq(Int \X Int) /\ Values # <<>>

Buffers == 0 .. BUFFER_SIZE - 1
Words == {1, 2}  \* low word, high word

VARIABLES
    A, B,                 \* m_OutputBuffersA, m_OutputBuffersB
    m_ucLastWrittenIndex,
    writer,               \* [at, set, step]: slot, value being set, next access
    reader,               \* per reader: [step, index, a, b, result]
    lead,                 \* ghost: SetValue calls that overlapped the reader's call
    allowed               \* ghost: values that were current during the call

valueVars == <<A, B, m_ucLastWrittenIndex, writer, reader, lead, allowed>>

Start == Values[1]
Idle == [step |-> "idle", index |-> 0, a |-> Start, b |-> Start, result |-> Start]

\* Initialize(): before the threads run.
ValueInit ==
    /\ A = [i \in Buffers |-> Start] /\ B = [i \in Buffers |-> Start]
    /\ m_ucLastWrittenIndex = 0
    /\ writer = [step |-> "idle", at |-> 0, set |-> 1]
    /\ reader = [r \in Readers |-> Idle]
    /\ lead = [r \in Readers |-> 0]
    /\ allowed = [r \in Readers |-> {}]

Reading(r) == reader[r].step # "idle"

(* -------------------------------- SetValue -------------------------------- *)

\* Mutant: the index is published before the buffers are written.
SetValuePublishing ==
    /\ writer.step = "idle" /\ writer.set < Len(Values)
    /\ \A r \in Readers : Reading(r) => lead[r] < MaxLead
    /\ LET at == (m_ucLastWrittenIndex + 1) % BUFFER_SIZE
       IN  /\ writer' = [step |-> "A1", set |-> writer.set + 1, at |-> at]
           /\ m_ucLastWrittenIndex' = at
    /\ lead' = [r \in Readers |-> IF Reading(r) THEN lead[r] + 1 ELSE lead[r]]
    /\ UNCHANGED <<A, B, reader, allowed>>

\* Only a value that differs from the last one is written.
SetValue ==
    /\ writer.step = "idle" /\ writer.set < Len(Values)
    /\ \A r \in Readers : Reading(r) => lead[r] < MaxLead
    /\ LET next == Values[writer.set + 1]
       IN  IF next = A[m_ucLastWrittenIndex]
           THEN writer' = [writer EXCEPT !.set = @ + 1] /\ UNCHANGED lead
           ELSE /\ writer' = [step |-> "A1", set |-> writer.set + 1,
                              at |-> (m_ucLastWrittenIndex + 1) % BUFFER_SIZE]
                /\ lead' = [r \in Readers |-> IF Reading(r) THEN lead[r] + 1
                                              ELSE lead[r]]
    /\ UNCHANGED <<A, B, m_ucLastWrittenIndex, reader, allowed>>

Writes(step, next) == writer.step = step /\ writer' = [writer EXCEPT !.step = next]
Setting == Values[writer.set]

WriteA(word) ==
    /\ Writes(IF word = 1 THEN "A1" ELSE "A2", IF word = 1 THEN "A2" ELSE "B1")
    /\ A' = [A EXCEPT ![writer.at][word] = Setting[word]]
    /\ UNCHANGED <<B, m_ucLastWrittenIndex, reader, lead, allowed>>

\* Mutant: the second buffer is forgotten.
WriteBForgotten(word) ==
    /\ Writes(IF word = 1 THEN "B1" ELSE "B2", IF word = 1 THEN "B2" ELSE "publish")
    /\ UNCHANGED <<A, B, m_ucLastWrittenIndex, reader, lead, allowed>>

WriteB(word) ==
    /\ Writes(IF word = 1 THEN "B1" ELSE "B2", IF word = 1 THEN "B2" ELSE "publish")
    /\ B' = [B EXCEPT ![writer.at][word] = Setting[word]]
    /\ UNCHANGED <<A, m_ucLastWrittenIndex, reader, lead, allowed>>

Publish ==
    /\ Writes("publish", "idle")
    /\ m_ucLastWrittenIndex' = writer.at
    /\ allowed' = [r \in Readers |-> IF Reading(r) THEN allowed[r] \cup {Setting}
                                     ELSE allowed[r]]
    /\ UNCHANGED <<A, B, reader, lead>>

Write == SetValue \/ (\E w \in Words : WriteA(w) \/ WriteB(w)) \/ Publish

(* -------------------------------- GetValue -------------------------------- *)

Goes(r, step, frame) == reader[r].step = step /\ reader' = [reader EXCEPT ![r] = frame]
Only(r) == UNCHANGED <<A, B, m_ucLastWrittenIndex, writer>>

GetValue(r) ==
    /\ Goes(r, "idle", [reader[r] EXCEPT !.step = "index"])
    /\ lead' = [lead EXCEPT ![r] = IF writer.step = "idle" THEN 0 ELSE 1]
    /\ allowed' = [allowed EXCEPT ![r] = {A[m_ucLastWrittenIndex]}]
    /\ Only(r)

ReadIndex(r) ==
    /\ Goes(r, "index", [reader[r] EXCEPT !.step = "A1", !.index = m_ucLastWrittenIndex])
    /\ Only(r) /\ UNCHANGED <<lead, allowed>>

ReadA(r, word) ==
    /\ Goes(r, IF word = 1 THEN "A1" ELSE "A2",
            [reader[r] EXCEPT !.step = IF word = 1 THEN "A2" ELSE "B1",
                              !.a[word] = A[reader[r].index][word]])
    /\ Only(r) /\ UNCHANGED <<lead, allowed>>

ReadB(r, word) ==
    /\ Goes(r, IF word = 1 THEN "B1" ELSE "B2",
            [reader[r] EXCEPT !.step = IF word = 1 THEN "B2" ELSE "compare",
                              !.b[word] = B[reader[r].index][word]])
    /\ Only(r) /\ UNCHANGED <<lead, allowed>>

\* Equal copies are returned, others are read again.
Compare(r) ==
    /\ Goes(r, "compare",
            IF reader[r].a = reader[r].b
            THEN [reader[r] EXCEPT !.step = "return", !.result = reader[r].a]
            ELSE [reader[r] EXCEPT !.step = "index"])
    /\ Only(r) /\ UNCHANGED <<lead, allowed>>

Return(r) ==
    /\ Goes(r, "return", [Idle EXCEPT !.result = reader[r].result])
    /\ lead' = [lead EXCEPT ![r] = 0] /\ allowed' = [allowed EXCEPT ![r] = {}]
    /\ Only(r)

Read(r) == \/ ReadIndex(r) \/ Compare(r) \/ Return(r)
           \/ \E w \in Words : ReadA(r, w) \/ ReadB(r, w)

ValueNext == Write \/ \E r \in Readers : GetValue(r) \/ Read(r)

\* Both threads run; nobody is forced to call GetValue.
ValueFairness == WF_valueVars(Write) /\ \A r \in Readers : WF_valueVars(Read(r))
ValueSpec == ValueInit /\ [][ValueNext]_valueVars /\ ValueFairness

(* ------------------------------- properties ------------------------------- *)

Pairs == {Values[i] : i \in DOMAIN Values}
AnyPair == {p[1] : p \in Pairs} \X {p[2] : p \in Pairs}
ValueTypeOK ==
    /\ A \in [Buffers -> AnyPair] /\ B \in [Buffers -> AnyPair]
    /\ m_ucLastWrittenIndex \in Buffers
    /\ writer.at \in Buffers /\ writer.set \in DOMAIN Values
    /\ \A r \in Readers : /\ reader[r].index \in Buffers
                          /\ {reader[r].a, reader[r].b, reader[r].result} \subseteq AnyPair
                          /\ lead[r] \in 0 .. MaxLead

\* GetValue returns a value that was the last one set at some moment of the call:
\* never half of one value and half of another, never one that was replaced
\* before the call began.
ReadsCurrent == \A r \in Readers : reader[r].step = "return" => reader[r].result \in allowed[r]

\* A thread that reads a growing tick count never sees it go back from one call
\* to the next (CPerModuleTickCount).
Position(v) == CHOOSE i \in DOMAIN Values : Values[i] = v
NeverGoesBack ==
    [][\A r \in Readers : Position(reader[r].result) <= Position(reader'[r].result)]_valueVars

\* The values are those of a count that grows: none comes again after another one.
Growing ==
    \A i, j, k \in DOMAIN Values :
        i <= j /\ j <= k /\ Values[i] = Values[k] => Values[j] = Values[i]

\* GetValue comes back with a value that was current during the call, and of a growing count
\* the reader never sees an earlier one later.
ValueCurrent == [](ValueTypeOK /\ ReadsCurrent) /\ NeverGoesBack

\* GetValue comes to an end.
ReadsEnd == \A r \in Readers : Reading(r) ~> ~Reading(r)
=============================================================================
