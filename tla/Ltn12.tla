------------------------------- MODULE Ltn12 --------------------------------
(* moonloader/lib/ltn12.lua: filter.chain, one iteration of its loop a step,  *)
(* with source.chain or sink.chain, driven by pump.all until the input has    *)
(* ended or the source or the sink gives an error.                            *)
EXTENDS Integers, Sequences, SequencesExt

CONSTANTS
    Input,      \* the symbols the source gives, a sequence of positive numbers
    MaxChunk,   \* bound: symbols of a chunk of the source
    Chains      \* the lists of filters to chain: [factor, block] each

Ltn12Assumption ==
    /\ Input \in Seq(Nat \ {0}) /\ MaxChunk \in Nat \ {0}
    /\ \A chain \in Chains : chain # <<>> /\ \A i \in DOMAIN chain :
          chain[i].factor \in Nat \ {0} /\ chain[i].block \in Nat \ {0}

Nil == <<0>>          \* the end, no chunk of symbols; <<>> is the empty string

VARIABLES
    filters,    \* the chained filters
    driver,     \* "source" (source.chain) or "sink" (sink.chain)
    state,      \* "feeding", "eating", "ended", "failed" or "error"
    last_in,    \* the chunk the driver passed last
    fed,        \* symbols taken from the source
    out,        \* symbols delivered
    told,       \* how often the sink was told the end
    errors,     \* who gave an error: "source", "sink"
    running,    \* filter.chain's loop runs
    chunk, retry, index, top,   \* of filter.chain
    ctx         \* what each filter holds back
vars == <<filters, driver, state, last_in, fed, out, told, errors, running, chunk, retry, index,
          top, ctx>>
chainVars == <<retry, index, top, ctx>>
driverVars == <<filters, driver, state, last_in, fed, out, told, errors>>

n == Len(filters)

Init ==
    /\ filters \in Chains
    /\ driver \in {"source", "sink"} /\ state = "feeding" /\ last_in = <<>> /\ fed = 0 /\ out = <<>>
    /\ told = 0 /\ errors = {}
    /\ running = FALSE /\ chunk = <<>>
    /\ retry = <<>> /\ index = 1 /\ top = 1
    /\ ctx = [i \in DOMAIN filters |-> <<>>]

(* ------------------------------- the filters ------------------------------ *)

Repeated(s, factor) == FlattenSeq([k \in DOMAIN s |-> [m \in 1 .. factor |-> s[k]]])

\* A filter, as ltn12 asks for it: it repeats every symbol and gives full blocks, the empty
\* string when it has none, and at the end what is left, then nil.
Held(i, c) == IF c = Nil THEN ctx[i] ELSE ctx[i] \o Repeated(c, filters[i].factor)
Given(i, c) ==
    LET held == Held(i, c)
        block == filters[i].block
    IN  CASE c # Nil /\ Len(held) < block -> <<>>
          [] c = Nil /\ held = <<>> -> Nil
          [] OTHER -> SubSeq(held, 1, IF Len(held) < block THEN Len(held) ELSE block)
Kept(i, c) ==
    IF Given(i, c) = Nil THEN <<>> ELSE SubSeq(Held(i, c), Len(Given(i, c)) + 1, Len(Held(i, c)))

(* ------------------------------ filter.chain ------------------------------ *)

\* Mutant: after the end the filters in front are asked with the empty string, not with nil.
RetryAsEmpty == <<>>
RetryWith == retry

RetryAfter(c) == IF c = Nil THEN Nil ELSE retry

TopAfter(given) == IF given = Nil THEN top + 1 ELSE top

Return(value) == running' = FALSE /\ chunk' = value /\ UNCHANGED <<index, top>>
Continue(value) == running' = TRUE /\ chunk' = value

\* The first filter that has not ended.
AtTop ==
    /\ running /\ index = top
    /\ LET given == Given(index, chunk)
       IN  /\ ctx' = [ctx EXCEPT ![index] = Kept(index, chunk)]
           /\ \/ (given = <<>> \/ top = n) /\ Return(given)
              \/ given \notin {<<>>, Nil} /\ top # n
                   /\ top' = TopAfter(given) /\ index' = index + 1 /\ Continue(given)
              \/ given = Nil /\ top # n
                   /\ top' = TopAfter(given) /\ index' = top' /\ Continue(Nil)
    /\ UNCHANGED <<driverVars, retry>>

\* A filter behind it; one that gives nothing makes the one in front of it be asked again.
\* Asked with a string no filter here gives nil, the error "filter returned inappropriate nil".
BehindTop ==
    /\ running /\ index # top
    /\ LET passed == IF chunk = Nil THEN <<>> ELSE chunk
           given == Given(index, passed)
       IN  /\ ctx' = [ctx EXCEPT ![index] = Kept(index, passed)]
           /\ \/ given = <<>>
                   /\ index' = index - 1 /\ Continue(RetryWith) /\ UNCHANGED <<top, state>>
              \/ given \notin {<<>>, Nil} /\ index = n /\ Return(given) /\ UNCHANGED state
              \/ given \notin {<<>>, Nil} /\ index # n
                   /\ index' = index + 1 /\ Continue(given) /\ UNCHANGED <<top, state>>
    /\ UNCHANGED <<filters, driver, last_in, fed, out, told, errors, retry>>

Call(c) ==
    /\ last_in' = c /\ chunk' = c /\ running' = TRUE
    /\ retry' = RetryAfter(c)
    /\ UNCHANGED <<index, top, ctx>>

(* ------------------------------- the drivers ------------------------------ *)

Feed ==
    /\ ~running /\ state = "feeding"
    /\ \E k \in IF fed = Len(Input) THEN {0} ELSE 1 .. MaxChunk :
          /\ fed + k <= Len(Input)
          /\ Call(IF k = 0 THEN Nil ELSE SubSeq(Input, fed + 1, fed + k))
          /\ fed' = fed + k
    /\ state' = "fed"
    /\ UNCHANGED <<filters, driver, out, told, errors>>

Eat ==
    /\ ~running /\ state = "eating"
    /\ Call(IF last_in = Nil THEN Nil ELSE <<>>)
    /\ state' = "eaten"
    /\ UNCHANGED <<filters, driver, fed, out, told, errors>>

\* Mutant: pump.step returns the error of the source only.
PumpForgets(errs) == IF "source" \in errs THEN "failed" ELSE "ended"

\* What pump.all returns when a step was the last: nil and the error, or 1.
PumpReturns(errs) == IF errs = {} THEN "ended" ELSE "failed"

\* The sink takes what it is given, or answers with an error.
Delivered ==
    /\ out' = IF chunk = Nil THEN out ELSE out \o chunk
    /\ told' = IF chunk = Nil THEN told + 1 ELSE told
    /\ UNCHANGED errors
Refused ==
    /\ errors' = errors \cup {"sink"} /\ state' = PumpReturns(errors')
    /\ UNCHANGED <<out, told>>

\* source.chain: every value goes to the sink, the end once the input has ended.
Returned == chunk # <<>> /\ (chunk = Nil => last_in = Nil)
SourceReturns ==
    /\ ~running /\ driver = "source" /\ state \in {"fed", "eaten"}
    /\ \/ Returned /\ Delivered /\ state' = IF chunk = Nil THEN PumpReturns(errors) ELSE "eating"
       \/ Returned /\ Refused
       \/ /\ ~Returned /\ UNCHANGED <<out, told, errors>>
          /\ state' = IF chunk = <<>> /\ (state = "fed" \/ last_in = <<>>) THEN "feeding" ELSE "error"
    /\ UNCHANGED <<filters, driver, last_in, fed, running, chunk, chainVars>>

\* sink.chain: the sink gets every value up to the one that says there is no more.
SinkReturns ==
    /\ ~running /\ driver = "sink" /\ state \in {"fed", "eaten"}
    /\ \/ /\ Delivered
          /\ state' = CASE chunk = Nil /\ last_in = Nil -> PumpReturns(errors)
                        [] chunk = <<>> /\ last_in # Nil -> "feeding"
                        [] OTHER -> "eating"
       \/ Refused
    /\ UNCHANGED <<filters, driver, last_in, fed, running, chunk, chainVars>>

\* The source gives an error.  source.chain passes it on and the sink, told the end, may give
\* one too; sink.chain makes the filters give what they have, and then tells the sink.
SourceFails ==
    /\ ~running /\ state = "feeding"
    /\ \/ /\ driver = "source"
          /\ \/ errors' = {"source"} /\ told' = told + 1
             \/ errors' = {"source", "sink"} /\ UNCHANGED told
          /\ state' = PumpReturns(errors')
          /\ UNCHANGED <<last_in, running, chunk, chainVars>>
       \/ driver = "sink" /\ state' = "fed" /\ errors' = {"source"} /\ Call(Nil) /\ UNCHANGED told
    /\ UNCHANGED <<filters, driver, fed, out>>

Next == AtTop \/ BehindTop \/ Feed \/ Eat \/ SourceReturns \/ SinkReturns \/ SourceFails
Spec == Init /\ [][Next]_vars
\* Nothing but the loops themselves runs.
FairSpec == Spec /\ WF_vars(Next)

(* ------------------------------- properties ------------------------------- *)

Factor == FoldLeft(LAMBDA p, f : p * f.factor, 1, filters)
Composed(s) == Repeated(s, Factor)

TypeOK ==
    /\ index \in top .. n /\ top \in 1 .. n
    /\ fed \in 0 .. Len(Input) /\ retry \in {<<>>, Nil}
    /\ chunk = Nil \/ chunk \in Seq(ToSet(Input))

\* Whatever the chunks and the blocks, what comes out is what the filters make of the input,
\* in order, nothing twice.
OutputInOrder == IsPrefix(out, Composed(SubSeq(Input, 1, fed)))

\* At the end all of it came out, and no filter was called in a way that it answers with nil
\* too early.
OutputComplete == (state = "ended" => out = Composed(Input)) /\ state # "error"

\* The filters in front of the top have ended and hold nothing.
EndedAreEmpty == \A i \in 1 .. top - 1 : ctx[i] = <<>>

\* A new chunk comes only when everything the filters had ready was delivered.
FedWhenDrained ==
    state = "feeding" => \A i \in DOMAIN filters : Len(ctx[i]) < filters[i].block

\* pump.all says that it succeeded only when neither side gave an error.  The sink is told the
\* end once, after everything else, unless it gave an error itself: then it gets nothing more.
\* When the source gave an error, sink.chain still delivers all that was taken from it;
\* source.chain leaves in the filters what is no full block.
PumpTells ==
    /\ state = "ended" => errors = {}
    /\ told = IF state \in {"ended", "failed"} /\ "sink" \notin errors THEN 1 ELSE 0
    /\ state = "failed" /\ errors = {"source"} =>
          IF driver = "sink" THEN out = Composed(SubSeq(Input, 1, fed))
          ELSE \A i \in DOMAIN filters : Len(ctx[i]) < filters[i].block

\* The pump comes to the end.
Ends == <>(state \in {"ended", "failed"})
=============================================================================
