------------------------------- MODULE Texts -------------------------------
(***************************************************************************)
(* What a script promises about its strings: a variable holds a text, an   *)
(* operation gives one variable the text it makes of those of its sources, *)
(* and no other variable changes.  No memory, no buffer, no ownership.     *)
(* What the operations make of their texts is a parameter.                 *)
(*                                                                         *)
(* One exception: an operation whose result is empty for one of the        *)
(* reasons below only frees its destination, which then keeps a text that  *)
(* is not in the heap (Left), where the comments of the code say that the  *)
(* result is "" (binary.cpp:909 and 1140-1141).                            *)
(***************************************************************************)
EXTENDS Integers, Sequences

CONSTANTS Variables,  \* the string variables
          Fixed,      \* the text of those which are constants
          Externals,  \* those the host sets and reads
          Temporary,  \* those which live for one run
          Inputs,     \* the texts the host gives
          Numbers,    \* the integers the operations are given
          Short       \* the length of a text that needs no memory

CONSTANTS FlipCaseOf(_), ToLowercaseOf(_), ToUppercaseOf(_), TrimOf(_, _, _),
          UnconcatOf(_, _), MinMaxOf(_, _, _), ReplaceOf(_, _, _, _),
          AtOf(_, _), CharAtOf(_, _), MultiplyOf(_, _), SubstrOf(_, _, _),
          ShiftOf(_, _, _), Shifts \* by a count, with one of the operators

VARIABLES text,       \* the text of each variable
          call        \* the last call made: its name and its arguments

state == <<text, call>>

Init == /\ text = [v \in Variables |-> IF v \in DOMAIN Fixed THEN Fixed[v] ELSE <<>>]
        /\ call = <<"none">>

Results == Variables \ DOMAIN Fixed

Gives(d, result) == text' = [text EXCEPT ![d] = result]

(* What d may hold once freed: a short text and that of a constant stay.   *)
Left(d) ==
    IF Len(text[d]) <= Short THEN {text[d]}
    ELSE IF \E c \in DOMAIN Fixed : text[d] = Fixed[c] THEN {text[d], <<>>} ELSE {<<>>}

OnlyFreed(d) == \E left \in Left(d) : Gives(d, left)

Forget(gone) == text' = [v \in Variables |-> IF v \in gone THEN <<>> ELSE text[v]]

(* A refused call ends the process.                                        *)
Refused == Forget(Temporary \cup Externals)
-----------------------------------------------------------------------------
Assign(d, s) == call' = <<"assign", d, s>> /\ Gives(d, text[s])

OfOne(d, s) ==
    \/ call' = <<"flip_case", d, s>> /\ Gives(d, FlipCaseOf(text[s]))
    \/ call' = <<"to_lowercase", d, s>> /\ Gives(d, ToLowercaseOf(text[s]))
    \/ call' = <<"to_uppercase", d, s>> /\ Gives(d, ToUppercaseOf(text[s]))
    \/ \E start, end \in BOOLEAN : /\ call' = <<"trim", d, s, start, end>>
                                   /\ Gives(d, TrimOf(text[s], start, end))

Concat(d, s, t) == call' = <<"concat", d, s, t>> /\ Gives(d, text[s] \o text[t])

Unconcat(d, s, t) ==
    /\ call' = <<"unconcat", d, s, t>>
    /\ IF text[s] = <<>> THEN OnlyFreed(d) ELSE Gives(d, UnconcatOf(text[s], text[t]))

MinMax(d, s, t, minmax) ==
    /\ call' = <<"minmax", d, s, t, minmax>>
    /\ Gives(d, MinMaxOf(text[s], text[t], minmax))

Replace(d, s, t, u) ==
    \/ call' = <<"replace", d, s, t, u>> /\ Gives(d, ReplaceOf(text[s], text[t], text[u], FALSE))
    \/ call' = <<"replace_all", d, s, t, u>> /\ Gives(d, ReplaceOf(text[s], text[t], text[u], TRUE))

At(d, s, n) ==
    /\ call' = <<"at", d, s, n>>
    /\ IF AtOf(text[s], n) = <<>> THEN OnlyFreed(d) ELSE Gives(d, AtOf(text[s], n))

CharAt(d, s, n) ==
    /\ call' = <<"char_at", d, s, n>>
    /\ IF CharAtOf(text[s], n) = <<>> THEN Refused ELSE Gives(d, CharAtOf(text[s], n))

Multiply(d, s, n) ==
    /\ call' = <<"multiply", d, s, n>>
    /\ IF n < 0 THEN Refused ELSE Gives(d, MultiplyOf(text[s], n))

Shift(d, s, n, op) ==
    /\ call' = <<"shift", d, s, n, op>>
    /\ IF text[s] = <<>> \/ ShiftOf(text[s], n, op) = <<>>
       THEN OnlyFreed(d) ELSE Gives(d, ShiftOf(text[s], n, op))

(* A part that is not short is refused.                                    *)
Part(d, s, start, end) ==
    IF text[s] = <<>> \/ start > end \/ start < 0 \/ end < 0 THEN OnlyFreed(d)
    ELSE IF Len(SubstrOf(text[s], start, end)) <= Short
         THEN Gives(d, SubstrOf(text[s], start, end)) ELSE Refused

Slice(d, s, start, end) == call' = <<"slice", d, s, start, end>> /\ Part(d, s, start, end)

(* The smaller first, neither negative.                                    *)
Substring(d, s, from, to) ==
    /\ call' = <<"substring", d, s, from, to>>
    /\ LET start == IF from < 0 THEN 0 ELSE from
           end   == IF to < 0 THEN 0 ELSE to
       IN  IF start <= end THEN Part(d, s, start, end) ELSE Part(d, s, end, start)

Makes(d, s) ==
    \/ Assign(d, s)
    \/ OfOne(d, s)
    \/ \E t \in Variables : \/ Concat(d, s, t)
                            \/ Unconcat(d, s, t)
                            \/ \E minmax \in {-1, 1} : MinMax(d, s, t, minmax)
                            \/ \E u \in Variables : Replace(d, s, t, u)
    \/ \E n \in Numbers : \/ At(d, s, n)
                          \/ CharAt(d, s, n)
                          \/ Multiply(d, s, n)
                          \/ \E op \in Shifts : Shift(d, s, n, op)
                          \/ \E end \in Numbers : Slice(d, s, n, end) \/ Substring(d, s, n, end)

(* The destination and the first source are those of the call.             *)
Operate ==
    /\ Len(call') > 2
    /\ call'[2] \in Results /\ call'[3] \in Variables
    /\ Makes(call'[2], call'[3])
-----------------------------------------------------------------------------
(* Which variable has the name the host gives is not promised: see         *)
(* StringsConcat, which copies names.                                      *)
HostSets(v) == call' = <<"set">> /\ \E input \in Inputs : Gives(v, input)

(* A run starts and ends without temporaries; the end of the process, or   *)
(* clean(), takes everything.                                              *)
HostRuns == call' = <<"run">> /\ Forget(Temporary)
HostCleans == call' = <<"none">> /\ Forget(Temporary \cup Externals)

Next == Operate \/ (\E v \in Externals : HostSets(v)) \/ HostRuns \/ HostCleans

Spec == Init /\ [][Next]_state
=============================================================================
