------------------------------ MODULE Runtime ------------------------------
(***************************************************************************)
(* The life of a compiled script in its host: running_file loads it, sets  *)
(* and reads its variables by name, runs it and cleans it up; a run calls  *)
(* the string functions of Strings, in any order, on the variables of the  *)
(* file and on the temporaries of its stack frame.                         *)
(***************************************************************************)
EXTENDS Strings, TLC

CONSTANTS Order,   \* the extern variables, in the order of their names
          Result,  \* the one named %result
          Temps,   \* the string temporaries of the code
          Consts,  \* the address in the file of each string constant
          Inputs,  \* the texts the host gives: a bound
          Counts,  \* the integers the operations are given: a bound
          Followed \* the texts that are followed: a bound

ASSUME OrderAssumption == /\ Result \in {Order[i] : i \in DOMAIN Order}
                          /\ DOMAIN Consts \cap (Temps \cup {Order[i] : i \in DOMAIN Order}) = {}
                          /\ Temps \cap {Order[i] : i \in DOMAIN Order} = {}
                          /\ DOMAIN Literals = {Consts[c] : c \in DOMAIN Consts}

(* The bounds leave the empty text, and the texts given, among those that  *)
(* are followed.                                                           *)
ASSUME BoundsAssumption == /\ Counts \subseteq Int
                           /\ \A text \in Followed : text \in Seq(Nat)
                           /\ Inputs \cup {<<>>} \subseteq Followed
                           /\ \A c \in DOMAIN Consts : Literals[Consts[c]] \in Followed

VARIABLES mem,    \* the variables, the heap and the fault
          phase,  \* what the host is doing with the file
          call    \* the last call, its name and arguments: read by no step

vars == <<mem, phase, call>>

Externs == {Order[i] : i \in DOMAIN Order}
Vars == Externs \cup Temps \cup DOMAIN Consts

Constant(c) == [name |-> "", size |-> Len(Literals[Consts[c]]), at |-> Consts[c],
                bytes |-> <<>>, allocated |-> FALSE]

Image == [v \in Vars |->
            CASE v \in Externs       -> EmptyString(v)
              [] v \in Temps         -> EmptyString("")
              [] v \in DOMAIN Consts -> Constant(v)]

NewProcess == [var |-> Image, live |-> {}, heap |-> [b \in Buffers |-> <<>>], fault |-> "none"]

Init == mem = NewProcess /\ phase = "none" /\ call = <<"none">>

(***************************************************************************)
(* find_variable(): std::lower_bound() by name over the extern variables,  *)
(* which the file has sorted.                                              *)
(***************************************************************************)
Rank(name) == IF \E i \in DOMAIN Order : Order[i] = name
              THEN CHOOSE i \in DOMAIN Order : Order[i] = name ELSE 0

LowerBound(m, name) ==
    LET search[first \in 0..Len(Order), count \in 0..Len(Order)] ==
            LET half == count \div 2
            IN  IF count = 0 THEN first
                ELSE IF Rank(m.var[Order[first + half + 1]].name) < Rank(name)
                     THEN search[first + half + 1, count - half - 1]
                     ELSE search[first, half]
    IN  search[0, Len(Order)]

FindVariable(m, name) ==
    LET i == LowerBound(m, name) + 1
    IN  IF i \in DOMAIN Order /\ m.var[Order[i]].name = name THEN {Order[i]} ELSE {}

(***************************************************************************)
(* The host.                                                               *)
(***************************************************************************)
Load ==
    /\ phase = "none"
    /\ mem' = [mem EXCEPT !.var = Image]
    /\ phase' = "loaded"
    /\ UNCHANGED call

SetVariable(name, text) ==
    /\ phase = "loaded"
    /\ Available(mem) # {}
    /\ \E v \in FindVariable(mem, name) :
           mem' = Set(StringsFree(mem, v), v, text)
    /\ call' = <<"set">>
    /\ UNCHANGED phase

(* clean() frees the buffers of the extern variables, then the file.       *)
Clean ==
    /\ phase = "loaded"
    /\ LET owned == {mem.var[v].at : v \in {u \in Externs : mem.var[u].allocated}}
       IN  mem' = [mem EXCEPT !.live = @ \ owned,
                              !.heap = [b \in Buffers |-> IF b \in owned THEN <<>> ELSE mem.heap[b]],
                              !.var = Image]
    /\ phase' = "none"
    /\ call' = <<"none">>

(* run() looks %result up before it calls the code, which initializes its  *)
(* string temporaries first and frees them last.                           *)
Run ==
    /\ phase = "loaded"
    /\ FindVariable(mem, Result) # {}
    /\ mem' = [mem EXCEPT !.var = [v \in Vars |-> IF v \in Temps THEN EmptyString("") ELSE mem.var[v]]]
    /\ phase' = "running"
    /\ call' = <<"run">>

Return ==
    /\ phase = "running"
    /\ LET owned == {mem.var[t].at : t \in {u \in Temps : mem.var[u].allocated}}
       IN  mem' = [mem EXCEPT
               !.live = @ \ owned,
               !.heap = [b \in Buffers |-> IF b \in owned THEN <<>> ELSE mem.heap[b]],
               !.var = [v \in Vars |-> IF v \in Temps THEN EmptyString("") ELSE mem.var[v]]]
    /\ phase' = "loaded"
    /\ call' = <<"run">>

(***************************************************************************)
(* The operations of the script.  Their results go to a temporary or to    *)
(* %result; an assignment copies to any extern variable.                   *)
(***************************************************************************)
Executes(c, m) ==
    /\ phase = "running"
    /\ mem' = m
    /\ call' = c
    /\ \A v \in Vars : m.fault = "none" => Text(m, v) \in Followed
    /\ phase' = IF m.fault = "none" THEN phase ELSE "crashed"

Assignment(d, s) == d \in Externs \cup Temps /\ Executes(<<"assign", d, s>>, StringsCopy(mem, d, s))

Binary(d, s, t) ==
    \/ Executes(<<"concat", d, s, t>>, StringsConcat(mem, d, s, t))
    \/ Executes(<<"concat", d, s, t>>, StringsConcatParams(mem, d, s, <<t>>))
    \/ Executes(<<"unconcat", d, s, t>>, StringsUnconcat(mem, d, s, t))
    \/ \E minmax \in {-1, 1} :
           Executes(<<"minmax", d, s, t, minmax>>, StringsMinMax(mem, d, s, t, minmax))
    \/ \E u \in Vars \ {d} :
           \/ Executes(<<"replace", d, s, t, u>>, StringsReplace(mem, d, s, t, u))
           \/ Executes(<<"replace_all", d, s, t, u>>, StringsReplaceAll(mem, d, s, t, u))

Unary(d, s) ==
    \/ Executes(<<"flip_case", d, s>>, StringsFlipCase(mem, d, s))
    \/ Executes(<<"to_lowercase", d, s>>, StringsToLowercase(mem, d, s))
    \/ Executes(<<"to_uppercase", d, s>>, StringsToUppercase(mem, d, s))
    \/ \E start, end \in BOOLEAN :
           Executes(<<"trim", d, s, start, end>>, StringsTrim(mem, d, s, start, end))

Indexed(d, s, n) ==
    \/ Executes(<<"at", d, s, n>>, StringsAt(mem, d, s, n))
    \/ Executes(<<"char_at", d, s, n>>, StringsCharAt(mem, d, s, n))
    \/ Executes(<<"multiply", d, s, n>>, StringsMultiply(mem, d, s, n))
    \/ \E op \in DOMAIN Opposite :
           Executes(<<"shift", d, s, n, op>>, StringsShift(mem, d, s, n, op))
    \/ \E end \in Counts :
           \/ Executes(<<"slice", d, s, n, end>>, StringsSlice(mem, d, s, n, end))
           \/ Executes(<<"substring", d, s, n, end>>, StringsSubstring(mem, d, s, n, end))

Operation ==
    /\ Available(mem) # {}
    /\ \/ \E d \in Externs \cup Temps : \E s \in Vars \ {d} : Assignment(d, s)
       \/ \E d \in Temps \cup {Result} : \E s \in Vars \ {d} :
             \/ \E t \in Vars \ {d} : Binary(d, s, t)
             \/ Unary(d, s)
             \/ \E n \in Counts : Indexed(d, s, n)

(* A refused access or an exception thrown across the code ends the        *)
(* process; the host starts anew.                                          *)
Restart ==
    /\ phase = "crashed"
    /\ mem' = NewProcess
    /\ phase' = "none"
    /\ call' = <<"none">>

Next ==
    \/ Load
    \/ \E name \in Externs, text \in Inputs : SetVariable(name, text)
    \/ Clean
    \/ Run
    \/ Operation
    \/ Return
    \/ Restart

Spec == Init /\ [][Next]_vars
-----------------------------------------------------------------------------
(***************************************************************************)
(* Properties.                                                             *)
(***************************************************************************)
Owners(b) == {v \in Vars : mem.var[v].allocated /\ mem.var[v].at = b}

(* A variable is a text within its word, a live buffer of its own size     *)
(* which it owns, or a literal.                                            *)
WellFormed(x) ==
    \/ IsInline(x) /\ ~x.allocated /\ x.at \notin Buffers
    \/ ~IsInline(x) /\ x.allocated /\ x.at \in Buffers
    \/ ~IsInline(x) /\ ~x.allocated /\ x.at \in DOMAIN Literals
                    /\ x.size = Len(Literals[x.at])

(* Every live buffer has one owner, which knows its size: the string       *)
(* functions, set_variable(), clean() and the end of a run leak no buffer, *)
(* share none and leave no variable with a buffer that was freed           *)
(* (strings_free(), binary.cpp:294, strings_copy(), 326), and nothing is    *)
(* freed twice.                                                            *)
Ownership ==
    /\ mem.fault # "free"
    /\ \A v \in Vars : WellFormed(mem.var[v])
    /\ \A b \in Buffers :
            IF b \notin mem.live THEN \A v \in Vars : mem.var[v].at # b
            ELSE \E v \in Vars : Owners(b) = {v} /\ mem.var[v].size = Len(mem.heap[b])

(* The strings of the running file are the texts of Texts: each operation  *)
(* gives its destination the one text that its name and its arguments tell *)
(* (or, where only strings_free() is called, what Texts!Left says), no     *)
(* other variable changes, and only the calls Texts refuses end the        *)
(* process, whatever is shared or freed below.                             *)
ShownText(v) == IF phase = "crashed" /\ v \notin DOMAIN Consts THEN <<>> ELSE Text(mem, v)
Abstract == INSTANCE Texts WITH Variables <- Vars, Externals <- Externs, Temporary <- Temps,
                                Fixed <- [c \in DOMAIN Consts |-> Literals[Consts[c]]],
                                Numbers <- Counts, Short <- Word, Shifts <- DOMAIN Opposite,
                                text <- [v \in Vars |-> ShownText(v)]
ImplementsTexts == Abstract!Spec
=============================================================================
