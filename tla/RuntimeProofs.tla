---------------------------- MODULE RuntimeProofs ----------------------------
(***************************************************************************)
(* Proofs about Runtime, for any variables, buffers, literals and texts.   *)
(* That the buffers have owners does not look at what the operations       *)
(* compute; that the strings are those of Texts does.                      *)
(***************************************************************************)
EXTENDS Runtime, Recursion

(***************************************************************************)
(* The inductive invariant.  In a memory m the buffers of X are live with  *)
(* no owner: strings_concat_params() has one for a while.                  *)
(***************************************************************************)
Shaped(m) ==
    /\ DOMAIN m = {"var", "live", "heap", "fault"}
    /\ DOMAIN m.var = Vars /\ DOMAIN m.heap = Buffers
    /\ \A v \in Vars : DOMAIN m.var[v] = {"name", "size", "at", "bytes", "allocated"}

Owned(m, X) ==
    /\ Shaped(m)
    /\ m.live \subseteq Buffers /\ X \subseteq m.live
    /\ \A v \in Vars : WellFormed(m.var[v])
    /\ \A v \in Vars : m.var[v].allocated => m.var[v].at \in m.live \ X
    /\ \A v, w \in Vars : m.var[v].allocated /\ m.var[w].allocated /\ m.var[v].at = m.var[w].at
                              => v = w
    /\ \A b \in m.live \ X : \E v \in Vars : /\ m.var[v].allocated /\ m.var[v].at = b
                                             /\ m.var[v].size = Len(m.heap[b])
    /\ m.fault # "free"

(* The constants own nothing, the temporaries only during a run, no        *)
(* variable before the file is loaded.                                     *)
Idle ==
    /\ \A c \in DOMAIN Consts : ~mem.var[c].allocated
    /\ phase = "loaded" => \A t \in Temps : ~mem.var[t].allocated
    /\ phase = "none" => \A v \in Vars : ~mem.var[v].allocated

IInv == Owned(mem, {}) /\ Idle

(* An operation with the result d: no other variable changes.              *)
Only(m, n, d) == \A v \in Vars \ {d} : n.var[v] = m.var[v]

(***************************************************************************)
(* The pieces the operations are made of.                                  *)
(***************************************************************************)
(* strings_free() of any variable.                                         *)
LEMMA FreeOwned ==
    ASSUME NEW m, NEW X, Owned(m, X), NEW d \in Vars
    PROVE  /\ Owned(StringsFree(m, d), X)
           /\ ~StringsFree(m, d).var[d].allocated
           /\ Only(m, StringsFree(m, d), d)
           /\ StringsFree(m, d).live \subseteq m.live
<1>1. CASE ~m.var[d].allocated
  BY <1>1 DEF StringsFree, Only
<1>2. CASE m.var[d].allocated
  <2> DEFINE b == m.var[d].at
             r == [m EXCEPT !.live = @ \ {b}, !.heap[b] = <<>>]
             e == EmptyString(m.var[d].name)
             f == [r EXCEPT !.var[d] = e]
  <2>1. b \in m.live /\ b \notin X BY <1>2 DEF Owned
  <2>2. StringsFree(m, d) = f
    <3>1. Release(m, b) = r BY <2>1 DEF Release
    <3>2. r.var[d] = m.var[d] BY DEF Owned, Shaped
    <3> HIDE DEF r
    <3>3. StringsFree(m, d) = [r EXCEPT !.var[d] = EmptyString(@.name)]
      BY <1>2, <3>1 DEF StringsFree
    <3> QED BY <3>2, <3>3
  <2>3. /\ DOMAIN r = {"var", "live", "heap", "fault"}
        /\ r.var = m.var /\ r.live = m.live \ {b} /\ r.fault = m.fault
        /\ DOMAIN r.heap = Buffers
        /\ \A c \in Buffers \ {b} : r.heap[c] = m.heap[c]
    BY DEF Owned, Shaped
  <2> HIDE DEF r
  <2>4. /\ DOMAIN f = {"var", "live", "heap", "fault"}
        /\ f.live = m.live \ {b} /\ f.fault = m.fault /\ f.heap = r.heap
        /\ DOMAIN f.var = Vars
        /\ f.var[d] = e
        /\ \A v \in Vars \ {d} : f.var[v] = m.var[v]
    BY <2>3 DEF Owned, Shaped
  <2> HIDE DEF f
  <2>5. /\ ~e.allocated /\ WellFormed(e)
        /\ DOMAIN e = {"name", "size", "at", "bytes", "allocated"}
    BY WordAssumption, AddressAssumption DEF EmptyString, WellFormed, IsInline
  <2> HIDE DEF e
  <2>6. Shaped(f) BY <2>3, <2>4, <2>5 DEF Owned, Shaped
  <2>7. \A v \in Vars : WellFormed(f.var[v]) BY <2>4, <2>5 DEF Owned
  <2>8. \A v \in Vars : f.var[v].allocated => v # d /\ f.var[v] = m.var[v] /\ f.var[v].at # b
    BY <1>2, <2>4, <2>5 DEF Owned
  <2>9. \A c \in f.live \ X : \E v \in Vars : /\ f.var[v].allocated /\ f.var[v].at = c
                                              /\ f.var[v].size = Len(f.heap[c])
    <3> TAKE c \in f.live \ X
    <3>1. c \in m.live \ X /\ c # b /\ c \in Buffers BY <2>4 DEF Owned
    <3>2. PICK v \in Vars : /\ m.var[v].allocated /\ m.var[v].at = c
                            /\ m.var[v].size = Len(m.heap[c])
      BY <3>1 DEF Owned
    <3>3. v # d BY <3>1, <3>2
    <3>4. f.heap[c] = m.heap[c] BY <2>3, <2>4, <3>1
    <3> QED BY <2>4, <3>2, <3>3, <3>4
  <2>10. Owned(f, X)
    BY <2>1, <2>4, <2>6, <2>7, <2>8, <2>9 DEF Owned
  <2> QED BY <2>2, <2>4, <2>5, <2>10 DEF Only
<1> QED BY <1>1, <1>2

(* d, which owns nothing, takes a value that owns nothing.                 *)
LEMMA ShareOwned ==
    ASSUME NEW m, NEW X, Owned(m, X), NEW d \in Vars, ~m.var[d].allocated,
           NEW x, DOMAIN x = {"name", "size", "at", "bytes", "allocated"},
           WellFormed(x), ~x.allocated
    PROVE  Owned([m EXCEPT !.var[d] = x], X) /\ Only(m, [m EXCEPT !.var[d] = x], d)
<1> DEFINE f == [m EXCEPT !.var[d] = x]
<1>1. /\ DOMAIN f = {"var", "live", "heap", "fault"}
      /\ f.live = m.live /\ f.fault = m.fault /\ f.heap = m.heap
      /\ DOMAIN f.var = Vars
      /\ f.var[d] = x
      /\ \A v \in Vars \ {d} : f.var[v] = m.var[v]
  BY DEF Owned, Shaped
<1> HIDE DEF f
<1>2. Shaped(f) BY <1>1 DEF Owned, Shaped
<1>3. \A v \in Vars : WellFormed(f.var[v]) BY <1>1 DEF Owned
<1>4. \A v \in Vars : f.var[v].allocated => v # d /\ f.var[v] = m.var[v]
  BY <1>1
<1>5. \A c \in f.live \ X : \E v \in Vars : /\ f.var[v].allocated /\ f.var[v].at = c
                                            /\ f.var[v].size = Len(f.heap[c])
  <2> TAKE c \in f.live \ X
  <2>1. PICK v \in Vars : /\ m.var[v].allocated /\ m.var[v].at = c
                          /\ m.var[v].size = Len(m.heap[c])
    BY <1>1 DEF Owned
  <2>2. v # d BY <2>1
  <2> QED BY <1>1, <2>1, <2>2
<1>6. Owned(f, X) BY <1>1, <1>2, <1>3, <1>4, <1>5 DEF Owned
<1> QED BY <1>1, <1>6 DEF Only, f

LEMMA InlineOwned ==
    ASSUME NEW m, NEW X, Owned(m, X), NEW d \in Vars, ~m.var[d].allocated,
           NEW text, Len(text) <= Word
    PROVE  Owned(SetInline(m, d, text), X) /\ Only(m, SetInline(m, d, text), d)
<1> DEFINE x == [m.var[d] EXCEPT !.size = Len(text), !.at = Null, !.bytes = text]
<1>1. /\ DOMAIN x = {"name", "size", "at", "bytes", "allocated"}
      /\ x.size = Len(text) /\ x.at = Null /\ ~x.allocated
  BY DEF Owned, Shaped
<1>2. SetInline(m, d, text) = [m EXCEPT !.var[d] = x] BY DEF SetInline
<1> HIDE DEF x
<1>3. WellFormed(x)
  <2>1. IsInline(x) BY <1>1, Zenon DEF IsInline
  <2> QED BY <1>1, <2>1, AddressAssumption DEF WellFormed
<1>4. Owned([m EXCEPT !.var[d] = x], X) /\ Only(m, [m EXCEPT !.var[d] = x], d)
  BY <1>1, <1>3, ShareOwned
<1> QED BY <1>2, <1>4

(* A new buffer, or one of those without an owner.                         *)
LEMMA BufferOwned ==
    ASSUME NEW m, NEW X, Owned(m, X), NEW d \in Vars, ~m.var[d].allocated,
           NEW b \in Buffers, b \notin m.live \ X, NEW text, ~(Len(text) <= Word)
    PROVE  Owned(SetBuffer(m, d, b, text), X \ {b}) /\ Only(m, SetBuffer(m, d, b, text), d)
<1> DEFINE x == [m.var[d] EXCEPT !.size = Len(text), !.at = b, !.bytes = <<>>, !.allocated = TRUE]
           f == SetBuffer(m, d, b, text)
<1>1. /\ DOMAIN x = {"name", "size", "at", "bytes", "allocated"}
      /\ x.size = Len(text) /\ x.at = b /\ x.allocated
  BY DEF Owned, Shaped
<1>2. f = [m EXCEPT !.live = @ \union {b}, !.heap[b] = text, !.var[d] = x] BY DEF SetBuffer
<1> HIDE DEF x, f
<1>3. /\ DOMAIN f = {"var", "live", "heap", "fault"}
      /\ f.live = m.live \union {b} /\ f.fault = m.fault
      /\ DOMAIN f.heap = Buffers /\ f.heap[b] = text
      /\ \A c \in Buffers \ {b} : f.heap[c] = m.heap[c]
      /\ DOMAIN f.var = Vars
      /\ f.var[d] = x
      /\ \A v \in Vars \ {d} : f.var[v] = m.var[v]
  BY <1>2 DEF Owned, Shaped
<1>4. WellFormed(x) BY <1>1 DEF WellFormed, IsInline
<1>5. Shaped(f) BY <1>1, <1>3 DEF Owned, Shaped
<1>6. \A v \in Vars : WellFormed(f.var[v]) BY <1>3, <1>4 DEF Owned
<1>7. \A v \in Vars \ {d} : f.var[v].allocated => f.var[v].at \in m.live \ X /\ f.var[v].at # b
  BY <1>3 DEF Owned
<1>8. \A v \in Vars : f.var[v].allocated => f.var[v].at \in f.live \ (X \ {b})
  BY <1>1, <1>3, <1>7
<1>9. \A v, w \in Vars : f.var[v].allocated /\ f.var[w].allocated /\ f.var[v].at = f.var[w].at
                            => v = w
  BY <1>1, <1>3, <1>7 DEF Owned
<1>10. \A c \in f.live \ (X \ {b}) :
          \E v \in Vars : /\ f.var[v].allocated /\ f.var[v].at = c
                          /\ f.var[v].size = Len(f.heap[c])
  <2> TAKE c \in f.live \ (X \ {b})
  <2>1. CASE c = b BY <1>1, <1>3, <2>1
  <2>2. CASE c # b
    <3>1. c \in m.live \ X /\ c \in Buffers BY <1>3, <2>2 DEF Owned
    <3>2. PICK v \in Vars : /\ m.var[v].allocated /\ m.var[v].at = c
                            /\ m.var[v].size = Len(m.heap[c])
      BY <3>1 DEF Owned
    <3>3. v # d BY <3>2
    <3> QED BY <1>3, <2>2, <3>1, <3>2, <3>3
  <2> QED BY <2>1, <2>2
<1>11. f.live \subseteq Buffers /\ X \ {b} \subseteq f.live /\ f.fault # "free"
  BY <1>3 DEF Owned
<1>12. Owned(f, X \ {b}) BY <1>5, <1>6, <1>8, <1>9, <1>10, <1>11 DEF Owned
<1> QED BY <1>3, <1>12 DEF Only, f

(* free() of a buffer without an owner.                                    *)
LEMMA ReleaseOwned ==
    ASSUME NEW m, NEW X, Owned(m, X), NEW b \in X
    PROVE  Owned(Release(m, b), X \ {b}) /\ Release(m, b).var = m.var
<1> DEFINE f == [m EXCEPT !.live = @ \ {b}, !.heap[b] = <<>>]
<1>1. Release(m, b) = f BY DEF Release, Owned
<1>2. /\ DOMAIN f = {"var", "live", "heap", "fault"}
      /\ f.live = m.live \ {b} /\ f.fault = m.fault /\ f.var = m.var
      /\ DOMAIN f.heap = Buffers
      /\ \A c \in Buffers \ {b} : f.heap[c] = m.heap[c]
  BY DEF Owned, Shaped
<1> HIDE DEF f
<1>3. Shaped(f) BY <1>2 DEF Owned, Shaped
<1>4. f.live \ (X \ {b}) = m.live \ X BY <1>2
<1>5. \A c \in f.live \ (X \ {b}) :
         \E v \in Vars : /\ f.var[v].allocated /\ f.var[v].at = c
                         /\ f.var[v].size = Len(f.heap[c])
  <2> TAKE c \in f.live \ (X \ {b})
  <2>1. c \in m.live \ X /\ c \in Buffers /\ c # b BY <1>4 DEF Owned
  <2> QED BY <1>2, <2>1 DEF Owned
<1>6. f.live \subseteq Buffers /\ X \ {b} \subseteq f.live /\ f.fault # "free" BY <1>2 DEF Owned
<1>7. Owned(f, X \ {b}) BY <1>2, <1>3, <1>4, <1>5, <1>6 DEF Owned
<1> QED BY <1>1, <1>2, <1>7

(* The processor refuses an access, or an exception is thrown.             *)
LEMMA FaultOwned ==
    ASSUME NEW m, NEW X, Owned(m, X), NEW what, what # "free"
    PROVE  Owned(Fault(m, what), X) /\ Fault(m, what).var = m.var
<1>1. /\ DOMAIN Fault(m, what) = DOMAIN m
      /\ Fault(m, what).var = m.var /\ Fault(m, what).live = m.live
      /\ Fault(m, what).heap = m.heap /\ Fault(m, what).fault # "free"
  BY DEF Fault, Owned, Shaped
<1> QED BY <1>1 DEF Owned, Shaped

(* malloc() while a buffer is left.                                        *)
LEMMA SetOwned ==
    ASSUME NEW m, Owned(m, {}), NEW d \in Vars, ~m.var[d].allocated, Available(m) # {}, NEW text
    PROVE  Owned(Set(m, d, text), {}) /\ Only(m, Set(m, d, text), d)
<1>1. Malloc(m) \in Buffers \ m.live BY DEF Malloc, Available
<1>2. CASE Len(text) <= Word BY <1>2, InlineOwned DEF Set
<1>3. CASE ~(Len(text) <= Word)
  <2>1. Set(m, d, text) = SetBuffer(m, d, Malloc(m), text) BY <1>3 DEF Set
  <2>2. {} \ {Malloc(m)} = {} OBVIOUS
  <2>3. /\ Owned(SetBuffer(m, d, Malloc(m), text), {} \ {Malloc(m)})
        /\ Only(m, SetBuffer(m, d, Malloc(m), text), d)
    BY <1>1, <1>3, BufferOwned
  <2> QED BY <2>1, <2>2, <2>3
<1> QED BY <1>2, <1>3

LEMMA StoreOwned ==
    ASSUME NEW m, Owned(m, {}), NEW d \in Vars, Available(m) # {}, NEW text
    PROVE  Owned(Store(m, d, text), {}) /\ Only(m, Store(m, d, text), d)
<1> DEFINE f == StringsFree(m, d)
<1>1. Owned(f, {}) /\ ~f.var[d].allocated /\ Only(m, f, d) /\ f.live \subseteq m.live
  BY FreeOwned
<1>2. Available(f) # {} BY <1>1 DEF Available
<1> HIDE DEF f
<1>3. Owned(Set(f, d, text), {}) /\ Only(f, Set(f, d, text), d) BY <1>1, <1>2, SetOwned
<1> QED BY <1>1, <1>3 DEF Store, Only, f

(***************************************************************************)
(* The string functions, one after the other.  Each works on a result d    *)
(* other than its sources, while a buffer is left.                         *)
(***************************************************************************)
Does(m, n, d) == Owned(n, {}) /\ Only(m, n, d)

LEMMA FreeDoes == ASSUME NEW m, Owned(m, {}), NEW d \in Vars PROVE Does(m, StringsFree(m, d), d)
  BY FreeOwned DEF Does

LEMMA StoreDoes ==
    ASSUME NEW m, Owned(m, {}), NEW d \in Vars, Available(m) # {}, NEW text
    PROVE  Does(m, Store(m, d, text), d)
  BY StoreOwned DEF Does

(* What the copying functions need of the memory after the free of d.      *)
LEMMA Freed ==
    ASSUME NEW m, Owned(m, {}), NEW d \in Vars, Available(m) # {}
    PROVE  LET f == StringsFree(m, d)
           IN  /\ Owned(f, {}) /\ ~f.var[d].allocated /\ Available(f) # {}
               /\ Only(m, f, d)
  BY FreeOwned DEF Available

LEMMA CopyDoes ==
    ASSUME NEW m, Owned(m, {}), NEW d \in Vars, Available(m) # {}, NEW s \in Vars
    PROVE  Does(m, StringsCopy(m, d, s), d)
<1> DEFINE f == StringsFree(m, d)
           x == f.var[s]
           y == [x EXCEPT !.name = f.var[d].name]
<1>1. Owned(f, {}) /\ ~f.var[d].allocated /\ Available(f) # {} /\ Only(m, f, d) BY Freed
<1> HIDE DEF f
<1>2. CASE d = s BY <1>2 DEF StringsCopy, Does, Only
<1>3. CASE d # s /\ ~x.allocated
  <2>1. /\ DOMAIN y = {"name", "size", "at", "bytes", "allocated"}
        /\ y.size = x.size /\ y.at = x.at /\ y.bytes = x.bytes /\ y.allocated = x.allocated
    BY <1>1 DEF Owned, Shaped
  <2>2. WellFormed(x) BY <1>1 DEF Owned
  <2>3. StringsCopy(m, d, s) = [f EXCEPT !.var[d] = y] BY <1>3 DEF StringsCopy, f
  <2> HIDE DEF y
  <2>4. WellFormed(y) /\ ~y.allocated BY <1>3, <2>1, <2>2 DEF WellFormed, IsInline
  <2>5. Owned([f EXCEPT !.var[d] = y], {}) /\ Only(f, [f EXCEPT !.var[d] = y], d)
    BY <1>1, <2>1, <2>4, ShareOwned
  <2> QED BY <1>1, <2>3, <2>5 DEF Does, Only
<1>4. CASE d # s /\ x.allocated
  <2>1. StringsCopy(m, d, s) = Set(f, d, Text(f, s)) BY <1>4 DEF StringsCopy, f
  <2>2. Owned(Set(f, d, Text(f, s)), {}) /\ Only(f, Set(f, d, Text(f, s)), d)
    BY <1>1, SetOwned
  <2> QED BY <1>1, <2>1, <2>2 DEF Does, Only
<1> QED BY <1>2, <1>3, <1>4

LEMMA ConcatDoes ==
    ASSUME NEW m, Owned(m, {}), NEW d \in Vars, Available(m) # {}, NEW s \in Vars, NEW t \in Vars
    PROVE  Does(m, StringsConcat(m, d, s, t), d)
<1> DEFINE f == StringsFree(m, d)
           e == EmptyString(f.var[d].name)
           text == ConcatOf(<<Text(f, s), Text(f, t)>>)
<1>1. Owned(f, {}) /\ ~f.var[d].allocated /\ Available(f) # {} /\ Only(m, f, d) BY Freed
<1>2. /\ ~e.allocated /\ WellFormed(e)
      /\ DOMAIN e = {"name", "size", "at", "bytes", "allocated"}
  BY WordAssumption, AddressAssumption DEF EmptyString, WellFormed, IsInline
<1>3. \A v \in Vars : /\ DOMAIN f.var[v] = {"name", "size", "at", "bytes", "allocated"}
                      /\ WellFormed(f.var[v])
  BY <1>1 DEF Owned, Shaped
<1>4. ASSUME NEW x, DOMAIN x = {"name", "size", "at", "bytes", "allocated"},
             WellFormed(x), ~x.allocated
      PROVE  Does(m, [f EXCEPT !.var[d] = x], d)
  <2> HIDE DEF f
  <2>1. Owned([f EXCEPT !.var[d] = x], {}) /\ Only(f, [f EXCEPT !.var[d] = x], d)
    BY <1>1, <1>4, ShareOwned
  <2> QED BY <1>1, <2>1 DEF Does, Only
<1>5. Does(m, Set(f, d, text), d)
  <2> HIDE DEF f, text
  <2>1. Owned(Set(f, d, text), {}) /\ Only(f, Set(f, d, text), d) BY <1>1, SetOwned
  <2> QED BY <1>1, <2>1 DEF Does, Only
<1>6. \/ StringsConcat(m, d, s, t) = [f EXCEPT !.var[d] = e]
      \/ ~f.var[s].allocated /\ StringsConcat(m, d, s, t) = [f EXCEPT !.var[d] = f.var[s]]
      \/ ~f.var[t].allocated /\ StringsConcat(m, d, s, t) = [f EXCEPT !.var[d] = f.var[t]]
      \/ StringsConcat(m, d, s, t) = Set(f, d, text)
  BY DEF StringsConcat
<1> HIDE DEF f, e, text
<1> QED BY <1>2, <1>3, <1>4, <1>5, <1>6

(* The buffer has no owner until d takes it, or it is freed.               *)
LEMMA ConcatParamsDoes ==
    ASSUME NEW m, Owned(m, {}), NEW d \in Vars, Available(m) # {}, NEW s, NEW params
    PROVE  Does(m, StringsConcatParams(m, d, s, params), d)
<1> DEFINE text == ConcatOf(TextsOf(m, <<s>> \o params))
           b == Malloc(m)
           g == [m EXCEPT !.live = @ \union {b}, !.heap[b] = text]
           f == StringsFree(g, d)
<1>1. b \in Buffers \ m.live BY DEF Malloc, Available
<1>2. StringsConcatParams(m, d, s, params) =
         IF Len(text) <= Word THEN SetInline(Release(f, b), d, text) ELSE SetBuffer(f, d, b, text)
  BY DEF StringsConcatParams
<1> HIDE DEF text, b
<1>3. Owned(g, {b}) /\ g.var = m.var
  <2>1. /\ DOMAIN g = {"var", "live", "heap", "fault"}
        /\ g.live = m.live \union {b} /\ g.fault = m.fault /\ g.var = m.var
        /\ DOMAIN g.heap = Buffers
        /\ \A c \in Buffers \ {b} : g.heap[c] = m.heap[c]
    BY DEF Owned, Shaped
  <2> HIDE DEF g
  <2>2. Shaped(g) BY <2>1 DEF Owned, Shaped
  <2>3. g.live \ {b} = m.live BY <1>1, <2>1
  <2>4. \A c \in g.live \ {b} : \E v \in Vars : /\ g.var[v].allocated /\ g.var[v].at = c
                                                /\ g.var[v].size = Len(g.heap[c])
    <3> TAKE c \in g.live \ {b}
    <3>1. c \in m.live \ {} /\ c \in Buffers /\ c # b BY <2>3 DEF Owned
    <3> QED BY <2>1, <3>1 DEF Owned
  <2>5. g.live \subseteq Buffers /\ {b} \subseteq g.live /\ g.fault # "free"
    BY <1>1, <2>1 DEF Owned
  <2>6. \A v \in Vars : g.var[v].allocated => g.var[v].at \in g.live \ {b}
    BY <2>1, <2>3 DEF Owned
  <2> QED BY <2>1, <2>2, <2>4, <2>5, <2>6 DEF Owned
<1> HIDE DEF g
<1>4. Owned(f, {b}) /\ ~f.var[d].allocated /\ Only(g, f, d) BY <1>3, FreeOwned
<1> HIDE DEF f
<1>5. {b} \ {b} = {} OBVIOUS
<1>6. CASE Len(text) <= Word
  <2>1. Owned(Release(f, b), {b} \ {b}) /\ Release(f, b).var = f.var BY <1>4, ReleaseOwned
  <2> DEFINE h == Release(f, b)
  <2>2. Owned(h, {}) /\ ~h.var[d].allocated BY <1>4, <1>5, <2>1
  <2> HIDE DEF h
  <2>3. Owned(SetInline(h, d, text), {}) /\ Only(h, SetInline(h, d, text), d)
    BY <1>6, <2>2, InlineOwned
  <2> QED BY <1>2, <1>3, <1>4, <1>6, <2>1, <2>3 DEF Does, Only, h
<1>7. CASE ~(Len(text) <= Word)
  <2>1. b \in Buffers /\ b \notin f.live \ {b} BY <1>1
  <2>2. Owned(SetBuffer(f, d, b, text), {b} \ {b}) /\ Only(f, SetBuffer(f, d, b, text), d)
    BY <1>4, <1>7, <2>1, BufferOwned
  <2> QED BY <1>2, <1>3, <1>4, <1>5, <1>7, <2>2 DEF Does, Only
<1> QED BY <1>6, <1>7

LEMMA SubstrDoes ==
    ASSUME NEW m, Owned(m, {}), NEW d \in Vars, NEW s, NEW start, NEW end
    PROVE  Does(m, StringsSubstr(m, d, s, start, end), d)
<1> DEFINE f == StringsFree(m, d)
           text == SubstrOf(Text(m, s), start, end)
<1>1. Owned(f, {}) /\ ~f.var[d].allocated /\ Only(m, f, d) BY FreeOwned
<1>2. \/ StringsSubstr(m, d, s, start, end) = f
      \/ StringsSubstr(m, d, s, start, end) = Fault(f, "write")
      \/ Len(text) <= Word /\ StringsSubstr(m, d, s, start, end) = SetInline(f, d, text)
  BY DEF StringsSubstr
<1> HIDE DEF f
<1>3. Does(m, f, d) BY <1>1 DEF Does
<1>4. Does(m, Fault(f, "write"), d) BY <1>1, FaultOwned DEF Does, Only
<1>5. ASSUME Len(text) <= Word PROVE Does(m, SetInline(f, d, text), d)
  <2> HIDE DEF text
  <2>1. Owned(SetInline(f, d, text), {}) /\ Only(f, SetInline(f, d, text), d)
    BY <1>1, <1>5, InlineOwned
  <2> QED BY <1>1, <2>1 DEF Does, Only
<1> QED BY <1>2, <1>3, <1>4, <1>5

LEMMA UnaryDoes ==
    ASSUME Owned(mem, {}), NEW d \in Vars, Available(mem) # {}, NEW s \in Vars, Unary(d, s)
    PROVE  Does(mem, mem', d)
  BY StoreDoes DEF Unary, Executes, StringsFlipCase, StringsToLowercase, StringsToUppercase,
                   StringsTrim

LEMMA BinaryDoes ==
    ASSUME Owned(mem, {}), NEW d \in Vars, Available(mem) # {}, NEW s \in Vars, NEW t \in Vars,
           Binary(d, s, t)
    PROVE  Does(mem, mem', d)
<1>1. CASE mem' = StringsConcat(mem, d, s, t) BY <1>1, ConcatDoes
<1>2. CASE mem' = StringsConcatParams(mem, d, s, <<t>>) BY <1>2, ConcatParamsDoes
<1>3. CASE mem' = StringsUnconcat(mem, d, s, t) BY <1>3, FreeDoes, StoreDoes DEF StringsUnconcat
<1>4. ASSUME NEW minmax, mem' = StringsMinMax(mem, d, s, t, minmax) PROVE Does(mem, mem', d)
  <2>1. PICK v \in {s, t} : mem' = StringsCopy(mem, d, v) BY <1>4 DEF StringsMinMax
  <2> QED BY <2>1, CopyDoes
<1>5. ASSUME NEW u, \/ mem' = StringsReplace(mem, d, s, t, u)
                    \/ mem' = StringsReplaceAll(mem, d, s, t, u)
      PROVE  Does(mem, mem', d)
  BY <1>5, StoreDoes DEF StringsReplace, StringsReplaceAll, StringsReplaceApply
<1> QED BY <1>1, <1>2, <1>3, <1>4, <1>5 DEF Binary, Executes

LEMMA IndexedDoes ==
    ASSUME Owned(mem, {}), NEW d \in Vars, Available(mem) # {}, NEW s \in Vars, NEW n,
           Indexed(d, s, n)
    PROVE  Does(mem, mem', d)
<1>1. CASE mem' = StringsAt(mem, d, s, n) BY <1>1, FreeDoes, StoreDoes DEF StringsAt
<1>2. CASE mem' = StringsCharAt(mem, d, s, n)
  <2>1. Does(mem, Fault(mem, "out_of_range"), d) BY FaultOwned DEF Does, Only
  <2> QED BY <1>2, <2>1, StoreDoes DEF StringsCharAt
<1>3. CASE mem' = StringsMultiply(mem, d, s, n)
  <2>1. Does(mem, Fault(mem, "incompatible_data"), d) BY FaultOwned DEF Does, Only
  <2> QED BY <1>3, <2>1, StoreDoes DEF StringsMultiply
<1>4. ASSUME NEW op, mem' = StringsShift(mem, d, s, n, op) PROVE Does(mem, mem', d)
  BY <1>4, FreeDoes, StoreDoes DEF StringsShift
<1>5. ASSUME NEW end, \/ mem' = StringsSlice(mem, d, s, n, end)
                      \/ mem' = StringsSubstring(mem, d, s, n, end)
      PROVE  Does(mem, mem', d)
  BY <1>5, SubstrDoes DEF StringsSlice, StringsSubstring
<1> QED BY <1>1, <1>2, <1>3, <1>4, <1>5 DEF Indexed, Executes

(* An operation of a run: the constants are left alone.                    *)
LEMMA OperationDoes ==
    ASSUME IInv, Operation
    PROVE  \E d \in Externs \cup Temps : Does(mem, mem', d)
<1>1. /\ Owned(mem, {}) /\ Available(mem) # {}
      /\ Result \in Externs /\ Externs \cup Temps \subseteq Vars
  BY OrderAssumption DEF IInv, Operation, Externs, Vars
<1>2. ASSUME NEW d \in Externs \cup Temps, NEW s \in Vars, Assignment(d, s)
      PROVE  Does(mem, mem', d)
  BY <1>1, <1>2, CopyDoes DEF Assignment, Executes
<1>3. ASSUME NEW d \in Temps \cup {Result}, NEW s \in Vars,
             \/ \E t \in Vars : Binary(d, s, t)
             \/ Unary(d, s)
             \/ \E n \in Counts : Indexed(d, s, n)
      PROVE  Does(mem, mem', d)
  BY <1>1, <1>3, BinaryDoes, UnaryDoes, IndexedDoes
<1> QED BY <1>1, <1>2, <1>3 DEF Operation

LEMMA OperationKeeps ==
    ASSUME IInv, Operation
    PROVE  IInv'
<1>1. PICK d \in Externs \cup Temps : Does(mem, mem', d) BY OperationDoes
<1>2. phase = "running" /\ phase' \in {"running", "crashed"}
  <2> DEFINE Runs == phase = "running" /\ phase' \in {"running", "crashed"}
  <2>1. \A k, m : Executes(k, m) => Runs BY DEF Executes
  <2> HIDE DEF Runs
  <2>2. \A a, s : Assignment(a, s) => Runs BY <2>1 DEF Assignment
  <2>3. \A a, s, t : Binary(a, s, t) => Runs BY <2>1 DEF Binary
  <2>4. \A a, s : Unary(a, s) => Runs BY <2>1 DEF Unary
  <2>5. \A a, s, n : Indexed(a, s, n) => Runs BY <2>1 DEF Indexed
  <2>6. Runs BY <2>2, <2>3, <2>4, <2>5 DEF Operation
  <2> QED BY <2>6 DEF Runs
<1>3. \A c \in DOMAIN Consts : c \in Vars \ {d} /\ mem'.var[c] = mem.var[c]
  BY <1>1, OrderAssumption DEF Does, Only, Vars, Externs
<1>4. Owned(mem', {}) BY <1>1 DEF Does
<1> QED BY <1>2, <1>3, <1>4 DEF IInv, Idle

(***************************************************************************)
(* The host.                                                               *)
(***************************************************************************)
(* The variables of the file before it runs own nothing.                   *)
LEMMA ImageOwnsNothing ==
    /\ DOMAIN Image = Vars
    /\ \A v \in Vars : /\ DOMAIN Image[v] = {"name", "size", "at", "bytes", "allocated"}
                       /\ WellFormed(Image[v]) /\ ~Image[v].allocated
<1>1. \A name : /\ DOMAIN EmptyString(name) = {"name", "size", "at", "bytes", "allocated"}
                /\ WellFormed(EmptyString(name)) /\ ~EmptyString(name).allocated
  BY WordAssumption, AddressAssumption DEF EmptyString, WellFormed, IsInline
<1>2. \A c \in DOMAIN Consts :
         /\ DOMAIN Constant(c) = {"name", "size", "at", "bytes", "allocated"}
         /\ WellFormed(Constant(c)) /\ ~Constant(c).allocated
  <2> TAKE c \in DOMAIN Consts
  <2>1. /\ Consts[c] \in DOMAIN Literals
        /\ Len(Literals[Consts[c]]) \in Nat /\ Len(Literals[Consts[c]]) > Word
    BY OrderAssumption, LiteralAssumption
  <2>2. /\ DOMAIN Constant(c) = {"name", "size", "at", "bytes", "allocated"}
        /\ Constant(c).size = Len(Literals[Consts[c]]) /\ Constant(c).at = Consts[c]
        /\ ~Constant(c).allocated
    BY DEF Constant
  <2>3. ~IsInline(Constant(c)) BY <2>1, <2>2, WordAssumption DEF IsInline
  <2> QED BY <2>1, <2>2, <2>3 DEF WellFormed
<1>3. \A v \in Vars : \/ Image[v] = EmptyString(v)
                      \/ Image[v] = EmptyString("")
                      \/ v \in DOMAIN Consts /\ Image[v] = Constant(v)
  <2> TAKE v \in Vars
  <2>1. Image[v] = CASE v \in Externs       -> EmptyString(v)
                     [] v \in Temps         -> EmptyString("")
                     [] v \in DOMAIN Consts -> Constant(v)
    BY DEF Image
  <2>2. v \in Externs \/ v \in Temps \/ v \in DOMAIN Consts BY DEF Vars
  <2> QED BY <2>1, <2>2
<1> QED BY <1>1, <1>2, <1>3 DEF Image

(* A memory with the variables of the file and no buffer.                  *)
LEMMA FreshOwned ==
    ASSUME NEW m, DOMAIN m = {"var", "live", "heap", "fault"}, m.var = Image, m.live = {},
           DOMAIN m.heap = Buffers, m.fault # "free"
    PROVE  Owned(m, {}) /\ \A v \in Vars : ~m.var[v].allocated
  BY ImageOwnsNothing DEF Owned, Shaped

LEMMA NewProcessKeeps == mem' = NewProcess /\ phase' = "none" => IInv'
<1> SUFFICES ASSUME mem' = NewProcess, phase' = "none" PROVE IInv' OBVIOUS
<1>1. Owned(mem', {}) /\ \A v \in Vars : ~mem'.var[v].allocated BY FreshOwned DEF NewProcess
<1> QED BY <1>1 DEF IInv, Idle, Vars

LEMMA InitOwned == Init => IInv
<1> SUFFICES ASSUME Init PROVE IInv OBVIOUS
<1>1. Owned(mem, {}) /\ \A v \in Vars : ~mem.var[v].allocated
  BY FreshOwned DEF Init, NewProcess
<1> QED BY <1>1 DEF Init, IInv, Idle, Vars

(* No variable owns a buffer: there is none.                               *)
LEMMA LoadKeeps == ASSUME IInv, Load PROVE IInv'
<1>1. mem.live = {}
  <2>1. \A v \in Vars : ~mem.var[v].allocated BY DEF IInv, Idle, Load
  <2> QED BY <2>1 DEF IInv, Owned
<1>2. Owned(mem', {}) /\ \A v \in Vars : ~mem'.var[v].allocated
  <2>1. /\ DOMAIN mem' = {"var", "live", "heap", "fault"} /\ mem'.var = Image
        /\ mem'.live = {} /\ DOMAIN mem'.heap = Buffers /\ mem'.fault # "free"
    BY <1>1 DEF Load, IInv, Owned, Shaped
  <2> QED BY <2>1, FreshOwned
<1> QED BY <1>2 DEF IInv, Idle, Vars

LEMMA SetVariableKeeps ==
    ASSUME IInv, NEW name, NEW text, SetVariable(name, text)
    PROVE  IInv'
<1>1. PICK v \in FindVariable(mem, name) : mem' = Store(mem, v, text)
  BY DEF SetVariable, Store
<1>2. v \in Externs BY DEF FindVariable, Externs
<1>3. Owned(mem', {}) /\ Only(mem, mem', v)
  BY <1>1, <1>2, StoreOwned DEF IInv, SetVariable, Vars
<1>4. \A w \in Temps \cup DOMAIN Consts : mem'.var[w] = mem.var[w]
  BY <1>2, <1>3, OrderAssumption DEF Only, Vars, Externs
<1>5. phase = "loaded" /\ phase' = "loaded" BY DEF SetVariable
<1> QED BY <1>3, <1>4, <1>5 DEF IInv, Idle

(* The extern variables own every buffer left.                             *)
LEMMA CleanKeeps == ASSUME IInv, Clean PROVE IInv'
<1> DEFINE owned == {mem.var[v].at : v \in {u \in Externs : mem.var[u].allocated}}
<1>1. mem.live \ owned = {}
  <2> SUFFICES ASSUME NEW b \in mem.live PROVE b \in owned OBVIOUS
  <2>1. PICK v \in Vars : mem.var[v].allocated /\ mem.var[v].at = b BY DEF IInv, Owned
  <2>2. v \in Externs BY <2>1 DEF IInv, Idle, Clean, Vars
  <2> QED BY <2>1, <2>2
<1>2. mem' = [mem EXCEPT !.live = @ \ owned,
                         !.heap = [b \in Buffers |-> IF b \in owned THEN <<>> ELSE mem.heap[b]],
                         !.var = Image]
  BY DEF Clean
<1> HIDE DEF owned
<1>3. Owned(mem', {}) /\ \A v \in Vars : ~mem'.var[v].allocated
  <2>1. /\ DOMAIN mem' = {"var", "live", "heap", "fault"} /\ mem'.var = Image
        /\ mem'.live = {} /\ DOMAIN mem'.heap = Buffers /\ mem'.fault # "free"
    BY <1>1, <1>2 DEF IInv, Owned, Shaped
  <2> QED BY <2>1, FreshOwned
<1> QED BY <1>3 DEF IInv, Idle, Vars

(* run() initializes temporaries which own nothing.                        *)
LEMMA RunKeeps == ASSUME IInv, Run PROVE IInv'
<1> DEFINE e == EmptyString("")
<1>1. /\ DOMAIN e = {"name", "size", "at", "bytes", "allocated"}
      /\ WellFormed(e) /\ ~e.allocated
  BY WordAssumption, AddressAssumption DEF EmptyString, WellFormed, IsInline
<1> HIDE DEF e
<1>2. mem' = [mem EXCEPT !.var = [v \in Vars |-> IF v \in Temps THEN e ELSE mem.var[v]]]
  BY DEF Run, e
<1>3. /\ DOMAIN mem' = {"var", "live", "heap", "fault"}
      /\ mem'.live = mem.live /\ mem'.heap = mem.heap /\ mem'.fault = mem.fault
      /\ DOMAIN mem'.var = Vars
      /\ \A v \in Vars : mem'.var[v] = IF v \in Temps THEN e ELSE mem.var[v]
  BY <1>2 DEF IInv, Owned, Shaped
<1>4. \A v \in Vars : /\ mem.var[v].allocated => v \notin Temps
                      /\ mem'.var[v].allocated => v \notin Temps
  BY <1>1, <1>3 DEF IInv, Idle, Run
<1>5. Shaped(mem') BY <1>1, <1>3 DEF IInv, Owned, Shaped
<1>6. \A v \in Vars : WellFormed(mem'.var[v]) BY <1>1, <1>3 DEF IInv, Owned
<1>7. \A v \in Vars : mem'.var[v].allocated => mem'.var[v] = mem.var[v] BY <1>3, <1>4
<1>8. \A b \in mem'.live \ {} :
         \E v \in Vars : /\ mem'.var[v].allocated /\ mem'.var[v].at = b
                         /\ mem'.var[v].size = Len(mem'.heap[b])
  <2> TAKE b \in mem'.live \ {}
  <2>1. PICK v \in Vars : /\ mem.var[v].allocated /\ mem.var[v].at = b
                          /\ mem.var[v].size = Len(mem.heap[b])
    BY <1>3 DEF IInv, Owned
  <2>2. mem'.var[v] = mem.var[v] BY <1>3, <1>4, <2>1
  <2> QED BY <1>3, <2>1, <2>2
<1>9. Owned(mem', {}) BY <1>3, <1>5, <1>6, <1>7, <1>8 DEF IInv, Owned
<1>10. Idle'
  <2>1. phase' = "running" BY DEF Run
  <2>2. \A c \in DOMAIN Consts : c \in Vars BY DEF Vars
  <2> QED BY <1>7, <2>1, <2>2 DEF IInv, Idle
<1> QED BY <1>9, <1>10 DEF IInv

(* The code frees its temporaries at its end; every other buffer keeps its *)
(* owner.                                                                  *)
LEMMA ReturnKeeps == ASSUME IInv, Return PROVE IInv'
<1> DEFINE e == EmptyString("")
           owned == {mem.var[t].at : t \in {u \in Temps : mem.var[u].allocated}}
<1>1. /\ DOMAIN e = {"name", "size", "at", "bytes", "allocated"}
      /\ WellFormed(e) /\ ~e.allocated
  BY WordAssumption, AddressAssumption DEF EmptyString, WellFormed, IsInline
<1>2. \A b : b \in owned <=> \E t \in Temps : mem.var[t].allocated /\ mem.var[t].at = b
  OBVIOUS
<1>3. mem' = [mem EXCEPT !.live = @ \ owned,
                         !.heap = [b \in Buffers |-> IF b \in owned THEN <<>> ELSE mem.heap[b]],
                         !.var = [v \in Vars |-> IF v \in Temps THEN e ELSE mem.var[v]]]
  BY DEF Return
<1> HIDE DEF e, owned
<1>4. /\ DOMAIN mem' = {"var", "live", "heap", "fault"}
      /\ mem'.live = mem.live \ owned /\ mem'.fault = mem.fault
      /\ DOMAIN mem'.heap = Buffers
      /\ \A b \in Buffers \ owned : mem'.heap[b] = mem.heap[b]
      /\ DOMAIN mem'.var = Vars
      /\ \A v \in Vars : mem'.var[v] = IF v \in Temps THEN e ELSE mem.var[v]
  BY <1>3 DEF IInv, Owned, Shaped
<1>5. Temps \subseteq Vars BY DEF Vars
<1>6. \A v \in Vars : mem'.var[v].allocated => /\ v \notin Temps
                                               /\ mem'.var[v] = mem.var[v]
                                               /\ mem'.var[v].at \in mem'.live
  <2> TAKE v \in Vars
  <2> HAVE mem'.var[v].allocated
  <2>1. v \notin Temps /\ mem'.var[v] = mem.var[v] BY <1>1, <1>4
  <2>2. mem.var[v].at \in mem.live BY <2>1 DEF IInv, Owned
  <2>3. mem.var[v].at \notin owned BY <1>2, <1>5, <2>1 DEF IInv, Owned
  <2> QED BY <1>4, <2>1, <2>2, <2>3
<1>7. Shaped(mem') BY <1>1, <1>4 DEF IInv, Owned, Shaped
<1>8. \A v \in Vars : WellFormed(mem'.var[v]) BY <1>1, <1>4 DEF IInv, Owned
<1>9. \A b \in mem'.live \ {} :
         \E v \in Vars : /\ mem'.var[v].allocated /\ mem'.var[v].at = b
                         /\ mem'.var[v].size = Len(mem'.heap[b])
  <2> TAKE b \in mem'.live \ {}
  <2>1. b \in mem.live \ {} /\ b \notin owned /\ b \in Buffers BY <1>4 DEF IInv, Owned
  <2>2. PICK v \in Vars : /\ mem.var[v].allocated /\ mem.var[v].at = b
                          /\ mem.var[v].size = Len(mem.heap[b])
    BY <2>1 DEF IInv, Owned
  <2>3. v \notin Temps BY <1>2, <2>1, <2>2
  <2> QED BY <1>4, <2>1, <2>2, <2>3
<1>10. Owned(mem', {})
  <2>1. mem'.live \subseteq Buffers /\ mem'.fault # "free" BY <1>4 DEF IInv, Owned
  <2>2. \A v, w \in Vars : mem'.var[v].allocated /\ mem'.var[w].allocated
                              /\ mem'.var[v].at = mem'.var[w].at => v = w
    <3>1. \A v, w \in Vars : mem.var[v].allocated /\ mem.var[w].allocated
                                /\ mem.var[v].at = mem.var[w].at => v = w
      BY DEF IInv, Owned
    <3> QED BY <1>6, <3>1
  <2>3. \A v \in Vars : mem'.var[v].allocated => mem'.var[v].at \in mem'.live \ {} BY <1>6
  <2> QED BY <1>7, <1>8, <1>9, <2>1, <2>2, <2>3 DEF Owned
<1>11. Idle'
  <2>1. phase' = "loaded" BY DEF Return
  <2>2. \A c \in DOMAIN Consts : c \in Vars BY DEF Vars
  <2>3. \A c \in DOMAIN Consts : ~mem'.var[c].allocated BY <1>6, <2>2 DEF IInv, Idle
  <2>4. \A t \in Temps : ~mem'.var[t].allocated BY <1>5, <1>6
  <2> QED BY <2>1, <2>3, <2>4 DEF Idle
<1> QED BY <1>10, <1>11 DEF IInv

(* One step per action.                                                    *)
LEMMA StepOwned == IInv /\ [Next]_vars => IInv'
<1> SUFFICES ASSUME IInv, [Next]_vars PROVE IInv' OBVIOUS
<1>1. CASE Load BY <1>1, LoadKeeps
<1>2. CASE \E name \in Externs, text \in Inputs : SetVariable(name, text)
  BY <1>2, SetVariableKeeps
<1>3. CASE Clean BY <1>3, CleanKeeps
<1>4. CASE Run BY <1>4, RunKeeps
<1>5. CASE Operation BY <1>5, OperationKeeps
<1>6. CASE Return BY <1>6, ReturnKeeps
<1>7. CASE Restart BY <1>7, NewProcessKeeps DEF Restart
<1>8. CASE UNCHANGED vars BY <1>8 DEF vars, IInv, Owned, Shaped, Idle
<1> QED BY <1>1, <1>2, <1>3, <1>4, <1>5, <1>6, <1>7, <1>8 DEF Next

LEMMA OwnedOwnership == IInv => Ownership
<1> SUFFICES ASSUME IInv PROVE Ownership OBVIOUS
<1>1. mem.fault # "free" /\ \A v \in Vars : WellFormed(mem.var[v]) BY DEF IInv, Owned
<1>2. ASSUME NEW b \in Buffers, b \notin mem.live, NEW v \in Vars PROVE mem.var[v].at # b
  <2>1. mem.var[v].allocated => mem.var[v].at \in mem.live BY DEF IInv, Owned
  <2>2. WellFormed(mem.var[v]) BY <1>1
  <2> QED BY <1>2, <2>1, <2>2, AddressAssumption DEF WellFormed
<1>3. ASSUME NEW b \in Buffers, b \in mem.live
      PROVE  \E v \in Vars : Owners(b) = {v} /\ mem.var[v].size = Len(mem.heap[b])
  <2>1. PICK v \in Vars : /\ mem.var[v].allocated /\ mem.var[v].at = b
                          /\ mem.var[v].size = Len(mem.heap[b])
    BY <1>3 DEF IInv, Owned
  <2>2. Owners(b) = {v} BY <2>1 DEF IInv, Owned, Owners
  <2> QED BY <2>1, <2>2
<1> QED BY <1>1, <1>2, <1>3 DEF Ownership

(* Whatever a script does with its strings, and its host with the script:  *)
(* no buffer is leaked, shared, used after its free or freed twice         *)
(* (strings_free(), binary.cpp:294; clean(), the end of a run).            *)
THEOREM OwnershipAlways == Spec => []Ownership
<1>1. Init => IInv BY InitOwned
<1>2. IInv /\ [Next]_vars => IInv' BY StepOwned
<1>3. IInv => Ownership BY OwnedOwnership
<1> QED BY <1>1, <1>2, <1>3, PTL DEF Spec

(***************************************************************************)
(* What the operations compute are texts.                                  *)
(***************************************************************************)
LEMMA SubText ==
    ASSUME NEW s \in Seq(Nat), NEW a \in Int, NEW b \in Int, a >= 1, b <= Len(s)
    PROVE  SubSeq(s, a, b) \in Seq(Nat)
<1>1. \A i \in a..b : s[i] \in Nat BY ElementOfSeq
<1> QED BY <1>1, SubSeqProperties

LEMMA PrefixFrom ==
    ASSUME NEW s \in Seq(Nat), NEW n \in Nat
    PROVE  /\ From(s, n) \in Seq(Nat)
           /\ n <= Len(s) => Prefix(s, n) \in Seq(Nat)
           /\ Prefix(s, Len(s)) = s
           /\ Prefix(s, 0) = <<>>
<1>1. From(s, n) \in Seq(Nat) BY SubText DEF From
<1>2. n <= Len(s) => Prefix(s, n) \in Seq(Nat) BY SubText DEF Prefix
<1>3. Prefix(s, Len(s)) = s BY SubSeqFull DEF Prefix
<1>4. Prefix(s, 0) = <<>> BY SubSeqEmpty DEF Prefix
<1> QED BY <1>1, <1>2, <1>3, <1>4

LEMMA RepeatText == ASSUME NEW s \in Seq(Nat), NEW n \in Nat PROVE Repeat(s, n) \in Seq(Nat)
<1>1. [i \in 1..n |-> s] \in Seq(Seq(Nat)) BY IsASeq
<1> QED BY <1>1, FlattenTyped DEF Repeat

LEMMA CaseText ==
    ASSUME NEW s \in Seq(Nat)
    PROVE  /\ FlipCaseOf(s) \in Seq(Nat)
           /\ ToLowercaseOf(s) \in Seq(Nat)
           /\ ToUppercaseOf(s) \in Seq(Nat)
<1>1. \A c \in Nat : Flip(c) \in Nat /\ Lower(c) \in Nat /\ Upper(c) \in Nat
  BY DEF Flip, Lower, Upper
<1>2. Len(s) \in Nat /\ \A i \in 1..Len(s) : s[i] \in Nat BY ElementOfSeq
<1>3. \A i \in 1..Len(s) : Flip(s[i]) \in Nat /\ Lower(s[i]) \in Nat /\ Upper(s[i]) \in Nat
  BY <1>1, <1>2
<1> QED BY <1>2, <1>3, IsASeq DEF FlipCaseOf, ToLowercaseOf, ToUppercaseOf

LEMMA IndexText ==
    ASSUME NEW s \in Seq(Nat), NEW n \in Int
    PROVE  AtOf(s, n) \in Seq(Nat) /\ CharAtOf(s, n) \in Seq(Nat)
<1>1. Len(s) \in Nat /\ \A i \in 1..Len(s) : s[i] \in Nat BY ElementOfSeq
<1>2. NoChar \in Seq(Nat) /\ \A c \in Nat : <<c>> \in Seq(Nat) BY EmptySeq DEF NoChar
<1>3. AtOf(s, n) \in Seq(Nat) BY <1>1, <1>2 DEF AtOf
<1>4. n \in 0..Len(s) - 1 => n + 1 \in 1..Len(s) BY <1>1
<1>5. CharAtOf(s, n) \in Seq(Nat) BY <1>1, <1>2, <1>4 DEF CharAtOf
<1> QED BY <1>3, <1>5

LEMMA SubstrText ==
    ASSUME NEW s \in Seq(Nat), NEW m \in Int, NEW n \in Int
    PROVE  SubstrOf(s, m, n) \in Seq(Nat)
<1>1. \A a, b \in Int : SubstrOf(s, a, b) \in Seq(Nat)
  <2> TAKE a, b \in Int
  <2>1. CASE a > b \/ a < 0 \/ b < 0 BY <2>1, EmptySeq DEF SubstrOf
  <2>2. CASE ~(a > b \/ a < 0 \/ b < 0)
    <3>1. /\ Least(a, Len(s)) + 1 \in Int /\ Least(b, Len(s)) \in Int
          /\ Least(a, Len(s)) + 1 >= 1 /\ Least(b, Len(s)) <= Len(s)
      BY <2>2 DEF Least
    <3> QED BY <2>2, <3>1, SubText DEF SubstrOf
  <2> QED BY <2>1, <2>2
<1> QED BY <1>1

LEMMA JoinText ==
    ASSUME NEW s \in Seq(Nat), NEW t \in Seq(Nat)
    PROVE  /\ ConcatOf(<<s, t>>) = s \o t
           /\ s \o t \in Seq(Nat)
           /\ UnconcatOf(s, t) \in Seq(Nat)
           /\ \A k : MinMaxOf(s, t, k) \in {s, t}
<1>1. ConcatOf(<<s, t>>) = s \o t BY FlattenTwo DEF ConcatOf
<1>2. s \o t \in Seq(Nat) BY ConcatProperties
<1>3. UnconcatOf(s, t) \in Seq(Nat)
  <2>1. Len(s) >= Len(t) => Len(s) - Len(t) \in Nat /\ Len(s) - Len(t) <= Len(s) OBVIOUS
  <2> QED BY <2>1, PrefixFrom DEF UnconcatOf
<1>4. \A k : MinMaxOf(s, t, k) \in {s, t} BY DEF MinMaxOf
<1> QED BY <1>1, <1>2, <1>3, <1>4

LEMMA ShiftText ==
    ASSUME NEW s \in Seq(Nat), s # <<>>, NEW count \in Int, NEW op \in DOMAIN Opposite
    PROVE  ShiftOf(s, count, op) \in Seq(Nat)
<1>1. PICK n, by : /\ n = IF count < 0 THEN -count ELSE count
                   /\ by = n % Len(s)
  OBVIOUS
<1>2. n \in Nat /\ Len(s) \in Nat \ {0} BY <1>1, EmptySeq
<1>3. by \in Nat /\ by < Len(s) BY <1>1, <1>2
<1>4. \A k \in Nat : k <= Len(s) => RotateOf(s, k) \in Seq(Nat)
  BY PrefixFrom, ConcatProperties DEF RotateOf
<1>5. RotateOf(s, by) \in Seq(Nat) /\ RotateOf(s, IF by > 0 THEN Len(s) - by ELSE by) \in Seq(Nat)
  <2>1. (IF by > 0 THEN Len(s) - by ELSE by) \in Nat
        /\ (IF by > 0 THEN Len(s) - by ELSE by) <= Len(s)
    BY <1>2, <1>3
  <2> QED BY <1>3, <1>4, <2>1
<1>6. s \o Repeat(<<Space>>, n % 64) \in Seq(Nat)
  <2>1. n % 64 \in Nat BY <1>2
  <2>2. <<Space>> \in Seq(Nat) BY DEF Space
  <2> QED BY <2>1, <2>2, RepeatText, ConcatProperties
<1>7. (IF n < Len(s) THEN Prefix(s, Len(s) - n) ELSE <<>>) \in Seq(Nat)
  <2>1. n < Len(s) => Len(s) - n \in Nat /\ Len(s) - n <= Len(s) BY <1>2
  <2> QED BY <2>1, PrefixFrom, EmptySeq
<1>8. PICK turned : turned = IF count < 0 THEN Opposite[op] ELSE op OBVIOUS
<1>9. ShiftOf(s, count, op) =
        CASE turned = "rotate_left"  -> RotateOf(s, by)
          [] turned = "rotate_right" -> RotateOf(s, IF by > 0 THEN Len(s) - by ELSE by)
          [] turned = "shift_left"   -> s \o Repeat(<<Space>>, n % 64)
          [] OTHER                   -> IF n < Len(s) THEN Prefix(s, Len(s) - n) ELSE <<>>
  BY <1>1, <1>8, Zenon DEF ShiftOf
<1> QED BY <1>5, <1>6, <1>7, <1>9

LEMMA TrimText ==
    ASSUME NEW s \in Seq(Nat), NEW start, NEW end
    PROVE  TrimOf(s, start, end) \in Seq(Nat)
<1> DEFINE seen  == {i \in 1..Len(s) : ~IsWhiteSpace(s[i])}
           first == IF start THEN Min(seen) ELSE 1
           last  == IF end THEN Max(seen) ELSE Len(s)
<1>1. CASE seen = {} BY <1>1, EmptySeq DEF TrimOf
<1>2. CASE seen # {}
  <2>1. first \in 1..Len(s) /\ last \in 1..Len(s)
    <3>1. Len(s) \in Nat /\ Len(s) \in 1..Len(s) /\ 1 \in 1..Len(s) BY <1>2
    <3>2. Min(seen) \in seen /\ Max(seen) \in seen BY <1>2, <3>1, Extremes
    <3> QED BY <3>1, <3>2
  <2>2. SubSeq(s, first, last) \in Seq(Nat)
    <3> HIDE DEF first, last
    <3> QED BY <2>1, SubText
  <2> QED BY <1>2, <2>2, Zenon DEF TrimOf
<1> QED BY <1>1, <1>2

(***************************************************************************)
(* The $ patterns of a replacement, and the replacement of one or of all    *)
(* the places where the text searched is found: two recursive functions,   *)
(* which Recursion shows to be defined and to give texts.                  *)
(***************************************************************************)
LEMMA PatternText ==
    ASSUME NEW s \in Seq(Nat), NEW search \in Seq(Nat), NEW idx \in Nat, idx <= Len(s),
           NEW c \in {Dollar, 38, 96, 39}
    PROVE  Pattern(s, search, idx, c) \in Seq(Nat)
<1>1. <<Dollar>> \in Seq(Nat) BY DEF Dollar
<1>2. Prefix(s, idx) \in Seq(Nat) BY PrefixFrom
<1>3. idx + Len(search) \in Nat OBVIOUS
<1>4. From(s, idx + Len(search)) \in Seq(Nat) BY <1>3, PrefixFrom
<1> QED BY <1>1, <1>2, <1>4 DEF Pattern, Dollar

LEMMA ExpansionText ==
    ASSUME NEW s \in Seq(Nat), NEW search \in Seq(Nat), NEW replace \in Seq(Nat),
           NEW idx \in Nat, idx <= Len(s)
    PROVE  Expansion(s, search, replace, idx) \in Seq(Nat)
<1> DEFINE n == Len(replace)
           D == 1..n + 2
           V == Seq(Nat)
           P(j) == Pattern(s, search, idx, replace[j + 1])
           Choice(j, x, y) ==
            CASE j > n                          -> <<>>
              [] j <= n /\ replace[j] # Dollar  -> <<replace[j]>> \o x
              [] j = n /\ replace[j] = Dollar   -> <<Dollar>>
              [] j < n /\ replace[j] = Dollar
                  /\ replace[j + 1] \in {Dollar, 38, 96, 39}
                                                -> P(j) \o y
              [] OTHER                          -> <<Dollar>> \o x
           value(j, f) == Choice(j, f[j + 1], f[j + 2])
           E(f) == [j \in D |-> value(j, f)]
           step == [j \in D |-> [f \in [D -> V] |-> value(j, f)]]
           rank == [j \in D |-> n + 2 - j]
           expand == CHOOSE f : f = E(f)
<1>0. PICK k \in Nat : k = n BY LenProperties
<1>1. \A j \in D : /\ j \in Nat /\ rank[j] \in Nat /\ rank[j] <= k + 2
                   /\ j <= n => /\ <<replace[j]>> \in V
                                /\ j + 1 \in D /\ j + 2 \in D
                                /\ rank[j + 1] < rank[j] /\ rank[j + 2] < rank[j]
  <2>1. \A j \in 1..n : replace[j] \in Nat BY ElementOfSeq
  <2> QED BY <1>0, <2>1
<1>2. \A j \in D : j < n /\ replace[j + 1] \in {Dollar, 38, 96, 39} => P(j) \in V
  <2> SUFFICES ASSUME NEW j \in D, replace[j + 1] \in {Dollar, 38, 96, 39} PROVE P(j) \in V
    OBVIOUS
  <2>1. \A c \in {Dollar, 38, 96, 39} : Pattern(s, search, idx, c) \in Seq(Nat)
    BY PatternText
  <2> QED BY <2>1
<1>3. <<Dollar>> \in V /\ <<>> \in V BY EmptySeq DEF Dollar
<1>4. \A x, y \in V : x \o y \in V BY ConcatProperties
<1>5. \A j \in D : \A f : (\A i \in D : rank[i] < rank[j] => f[i] \in V) => value(j, f) \in V
  <2> SUFFICES ASSUME NEW j \in D, NEW f, \A i \in D : rank[i] < rank[j] => f[i] \in V
               PROVE  value(j, f) \in V
    OBVIOUS
  <2>1. j <= n => f[j + 1] \in V /\ f[j + 2] \in V BY <1>1
  <2>2. j \in Nat /\ k \in Nat BY <1>0, <1>1
  <2>3. CASE j > n
    <3>1. ~(j <= n) /\ ~(j = n) /\ ~(j < n) BY <1>0, <2>2, <2>3
    <3>2. value(j, f) = <<>>
      <4> HIDE DEF P, D, V, n
      <4> QED BY <2>3, <3>1, Zenon
    <3> QED BY <1>3, <3>2
  <2>4. CASE j <= n /\ replace[j] # Dollar
    <3>1. <<replace[j]>> \o f[j + 1] \in V BY <1>1, <1>4, <2>1, <2>4
    <3>2. ~(j > n) BY <1>0, <2>2, <2>4
    <3>3. value(j, f) = <<replace[j]>> \o f[j + 1]
      <4> HIDE DEF P, D, V, n
      <4> QED BY <2>4, <3>2, Zenon
    <3> QED BY <3>1, <3>3
  <2>5. CASE j = n /\ replace[j] = Dollar
    <3>1. ~(j > n) /\ ~(j < n) BY <1>0, <2>2, <2>5
    <3>2. value(j, f) = <<Dollar>>
      <4> HIDE DEF P, D, V, n
      <4> QED BY <2>5, <3>1, Zenon
    <3> QED BY <1>3, <3>2
  <2>6. CASE j < n /\ replace[j] = Dollar /\ replace[j + 1] \in {Dollar, 38, 96, 39}
    <3>1. j <= n /\ ~(j > n) /\ ~(j = n) BY <1>0, <2>2, <2>6
    <3>2. P(j) \o f[j + 2] \in V BY <1>2, <1>4, <2>1, <2>6, <3>1
    <3>3. value(j, f) = P(j) \o f[j + 2]
      <4> HIDE DEF P, D, V, n
      <4> QED BY <2>6, <3>1, Zenon
    <3> QED BY <3>2, <3>3
  <2>7. CASE j < n /\ replace[j] = Dollar /\ replace[j + 1] \notin {Dollar, 38, 96, 39}
    <3>1. j <= n /\ ~(j > n) /\ ~(j = n) BY <1>0, <2>2, <2>7
    <3>2. <<Dollar>> \o f[j + 1] \in V BY <1>3, <1>4, <2>1, <3>1
    <3>3. value(j, f) = <<Dollar>> \o f[j + 1]
      <4> HIDE DEF P, D, V, n
      <4> QED BY <2>7, <3>1, Zenon
    <3> QED BY <3>2, <3>3
  <2>8. \/ j > n
        \/ j <= n /\ replace[j] # Dollar
        \/ j = n /\ replace[j] = Dollar
        \/ j < n /\ replace[j] = Dollar
    BY <1>0, <2>2
  <2> HIDE DEF value
  <2> QED BY <2>3, <2>4, <2>5, <2>6, <2>7, <2>8
<1>6. \A j \in D, f \in [D -> V] : value(j, f) \in V
  <2> HIDE DEF value, D, V, rank
  <2> QED BY <1>5
<1>7. step \in [D -> [[D -> V] -> V]]
  <2> HIDE DEF value, D, V
  <2> QED BY <1>6
<1>8. \A j \in D, g, h \in [D -> V] :
          (\A i \in D : rank[i] < rank[j] => g[i] = h[i]) => value(j, g) = value(j, h)
  <2> SUFFICES ASSUME NEW j \in D, NEW g \in [D -> V], NEW h \in [D -> V],
                      \A i \in D : rank[i] < rank[j] => g[i] = h[i]
               PROVE  value(j, g) = value(j, h)
    <3> HIDE DEF value, D, rank, V
    <3> QED OBVIOUS
  <2>1. CASE j <= n
    <3>1. g[j + 1] = h[j + 1] /\ g[j + 2] = h[j + 2] BY <1>1, <2>1
    <3> HIDE DEF Choice
    <3> QED BY <3>1
  <2>2. CASE j > n
    <3>1. ~(j <= n) /\ ~(j = n) /\ ~(j < n) BY <1>0, <1>1, <2>2
    <3>2. \A x, y : Choice(j, x, y) = <<>>
      <4> HIDE DEF P, D, V, n
      <4> QED BY <2>2, <3>1, Zenon
    <3> HIDE DEF Choice
    <3> QED BY <3>2
  <2>3. j > n \/ j <= n BY <1>0, <1>1
  <2> HIDE DEF value
  <2> QED BY <2>1, <2>2, <2>3
<1>9. FromLower(D, [D -> V], rank, step)
  <2>1. \A j \in D, g \in [D -> V] : step[j][g] = value(j, g) OBVIOUS
  <2> HIDE DEF step, value, D, V, rank
  <2> SUFFICES ASSUME NEW j \in D, NEW g \in [D -> V], NEW h \in [D -> V],
                      \A i \in D : rank[i] < rank[j] => g[i] = h[i]
               PROVE  step[j][g] = step[j][h]
    BY DEF FromLower
  <2>2. value(j, g) = value(j, h) BY <1>8
  <2> QED BY <2>1, <2>2
<1>10. \E f \in [D -> V] : Solves(f, D, step)
  <2>1. rank \in [D -> Nat] /\ \A j \in D : rank[j] <= k + 2 BY <1>1
  <2>2. k + 2 \in Nat OBVIOUS
  <2> HIDE DEF step, rank, D, V
  <2> QED BY <1>3, <1>7, <1>9, <2>1, <2>2, RecursionExists
<1>11. expand = E(expand)
  <2>1. \A j \in D, g \in [D -> V] : step[j][g] = value(j, g) OBVIOUS
  <2> HIDE DEF step, value, D, V, rank
  <2>2. PICK g \in [D -> V] : \A j \in D : g[j] = value(j, g) BY <1>10, <2>1 DEF Solves
  <2>3. g = E(g) BY <2>2
  <2> HIDE DEF E
  <2> QED BY <2>3
<1>12. \A j \in D : expand[j] = value(j, expand)
  <2> HIDE DEF expand, value
  <2> QED BY <1>11
<1>13. D \subseteq {j \in D : expand[j] \in V}
  <2> DEFINE S == {j \in D : expand[j] \in V}
  <2> HIDE DEF expand, value, V
  <2>1. rank \in [D -> Nat] BY <1>1
  <2> HIDE DEF rank, D
  <2>2. ASSUME NEW j \in D, \A i \in D : rank[i] < rank[j] => i \in S PROVE j \in S
    BY <1>5, <1>12, <2>2
  <2> HIDE DEF S
  <2>3. D \subseteq S BY <2>1, <2>2, RankInduction
  <2> QED BY <2>3 DEF S
<1>14. 1 \in D BY <1>0
<1>15. Expansion(s, search, replace, idx) = expand[1] BY Zenon DEF Expansion
<1> QED BY <1>13, <1>14, <1>15

LEMMA ReplaceText ==
    ASSUME NEW s \in Seq(Nat), NEW search \in Seq(Nat), NEW replace \in Seq(Nat),
           NEW forAll
    PROVE  ReplaceOf(s, search, replace, forAll) \in Seq(Nat)
<1> DEFINE n == Len(s)
           all == forAll /\ search # <<>>
           last == n - Len(search)
           D == 0..n + 1
           V == Seq(Nat)
           X(j) == Expansion(s, search, replace, j)
           F(j) == From(s, j + Len(search))
           Choice(j, x) ==
            CASE j > last                              -> <<>>
              [] j <= last /\ ~MatchesAt(s, search, j) -> <<s[j + 1]>> \o x
              [] OTHER -> X(j) \o (IF all THEN x ELSE F(j))
           value(j, f) == Choice(j, f[j + 1])
           E(f) == [j \in D |-> value(j, f)]
           step == [j \in D |-> [f \in [D -> V] |-> value(j, f)]]
           rank == [j \in D |-> n + 1 - j]
           copy == CHOOSE f : f = E(f)
<1>0. PICK k \in Nat : k = n BY LenProperties
<1>1. \A j \in D : /\ j \in Nat /\ rank[j] \in Nat /\ rank[j] <= k + 1
                   /\ j <= last => j <= n /\ j + 1 \in D /\ rank[j + 1] < rank[j]
  BY <1>0
<1>2. \A j \in D : j <= last /\ ~MatchesAt(s, search, j) => <<s[j + 1]>> \in V
  <2> SUFFICES ASSUME NEW j \in D, j <= last, ~MatchesAt(s, search, j) PROVE <<s[j + 1]>> \in V
    OBVIOUS
  <2>1. \A i \in 1..n : s[i] \in Nat BY ElementOfSeq
  <2>2. search # <<>>
    <3> SUFFICES ASSUME search = <<>> PROVE MatchesAt(s, search, j) OBVIOUS
    <3>1. From(s, j) \in Seq(Nat) BY <1>1, PrefixFrom
    <3>2. Len(search) = 0 /\ Len(From(s, j)) >= 0 BY <3>1, EmptySeq
    <3>3. SubSeq(search, 1, 0) = <<>> /\ SubSeq(From(s, j), 1, 0) = <<>> BY <3>1, SubSeqEmpty
    <3> QED BY <3>2, <3>3 DEF MatchesAt, IsPrefix
  <2>3. Len(search) >= 1 BY <2>2, EmptySeq
  <2>4. j + 1 \in 1..n BY <1>0, <1>1, <2>3
  <2>5. s[j + 1] \in Nat BY <2>1, <2>4
  <2> QED BY <2>5
<1>3. \A j \in D : j <= last => X(j) \in V /\ F(j) \in V
  <2> SUFFICES ASSUME NEW j \in D, j <= last PROVE X(j) \in V /\ F(j) \in V
    OBVIOUS
  <2>1. \A i \in Nat : i <= n => Expansion(s, search, replace, i) \in Seq(Nat)
    BY ExpansionText
  <2>2. j + Len(search) \in Nat BY <1>1
  <2>3. From(s, j + Len(search)) \in Seq(Nat) BY <2>2, PrefixFrom
  <2> QED BY <1>1, <2>1, <2>3
<1>4. <<>> \in V /\ \A x, y \in V : x \o y \in V BY EmptySeq, ConcatProperties
<1>5. \A j \in D : \A f : (\A i \in D : rank[i] < rank[j] => f[i] \in V) => value(j, f) \in V
  <2> SUFFICES ASSUME NEW j \in D, NEW f, \A i \in D : rank[i] < rank[j] => f[i] \in V
               PROVE  value(j, f) \in V
    OBVIOUS
  <2>1. j <= last => f[j + 1] \in V BY <1>1
  <2>2. CASE ~(j <= last)
    <3>1. j > last BY <1>0, <2>2
    <3>2. value(j, f) = <<>>
      <4> HIDE DEF D, V, last, X, F, all, n
      <4> QED BY <2>2, <3>1, Zenon
    <3> QED BY <1>4, <3>2
  <2>3. CASE j <= last /\ ~MatchesAt(s, search, j)
    <3>1. ~(j > last) BY <1>0, <2>3
    <3>2. <<s[j + 1]>> \o f[j + 1] \in V BY <1>2, <1>4, <2>1, <2>3
    <3>3. value(j, f) = <<s[j + 1]>> \o f[j + 1]
      <4> HIDE DEF D, V, last, X, F, all, n
      <4> QED BY <2>3, <3>1, Zenon
    <3> QED BY <3>2, <3>3
  <2>4. CASE j <= last /\ MatchesAt(s, search, j)
    <3>1. ~(j > last) BY <1>0, <2>4
    <3>2. X(j) \o (IF all THEN f[j + 1] ELSE F(j)) \in V
      <4>1. X(j) \in V /\ F(j) \in V /\ f[j + 1] \in V BY <1>3, <2>1, <2>4
      <4> HIDE DEF X, F, all, V
      <4>2. (IF all THEN f[j + 1] ELSE F(j)) \in V BY <4>1
      <4> QED BY <1>4, <4>1, <4>2
    <3>3. value(j, f) = X(j) \o (IF all THEN f[j + 1] ELSE F(j))
      <4> HIDE DEF D, V, last, X, F, all, n
      <4> QED BY <2>4, <3>1, Zenon
    <3> QED BY <3>2, <3>3
  <2> HIDE DEF value
  <2> QED BY <2>2, <2>3, <2>4
<1>6. \A j \in D, f \in [D -> V] : value(j, f) \in V
  <2> HIDE DEF value, D, V, rank
  <2> QED BY <1>5
<1>7. step \in [D -> [[D -> V] -> V]]
  <2> HIDE DEF value, D, V
  <2> QED BY <1>6
<1>8. \A j \in D, g, h \in [D -> V] :
          (\A i \in D : rank[i] < rank[j] => g[i] = h[i]) => value(j, g) = value(j, h)
  <2> SUFFICES ASSUME NEW j \in D, NEW g \in [D -> V], NEW h \in [D -> V],
                      \A i \in D : rank[i] < rank[j] => g[i] = h[i]
               PROVE  value(j, g) = value(j, h)
    <3> HIDE DEF value, D, rank, V
    <3> QED OBVIOUS
  <2>1. CASE j <= last
    <3>1. g[j + 1] = h[j + 1] BY <1>1, <2>1
    <3> HIDE DEF Choice
    <3> QED BY <3>1
  <2>2. CASE ~(j <= last)
    <3>1. j > last BY <1>0, <2>2
    <3>2. \A x : Choice(j, x) = <<>>
      <4> HIDE DEF D, V, last, X, F, all, n
      <4> QED BY <2>2, <3>1, Zenon
    <3> HIDE DEF Choice
    <3> QED BY <3>2
  <2> HIDE DEF value
  <2> QED BY <2>1, <2>2
<1>9. FromLower(D, [D -> V], rank, step)
  <2>1. \A j \in D, g \in [D -> V] : step[j][g] = value(j, g) OBVIOUS
  <2> HIDE DEF step, value, D, V, rank
  <2> SUFFICES ASSUME NEW j \in D, NEW g \in [D -> V], NEW h \in [D -> V],
                      \A i \in D : rank[i] < rank[j] => g[i] = h[i]
               PROVE  step[j][g] = step[j][h]
    BY DEF FromLower
  <2>2. value(j, g) = value(j, h) BY <1>8
  <2> QED BY <2>1, <2>2
<1>10. \E f \in [D -> V] : Solves(f, D, step)
  <2>1. rank \in [D -> Nat] /\ \A j \in D : rank[j] <= k + 1 BY <1>1
  <2>2. k + 1 \in Nat OBVIOUS
  <2> HIDE DEF step, rank, D, V
  <2> QED BY <1>4, <1>7, <1>9, <2>1, <2>2, RecursionExists
<1>11. copy = E(copy)
  <2>1. \A j \in D, g \in [D -> V] : step[j][g] = value(j, g) OBVIOUS
  <2> HIDE DEF step, value, D, V, rank
  <2>2. PICK g \in [D -> V] : \A j \in D : g[j] = value(j, g) BY <1>10, <2>1 DEF Solves
  <2>3. g = E(g) BY <2>2
  <2> HIDE DEF E
  <2> QED BY <2>3
<1>12. \A j \in D : copy[j] = value(j, copy)
  <2> HIDE DEF copy, value
  <2> QED BY <1>11
<1>13. D \subseteq {j \in D : copy[j] \in V}
  <2> DEFINE S == {j \in D : copy[j] \in V}
  <2> HIDE DEF copy, value, V
  <2>1. rank \in [D -> Nat] BY <1>1
  <2> HIDE DEF rank, D
  <2>2. ASSUME NEW j \in D, \A i \in D : rank[i] < rank[j] => i \in S PROVE j \in S
    BY <1>5, <1>12, <2>2
  <2> HIDE DEF S
  <2>3. D \subseteq S BY <2>1, <2>2, RankInduction
  <2> QED BY <2>3 DEF S
<1>14. 0 \in D BY <1>0
<1>15. ReplaceOf(s, search, replace, forAll) = copy[0] BY Zenon DEF ReplaceOf
<1> QED BY <1>13, <1>14, <1>15

(***************************************************************************)
(* The text of a variable, from its fields and the heap.                   *)
(***************************************************************************)
TextIn(heap, x) ==
    CASE IsInline(x)                      -> Prefix(x.bytes, x.size)
      [] ~IsInline(x) /\ x.at \in Buffers -> heap[x.at]
      [] OTHER                            -> Literals[x.at]

Typed(x) == IsInline(x) => x.bytes \in Seq(Nat) /\ Len(x.bytes) = x.size
AllTyped(m) == \A v \in Vars : Typed(m.var[v])

Kept(m, n, d) == \A v \in Vars \ {d} : Text(n, v) = Text(m, v)

LEMMA EmptyTyped ==
    ASSUME NEW name, NEW h
    PROVE  Typed(EmptyString(name)) /\ TextIn(h, EmptyString(name)) = <<>>
<1>1. IsInline(EmptyString(name)) BY WordAssumption DEF EmptyString, IsInline
<1>2. <<>> \in Seq(Nat) /\ Len(<<>>) = 0 OBVIOUS
<1>3. EmptyString(name).bytes = <<>> /\ EmptyString(name).size = 0 BY DEF EmptyString
<1>4. Prefix(<<>>, 0) = <<>> BY <1>2, PrefixFrom
<1>5. TextIn(h, EmptyString(name)) = <<>> BY <1>1, <1>3, <1>4, Zenon DEF TextIn
<1> QED BY <1>1, <1>2, <1>3, <1>5 DEF Typed

LEMMA InText == \A m, v : Text(m, v) = TextIn(m.heap, m.var[v])
  BY Zenon DEF Text, TextIn

(* A text within a word or a literal is not in the heap.                   *)
LEMMA HeapText ==
    ASSUME NEW x, WellFormed(x), NEW g, NEW h, x.allocated => g[x.at] = h[x.at]
    PROVE  TextIn(g, x) = TextIn(h, x)
<1>1. CASE IsInline(x) BY <1>1, Zenon DEF TextIn
<1>2. CASE ~IsInline(x) /\ x.allocated
  <2>1. g[x.at] = h[x.at] /\ x.at \in Buffers BY <1>2 DEF WellFormed
  <2> QED BY <1>2, <2>1, Zenon DEF TextIn
<1>3. CASE ~IsInline(x) /\ ~x.allocated
  <2>1. x.at \notin Buffers BY <1>3, AddressAssumption DEF WellFormed
  <2> QED BY <1>3, <2>1, Zenon DEF TextIn
<1> QED BY <1>1, <1>2, <1>3

LEMMA KeptText ==
    ASSUME NEW m, NEW X, Owned(m, X), NEW n, NEW v \in Vars, n.var[v] = m.var[v],
           m.var[v].allocated => n.heap[m.var[v].at] = m.heap[m.var[v].at]
    PROVE  Text(n, v) = Text(m, v)
<1>1. WellFormed(m.var[v]) BY DEF Owned
<1>2. TextIn(n.heap, m.var[v]) = TextIn(m.heap, m.var[v]) BY <1>1, HeapText
<1> QED BY <1>2, InText

(* A variable of size 0 holds the empty text, and no other does.           *)
LEMMA SizeText ==
    ASSUME NEW m, NEW X, Owned(m, X), AllTyped(m), NEW v \in Vars
    PROVE  m.var[v].size = 0 <=> Text(m, v) = <<>>
<1> DEFINE x == m.var[v]
<1>1. Typed(x) /\ WellFormed(x) /\ Text(m, v) = TextIn(m.heap, x)
  BY InText DEF AllTyped, Owned
<1>2. CASE IsInline(x)
  <2>1. TextIn(m.heap, x) = Prefix(x.bytes, x.size) BY <1>2, Zenon DEF TextIn
  <2>2. x.bytes \in Seq(Nat) /\ Len(x.bytes) = x.size BY <1>1, <1>2 DEF Typed
  <2>3. TextIn(m.heap, x) = x.bytes BY <2>1, <2>2, PrefixFrom
  <2> QED BY <1>1, <2>2, <2>3, EmptySeq
<1>3. CASE ~IsInline(x)
  <2>1. x.size # 0 BY <1>3, WordAssumption DEF IsInline
  <2>2. CASE x.allocated
    <3>1. x.at \in Buffers BY <1>1, <1>3, <2>2 DEF WellFormed
    <3>2. TextIn(m.heap, x) = m.heap[x.at] BY <1>3, <3>1, Zenon DEF TextIn
    <3>3. x.size = Len(m.heap[x.at])
      <4>1. PICK w \in Vars : /\ m.var[w].allocated /\ m.var[w].at = x.at
                              /\ m.var[w].size = Len(m.heap[x.at])
        BY <2>2 DEF Owned
      <4>2. w = v BY <2>2, <4>1 DEF Owned
      <4> QED BY <4>1, <4>2
    <3> QED BY <1>1, <2>1, <3>2, <3>3
  <2>3. CASE ~x.allocated
    <3>1. x.at \in DOMAIN Literals /\ x.at \notin Buffers
      BY <1>1, <1>3, <2>3, AddressAssumption DEF WellFormed
    <3>2. TextIn(m.heap, x) = Literals[x.at] BY <1>3, <3>1, Zenon DEF TextIn
    <3>3. Len(Literals[x.at]) > Word BY <3>1, LiteralAssumption
    <3> QED BY <1>1, <2>1, <3>2, <3>3, WordAssumption
  <2> QED BY <2>2, <2>3
<1> QED BY <1>2, <1>3

(***************************************************************************)
(* What the pieces of the operations do to the texts.                      *)
(***************************************************************************)
(* d has the text, and nothing else changed.                               *)
Gives(m, n, d, text) ==
    AllTyped(n) /\ Kept(m, n, d) /\ Text(n, d) = text /\ n.fault = m.fault

LEMMA ShareText ==
    ASSUME NEW m, NEW X, Owned(m, X), AllTyped(m), NEW d \in Vars, NEW x, Typed(x)
    PROVE  Gives(m, [m EXCEPT !.var[d] = x], d, TextIn(m.heap, x))
<1> DEFINE f == [m EXCEPT !.var[d] = x]
<1>1. /\ f.heap = m.heap /\ f.fault = m.fault /\ f.var[d] = x
      /\ \A v \in Vars \ {d} : f.var[v] = m.var[v]
  BY DEF Owned, Shaped
<1> HIDE DEF f
<1>2. AllTyped(f) BY <1>1 DEF AllTyped
<1>3. Kept(m, f, d) BY <1>1, KeptText DEF Kept
<1>4. Text(f, d) = TextIn(m.heap, x) BY <1>1, InText
<1> QED BY <1>1, <1>2, <1>3, <1>4 DEF Gives, f

LEMMA InlineText ==
    ASSUME NEW m, NEW X, Owned(m, X), AllTyped(m), NEW d \in Vars,
           NEW text \in Seq(Nat), Len(text) <= Word
    PROVE  Gives(m, SetInline(m, d, text), d, text)
<1> DEFINE x == [m.var[d] EXCEPT !.size = Len(text), !.at = Null, !.bytes = text]
<1>1. x.size = Len(text) /\ x.bytes = text BY DEF Owned, Shaped
<1>2. SetInline(m, d, text) = [m EXCEPT !.var[d] = x] BY DEF SetInline
<1> HIDE DEF x
<1>3. Typed(x) BY <1>1 DEF Typed
<1>4. TextIn(m.heap, x) = text
  <2>1. IsInline(x) BY <1>1 DEF IsInline
  <2>2. TextIn(m.heap, x) = Prefix(text, Len(text)) BY <1>1, <2>1, Zenon DEF TextIn
  <2> QED BY <2>2, PrefixFrom
<1>5. Gives(m, [m EXCEPT !.var[d] = x], d, TextIn(m.heap, x)) BY <1>3, ShareText
<1> QED BY <1>2, <1>4, <1>5

LEMMA BufferText ==
    ASSUME NEW m, NEW X, Owned(m, X), AllTyped(m), NEW d \in Vars, ~m.var[d].allocated,
           NEW b \in Buffers, b \notin m.live \ X, NEW text, ~(Len(text) <= Word)
    PROVE  Gives(m, SetBuffer(m, d, b, text), d, text)
<1> DEFINE x == [m.var[d] EXCEPT !.size = Len(text), !.at = b, !.bytes = <<>>, !.allocated = TRUE]
           f == SetBuffer(m, d, b, text)
<1>1. x.size = Len(text) /\ x.at = b BY DEF Owned, Shaped
<1>2. f = [m EXCEPT !.live = @ \union {b}, !.heap[b] = text, !.var[d] = x] BY DEF SetBuffer
<1> HIDE DEF x, f
<1>3. /\ f.fault = m.fault /\ f.heap[b] = text
      /\ \A c \in Buffers \ {b} : f.heap[c] = m.heap[c]
      /\ f.var[d] = x
      /\ \A v \in Vars \ {d} : f.var[v] = m.var[v]
  BY <1>2 DEF Owned, Shaped
<1>4. ~IsInline(x) BY <1>1 DEF IsInline
<1>5. AllTyped(f) BY <1>3, <1>4 DEF AllTyped, Typed
<1>6. Text(f, d) = text
  <2>1. TextIn(f.heap, x) = f.heap[b] BY <1>1, <1>4, Zenon DEF TextIn
  <2> QED BY <1>3, <2>1, InText
<1>7. Kept(m, f, d)
  <2> SUFFICES ASSUME NEW v \in Vars \ {d} PROVE Text(f, v) = Text(m, v) BY DEF Kept
  <2>1. m.var[v].allocated => m.var[v].at \in Buffers \ {b} BY DEF Owned
  <2>2. m.var[v].allocated => f.heap[m.var[v].at] = m.heap[m.var[v].at] BY <1>3, <2>1
  <2>3. f.var[v] = m.var[v] BY <1>3
  <2> QED BY <2>2, <2>3, KeptText
<1> QED BY <1>3, <1>5, <1>6, <1>7 DEF Gives, f

LEMMA ReleaseText ==
    ASSUME NEW m, NEW X, Owned(m, X), AllTyped(m), NEW b \in X
    PROVE  /\ AllTyped(Release(m, b)) /\ Release(m, b).fault = m.fault
           /\ \A v \in Vars : Text(Release(m, b), v) = Text(m, v)
<1> DEFINE f == Release(m, b)
<1>1. f = [m EXCEPT !.live = @ \ {b}, !.heap[b] = <<>>] BY DEF Release, Owned
<1> HIDE DEF f
<1>2. /\ f.fault = m.fault /\ f.var = m.var
      /\ \A c \in Buffers \ {b} : f.heap[c] = m.heap[c]
  BY <1>1 DEF Owned, Shaped
<1>3. AllTyped(f) BY <1>2 DEF AllTyped
<1>4. ASSUME NEW v \in Vars PROVE Text(f, v) = Text(m, v)
  <2>1. m.var[v].allocated => m.var[v].at \in Buffers \ {b} BY DEF Owned
  <2>2. m.var[v].allocated => f.heap[m.var[v].at] = m.heap[m.var[v].at] BY <1>2, <2>1
  <2>3. f.var[v] = m.var[v] BY <1>2
  <2> QED BY <2>2, <2>3, KeptText
<1> QED BY <1>2, <1>3, <1>4 DEF f

(* What may be left of a text when its variable is freed.                  *)
LeftOf(text) ==
    IF Len(text) <= Word THEN {text}
    ELSE IF \E c \in DOMAIN Consts : text = Literals[Consts[c]] THEN {text, <<>>} ELSE {<<>>}

(* An allocated text is longer than a word, and another which is longer is *)
(* that of a constant.                                                     *)
LEMMA LongText ==
    ASSUME NEW m, NEW X, Owned(m, X), AllTyped(m), NEW v \in Vars
    PROVE  IF m.var[v].allocated
           THEN ~(Len(Text(m, v)) <= Word)
           ELSE \/ Len(Text(m, v)) <= Word
                \/ \E c \in DOMAIN Consts : Text(m, v) = Literals[Consts[c]]
<1> DEFINE x == m.var[v]
<1>1. Typed(x) /\ WellFormed(x) /\ Text(m, v) = TextIn(m.heap, x)
  BY InText DEF AllTyped, Owned
<1>2. CASE x.allocated
  <2>1. ~IsInline(x) /\ x.at \in Buffers BY <1>1, <1>2 DEF WellFormed
  <2>2. TextIn(m.heap, x) = m.heap[x.at] BY <2>1, Zenon DEF TextIn
  <2>3. x.size = Len(m.heap[x.at])
    <3>1. PICK w \in Vars : /\ m.var[w].allocated /\ m.var[w].at = x.at
                            /\ m.var[w].size = Len(m.heap[x.at])
      BY <1>2 DEF Owned
    <3>2. w = v BY <1>2, <3>1 DEF Owned
    <3> QED BY <3>1, <3>2
  <2> QED BY <1>1, <1>2, <2>1, <2>2, <2>3 DEF IsInline
<1>3. CASE ~x.allocated /\ IsInline(x)
  <2>1. TextIn(m.heap, x) = Prefix(x.bytes, x.size) BY <1>3, Zenon DEF TextIn
  <2>2. x.bytes \in Seq(Nat) /\ Len(x.bytes) = x.size BY <1>1, <1>3 DEF Typed
  <2>3. TextIn(m.heap, x) = x.bytes BY <2>1, <2>2, PrefixFrom
  <2> QED BY <1>1, <1>3, <2>2, <2>3 DEF IsInline
<1>4. CASE ~x.allocated /\ ~IsInline(x)
  <2>1. x.at \in DOMAIN Literals /\ x.at \notin Buffers
    BY <1>1, <1>4, AddressAssumption DEF WellFormed
  <2>2. TextIn(m.heap, x) = Literals[x.at] BY <1>4, <2>1, Zenon DEF TextIn
  <2>3. \E c \in DOMAIN Consts : x.at = Consts[c] BY <2>1, OrderAssumption
  <2> QED BY <1>1, <1>4, <2>2, <2>3
<1> QED BY <1>2, <1>3, <1>4

(* strings_free() empties an allocated string, and leaves another alone.   *)
LEMMA FreeText ==
    ASSUME NEW m, NEW X, Owned(m, X), AllTyped(m), NEW d \in Vars
    PROVE  \E text \in LeftOf(Text(m, d)) : Gives(m, StringsFree(m, d), d, text)
<1>1. CASE ~m.var[d].allocated
  <2>1. Gives(m, StringsFree(m, d), d, Text(m, d)) BY <1>1 DEF StringsFree, Gives, Kept
  <2> QED BY <1>1, <2>1, LongText DEF LeftOf
<1>2. CASE m.var[d].allocated
  <2> DEFINE b == m.var[d].at
             r == [m EXCEPT !.live = @ \ {b}, !.heap[b] = <<>>]
             e == EmptyString(m.var[d].name)
             f == [r EXCEPT !.var[d] = e]
  <2>1. b \in m.live /\ b \notin X BY <1>2 DEF Owned
  <2>2. StringsFree(m, d) = f
    <3>1. Release(m, b) = r BY <2>1 DEF Release
    <3>2. r.var[d] = m.var[d] BY DEF Owned, Shaped
    <3> HIDE DEF r
    <3>3. StringsFree(m, d) = [r EXCEPT !.var[d] = EmptyString(@.name)]
      BY <1>2, <3>1 DEF StringsFree
    <3> QED BY <3>2, <3>3
  <2>3. /\ DOMAIN r = {"var", "live", "heap", "fault"}
        /\ r.var = m.var /\ r.fault = m.fault
        /\ \A c \in Buffers \ {b} : r.heap[c] = m.heap[c]
    BY DEF Owned, Shaped
  <2> HIDE DEF r
  <2>4. /\ f.fault = m.fault /\ f.heap = r.heap
        /\ f.var[d] = e
        /\ \A v \in Vars \ {d} : f.var[v] = m.var[v]
    BY <2>3 DEF Owned, Shaped
  <2> HIDE DEF f
  <2>5. Typed(e) /\ TextIn(f.heap, e) = <<>> BY EmptyTyped
  <2> HIDE DEF e
  <2>6. AllTyped(f) BY <2>4, <2>5 DEF AllTyped
  <2>7. Text(f, d) = <<>> BY <2>4, <2>5, InText
  <2>8. Kept(m, f, d)
    <3> SUFFICES ASSUME NEW v \in Vars \ {d} PROVE Text(f, v) = Text(m, v) BY DEF Kept
    <3>1. m.var[v].allocated => m.var[v].at \in Buffers \ {b} BY <1>2 DEF Owned
    <3>2. m.var[v].allocated => f.heap[m.var[v].at] = m.heap[m.var[v].at] BY <2>3, <2>4, <3>1
    <3>3. f.var[v] = m.var[v] BY <2>4
    <3> QED BY <3>2, <3>3, KeptText
  <2>9. Gives(m, f, d, <<>>) BY <2>4, <2>6, <2>7, <2>8 DEF Gives
  <2>10. <<>> \in LeftOf(Text(m, d)) BY <1>2, LongText DEF LeftOf
  <2> QED BY <2>2, <2>9, <2>10
<1> QED BY <1>1, <1>2

LEMMA SetText ==
    ASSUME NEW m, Owned(m, {}), AllTyped(m), NEW d \in Vars, ~m.var[d].allocated,
           Available(m) # {}, NEW text \in Seq(Nat)
    PROVE  Gives(m, Set(m, d, text), d, text)
<1>1. Malloc(m) \in Buffers \ m.live BY DEF Malloc, Available
<1>2. CASE Len(text) <= Word BY <1>2, InlineText DEF Set
<1>3. CASE ~(Len(text) <= Word)
  <2>1. Set(m, d, text) = SetBuffer(m, d, Malloc(m), text) BY <1>3 DEF Set
  <2> QED BY <1>1, <1>3, <2>1, BufferText
<1> QED BY <1>2, <1>3

(* The free, then what is done to the result.                              *)
LEMMA Composed ==
    ASSUME NEW m, NEW f, NEW n, NEW d, NEW text, NEW text2,
           Gives(m, f, d, text), Gives(f, n, d, text2)
    PROVE  Gives(m, n, d, text2)
  BY DEF Gives, Kept

LEMMA StoreText ==
    ASSUME NEW m, Owned(m, {}), AllTyped(m), NEW d \in Vars, Available(m) # {},
           NEW text \in Seq(Nat)
    PROVE  Gives(m, Store(m, d, text), d, text)
<1> DEFINE f == StringsFree(m, d)
<1>1. Owned(f, {}) /\ ~f.var[d].allocated /\ Available(f) # {} BY Freed
<1>2. PICK old : Gives(m, f, d, old) BY FreeText
<1>3. AllTyped(f) BY <1>2 DEF Gives
<1> HIDE DEF f
<1>4. Gives(f, Set(f, d, text), d, text) BY <1>1, <1>3, SetText
<1>5. Gives(m, Set(f, d, text), d, text) BY <1>2, <1>4, Composed
<1> QED BY <1>5 DEF Store, f

(***************************************************************************)
(* What the operations do to the texts.                                    *)
(***************************************************************************)
(* The operation gives d one of the texts of R.                            *)
Made(m, n, d, R) == \E text \in R : Gives(m, n, d, text)

(* The memory an operation works on.                                       *)
Ready(m) ==
    /\ Owned(m, {}) /\ AllTyped(m) /\ Available(m) # {} /\ m.fault = "none"
    /\ \A v \in Vars : Text(m, v) \in Seq(Nat)

LEMMA FreeMade ==
    ASSUME NEW m, Ready(m), NEW d \in Vars
    PROVE  Made(m, StringsFree(m, d), d, LeftOf(Text(m, d)))
  BY FreeText DEF Ready, Made

LEMMA StoreMade ==
    ASSUME NEW m, Ready(m), NEW d \in Vars, NEW text \in Seq(Nat)
    PROVE  Made(m, Store(m, d, text), d, {text})
<1>1. Gives(m, Store(m, d, text), d, text) BY StoreText DEF Ready
<1> QED BY <1>1 DEF Made

LEMMA CopyMade ==
    ASSUME NEW m, Ready(m), NEW d \in Vars, NEW s \in Vars \ {d}
    PROVE  Made(m, StringsCopy(m, d, s), d, {Text(m, s)})
<1> DEFINE f == StringsFree(m, d)
           x == f.var[s]
           y == [x EXCEPT !.name = f.var[d].name]
<1>1. Owned(f, {}) /\ ~f.var[d].allocated /\ Available(f) # {} BY Freed DEF Ready
<1>2. PICK old : Gives(m, f, d, old) BY FreeText DEF Ready
<1>3. AllTyped(f) /\ Text(f, s) = Text(m, s) BY <1>2 DEF Gives, Kept
<1>4. Text(m, s) \in Seq(Nat) BY DEF Ready
<1> HIDE DEF f
<1>5. CASE ~x.allocated
  <2>1. /\ y.size = x.size /\ y.at = x.at /\ y.bytes = x.bytes
    BY <1>1 DEF Owned, Shaped
  <2>2. StringsCopy(m, d, s) = [f EXCEPT !.var[d] = y] BY <1>5 DEF StringsCopy, f
  <2>3. Typed(x) BY <1>3 DEF AllTyped
  <2> HIDE DEF y, x
  <2>4. IsInline(y) = IsInline(x) BY <2>1 DEF IsInline
  <2>5. Typed(y) BY <2>1, <2>3, <2>4 DEF Typed
  <2>6. TextIn(f.heap, y) = TextIn(f.heap, x) BY <2>1, <2>4, Zenon DEF TextIn
  <2>7. TextIn(f.heap, y) = Text(m, s) BY <1>3, <2>6, InText DEF x
  <2>8. Gives(f, [f EXCEPT !.var[d] = y], d, Text(m, s)) BY <1>1, <1>3, <2>5, <2>7, ShareText
  <2>9. Gives(m, [f EXCEPT !.var[d] = y], d, Text(m, s)) BY <1>2, <2>8, Composed
  <2> QED BY <2>2, <2>9 DEF Made
<1>6. CASE x.allocated
  <2>1. StringsCopy(m, d, s) = Set(f, d, Text(f, s)) BY <1>6 DEF StringsCopy, f
  <2>2. Gives(f, Set(f, d, Text(m, s)), d, Text(m, s)) BY <1>1, <1>3, <1>4, SetText
  <2>3. Gives(m, Set(f, d, Text(m, s)), d, Text(m, s)) BY <1>2, <2>2, Composed
  <2> QED BY <1>3, <2>1, <2>3 DEF Made
<1> QED BY <1>5, <1>6

LEMMA ConcatMade ==
    ASSUME NEW m, Ready(m), NEW d \in Vars, NEW s \in Vars \ {d}, NEW t \in Vars \ {d},
           NEW R, Text(m, s) \o Text(m, t) \in R
    PROVE  Made(m, StringsConcat(m, d, s, t), d, R)
<1> DEFINE f == StringsFree(m, d)
           e == EmptyString(f.var[d].name)
           S == Text(m, s)
           T == Text(m, t)
<1>1. Owned(f, {}) /\ ~f.var[d].allocated /\ Available(f) # {} BY Freed DEF Ready
<1>2. PICK old : Gives(m, f, d, old) BY FreeText DEF Ready
<1>3. AllTyped(f) /\ Text(f, s) = S /\ Text(f, t) = T BY <1>2 DEF Gives, Kept
<1>4. S \in Seq(Nat) /\ T \in Seq(Nat) BY DEF Ready
<1>5. ConcatOf(<<S, T>>) = S \o T /\ S \o T \in Seq(Nat) BY <1>4, JoinText
<1>6. \/ /\ f.var[s].size = 0 /\ f.var[t].size = 0
         /\ StringsConcat(m, d, s, t) = [f EXCEPT !.var[d] = e]
      \/ f.var[t].size = 0 /\ StringsConcat(m, d, s, t) = [f EXCEPT !.var[d] = f.var[s]]
      \/ f.var[s].size = 0 /\ StringsConcat(m, d, s, t) = [f EXCEPT !.var[d] = f.var[t]]
      \/ StringsConcat(m, d, s, t) = Set(f, d, ConcatOf(<<Text(f, s), Text(f, t)>>))
  BY DEF StringsConcat
<1> HIDE DEF f
<1>7. (f.var[s].size = 0 => S = <<>>) /\ (f.var[t].size = 0 => T = <<>>)
  BY <1>1, <1>3, SizeText
<1>8. (S = <<>> => S \o T = T) /\ (T = <<>> => S \o T = S)
  <2> HIDE DEF S, T
  <2> QED BY <1>4, ConcatEmptySeq
<1>9. ASSUME NEW x, Typed(x), TextIn(f.heap, x) = S \o T,
             StringsConcat(m, d, s, t) = [f EXCEPT !.var[d] = x]
      PROVE  Made(m, StringsConcat(m, d, s, t), d, R)
  <2> HIDE DEF S, T
  <2>0. Gives(f, [f EXCEPT !.var[d] = x], d, TextIn(f.heap, x)) BY <1>1, <1>3, <1>9, ShareText
  <2>1. Gives(f, [f EXCEPT !.var[d] = x], d, S \o T) BY <1>9, <2>0
  <2>2. Gives(m, [f EXCEPT !.var[d] = x], d, S \o T) BY <1>2, <2>1, Composed
  <2>3. S \o T \in R BY DEF S, T
  <2> QED BY <1>9, <2>2, <2>3 DEF Made
<1>10. Typed(e) /\ TextIn(f.heap, e) = <<>> BY EmptyTyped
<1>11. /\ Typed(f.var[s]) /\ TextIn(f.heap, f.var[s]) = S
       /\ Typed(f.var[t]) /\ TextIn(f.heap, f.var[t]) = T
  BY <1>3, InText DEF AllTyped
<1>12. CASE StringsConcat(m, d, s, t) = Set(f, d, ConcatOf(<<Text(f, s), Text(f, t)>>))
  <2>0. S \o T \in R OBVIOUS
  <2>1. StringsConcat(m, d, s, t) = Set(f, d, S \o T) BY <1>3, <1>5, <1>12
  <2> HIDE DEF S, T
  <2>2. Gives(f, Set(f, d, S \o T), d, S \o T) BY <1>1, <1>3, <1>5, SetText
  <2>3. Gives(m, Set(f, d, S \o T), d, S \o T) BY <1>2, <2>2, Composed
  <2> QED BY <2>0, <2>1, <2>3 DEF Made
<1> HIDE DEF e, S, T
<1>13. CASE f.var[s].size = 0 /\ f.var[t].size = 0
            /\ StringsConcat(m, d, s, t) = [f EXCEPT !.var[d] = e]
  <2>1. TextIn(f.heap, e) = S \o T BY <1>7, <1>8, <1>10, <1>13
  <2> QED BY <1>9, <1>10, <1>13, <2>1
<1>14. CASE f.var[t].size = 0 /\ StringsConcat(m, d, s, t) = [f EXCEPT !.var[d] = f.var[s]]
  <2>1. TextIn(f.heap, f.var[s]) = S \o T BY <1>7, <1>8, <1>11, <1>14
  <2> QED BY <1>9, <1>11, <1>14, <2>1
<1>15. CASE f.var[s].size = 0 /\ StringsConcat(m, d, s, t) = [f EXCEPT !.var[d] = f.var[t]]
  <2>1. TextIn(f.heap, f.var[t]) = S \o T BY <1>7, <1>8, <1>11, <1>15
  <2> QED BY <1>9, <1>11, <1>15, <2>1
<1> QED BY <1>6, <1>12, <1>13, <1>14, <1>15

LEMMA ConcatParamsMade ==
    ASSUME NEW m, Ready(m), NEW d \in Vars, NEW s \in Vars \ {d}, NEW t \in Vars \ {d},
           NEW R, Text(m, s) \o Text(m, t) \in R
    PROVE  Made(m, StringsConcatParams(m, d, s, <<t>>), d, R)
<1> DEFINE text == ConcatOf(TextsOf(m, <<s>> \o <<t>>))
           b == Malloc(m)
           g == [m EXCEPT !.live = @ \union {b}, !.heap[b] = text]
           f == StringsFree(g, d)
<1>1. b \in Buffers \ m.live BY DEF Malloc, Available, Ready
<1>2. StringsConcatParams(m, d, s, <<t>>) =
         IF Len(text) <= Word THEN SetInline(Release(f, b), d, text) ELSE SetBuffer(f, d, b, text)
  BY DEF StringsConcatParams
<1>3. text \in R /\ text \in Seq(Nat)
  <2>1. <<s>> \o <<t>> = <<s, t>>
    <3>1. PICK p, q : p = <<s>> \o <<t>> /\ q = <<s, t>> OBVIOUS
    <3>2. <<s>> \in Seq({s, t}) /\ <<t>> \in Seq({s, t}) OBVIOUS
    <3>3. p \in Seq({s, t}) /\ Len(p) = 2 /\ p[1] = s /\ p[2] = t
      BY <3>1, <3>2, ConcatProperties
    <3>4. q \in Seq({s, t}) /\ Len(q) = 2 /\ q[1] = s /\ q[2] = t BY <3>1
    <3>5. p = q BY <3>3, <3>4, SeqEqual
    <3> QED BY <3>1, <3>5
  <2>2. DOMAIN <<s, t>> = 1..2 /\ <<s, t>>[1] = s /\ <<s, t>>[2] = t OBVIOUS
  <2>3. TextsOf(m, <<s, t>>) = <<Text(m, s), Text(m, t)>> BY <2>2 DEF TextsOf
  <2>4. Text(m, s) \in Seq(Nat) /\ Text(m, t) \in Seq(Nat) BY DEF Ready
  <2>5. text = ConcatOf(<<Text(m, s), Text(m, t)>>) BY <2>1, <2>3
  <2>6. \A x, y \in Seq(Nat) : ConcatOf(<<x, y>>) = x \o y /\ x \o y \in Seq(Nat) BY JoinText
  <2> QED BY <2>4, <2>5, <2>6
<1> HIDE DEF text, b
<1>4. Owned(g, {b}) /\ g.var = m.var /\ g.fault = m.fault
      /\ \A c \in Buffers \ {b} : g.heap[c] = m.heap[c]
  <2>1. /\ DOMAIN g = {"var", "live", "heap", "fault"}
        /\ g.live = m.live \union {b} /\ g.fault = m.fault /\ g.var = m.var
        /\ DOMAIN g.heap = Buffers
        /\ \A c \in Buffers \ {b} : g.heap[c] = m.heap[c]
    BY DEF Ready, Owned, Shaped
  <2> HIDE DEF g
  <2>2. Shaped(g) BY <2>1 DEF Ready, Owned, Shaped
  <2>3. g.live \ {b} = m.live BY <1>1, <2>1
  <2>4. \A c \in g.live \ {b} : \E v \in Vars : /\ g.var[v].allocated /\ g.var[v].at = c
                                                /\ g.var[v].size = Len(g.heap[c])
    <3> TAKE c \in g.live \ {b}
    <3>1. c \in m.live \ {} /\ c \in Buffers /\ c # b BY <2>3 DEF Ready, Owned
    <3>2. PICK v \in Vars : /\ m.var[v].allocated /\ m.var[v].at = c
                            /\ m.var[v].size = Len(m.heap[c])
      BY <3>1 DEF Ready, Owned
    <3> QED BY <2>1, <3>1, <3>2
  <2>5. g.live \subseteq Buffers /\ {b} \subseteq g.live /\ g.fault # "free"
    BY <1>1, <2>1 DEF Ready, Owned
  <2>6. \A v \in Vars : g.var[v].allocated => g.var[v].at \in g.live \ {b}
    BY <2>1, <2>3 DEF Ready, Owned
  <2>7. Owned(g, {b}) BY <2>1, <2>2, <2>4, <2>5, <2>6 DEF Ready, Owned
  <2> QED BY <2>1, <2>7
<1> HIDE DEF g
<1>5. /\ AllTyped(g)
      /\ \A v \in Vars : Text(g, v) = Text(m, v)
  <2>1. AllTyped(g) BY <1>4 DEF AllTyped, Ready
  <2>2. ASSUME NEW v \in Vars PROVE Text(g, v) = Text(m, v)
    <3>1. m.var[v].allocated => m.var[v].at \in Buffers \ {b} BY <1>1 DEF Ready, Owned
    <3>2. m.var[v].allocated => g.heap[m.var[v].at] = m.heap[m.var[v].at] BY <1>4, <3>1
    <3>3. g.var[v] = m.var[v] /\ Owned(m, {}) BY <1>4 DEF Ready
    <3> QED BY <3>2, <3>3, KeptText
  <2> QED BY <2>1, <2>2
<1>6. Owned(f, {b}) /\ ~f.var[d].allocated BY <1>4, FreeOwned
<1>7. PICK old : Gives(g, f, d, old) BY <1>4, <1>5, FreeText
<1> HIDE DEF f
<1>8. AllTyped(f) /\ Kept(m, f, d) /\ f.fault = m.fault BY <1>4, <1>5, <1>7 DEF Gives, Kept
<1>9. CASE Len(text) <= Word
  <2> DEFINE h == Release(f, b)
  <2>1. Owned(h, {b} \ {b}) /\ h.var = f.var BY <1>6, ReleaseOwned
  <2>2. AllTyped(h) /\ h.fault = f.fault /\ \A v \in Vars : Text(h, v) = Text(f, v)
    BY <1>6, <1>8, ReleaseText
  <2> HIDE DEF h
  <2>3. Gives(h, SetInline(h, d, text), d, text) BY <1>3, <1>9, <2>1, <2>2, InlineText
  <2>4. Gives(m, SetInline(h, d, text), d, text) BY <1>8, <2>2, <2>3 DEF Gives, Kept
  <2> QED BY <1>2, <1>3, <1>9, <2>4 DEF Made, h
<1>10. CASE ~(Len(text) <= Word)
  <2>1. b \in Buffers /\ b \notin f.live \ {b} BY <1>1
  <2>2. Gives(f, SetBuffer(f, d, b, text), d, text) BY <1>6, <1>8, <1>10, <2>1, BufferText
  <2>3. Gives(m, SetBuffer(f, d, b, text), d, text) BY <1>8, <2>2 DEF Gives, Kept
  <2> QED BY <1>2, <1>3, <1>10, <2>3 DEF Made
<1> QED BY <1>9, <1>10

(* A part is empty, and d only freed, or it fits in a word, or is refused. *)
LEMMA SubstrMade ==
    ASSUME NEW m, Ready(m), NEW d \in Vars, NEW s \in Vars, NEW start \in Int, NEW end \in Int
    PROVE  LET S == Text(m, s)
               n == StringsSubstr(m, d, s, start, end)
           IN  IF S = <<>> \/ start > end \/ start < 0 \/ end < 0
               THEN Made(m, n, d, LeftOf(Text(m, d)))
               ELSE IF Len(SubstrOf(S, start, end)) <= Word
               THEN Made(m, n, d, {SubstrOf(S, start, end)})
               ELSE n.fault # "none"
<1> DEFINE f == StringsFree(m, d)
           text == SubstrOf(Text(m, s), start, end)
           none == Text(m, s) = <<>> \/ start > end \/ start < 0 \/ end < 0
           n == StringsSubstr(m, d, s, start, end)
<1>1. Owned(f, {}) /\ ~f.var[d].allocated BY Freed DEF Ready
<1>2. PICK old : Gives(m, f, d, old) BY FreeText DEF Ready
<1>3. AllTyped(f) /\ f.fault = "none" BY <1>2 DEF Gives, Ready
<1>4. m.var[s].size = 0 <=> Text(m, s) = <<>> BY SizeText DEF Ready
<1>5. n = IF none THEN f ELSE IF Len(text) <= Word THEN SetInline(f, d, text) ELSE Fault(f, "write")
  BY <1>4 DEF StringsSubstr
<1>6. Made(m, f, d, LeftOf(Text(m, d))) BY FreeMade
<1>7. Fault(f, "write").fault # "none"
  <2> HIDE DEF f
  <2> QED BY <1>1, <1>3 DEF Fault, Owned, Shaped
<1>8. ASSUME Len(text) <= Word PROVE Made(m, SetInline(f, d, text), d, {text})
  <2>1. text \in Seq(Nat) BY SubstrText DEF Ready
  <2> HIDE DEF f, text
  <2>2. Gives(f, SetInline(f, d, text), d, text) BY <1>1, <1>3, <1>8, <2>1, InlineText
  <2>3. Gives(m, SetInline(f, d, text), d, text) BY <1>2, <2>2, Composed
  <2> QED BY <2>3 DEF Made
<1> HIDE DEF f, text, none, n
<1>9. IF none THEN Made(m, n, d, LeftOf(Text(m, d)))
      ELSE IF Len(text) <= Word THEN Made(m, n, d, {text}) ELSE n.fault # "none"
  BY <1>5, <1>6, <1>7, <1>8
<1> QED BY <1>9 DEF none, text, n

(***************************************************************************)
(* The steps of the host and of the script are steps of Texts.             *)
(***************************************************************************)
(* With the ownership of the buffers: until the process ends, nothing was  *)
(* refused and every variable has a text that is followed; the constants   *)
(* are those of the file, and so is everything before it is loaded.        *)
TInv ==
    /\ IInv
    /\ phase \in {"none", "loaded", "running", "crashed"}
    /\ \A c \in DOMAIN Consts : mem.var[c] = Constant(c)
    /\ phase = "none" => mem.var = Image
    /\ phase # "crashed" => /\ mem.fault = "none"
                            /\ AllTyped(mem)
                            /\ \A v \in Vars : Text(mem, v) \in Followed

texts == [v \in Vars |-> ShownText(v)]

LEMMA ConstantText ==
    ASSUME NEW c \in DOMAIN Consts, NEW h
    PROVE  Typed(Constant(c)) /\ TextIn(h, Constant(c)) = Literals[Consts[c]]
<1>1. /\ Constant(c).size = Len(Literals[Consts[c]]) /\ Constant(c).at = Consts[c]
      /\ Consts[c] \in DOMAIN Literals /\ Consts[c] \notin Buffers
  BY OrderAssumption, AddressAssumption DEF Constant
<1>2. ~IsInline(Constant(c))
  <2>1. Len(Literals[Consts[c]]) \in Nat /\ Len(Literals[Consts[c]]) > Word
    BY <1>1, LiteralAssumption
  <2> QED BY <1>1, <2>1, WordAssumption DEF IsInline
<1>3. TextIn(h, Constant(c)) = Literals[Consts[c]] BY <1>1, <1>2, Zenon DEF TextIn
<1> QED BY <1>2, <1>3 DEF Typed

LEMMA ImageText ==
    ASSUME NEW v \in Vars, NEW h
    PROVE  /\ Typed(Image[v])
           /\ TextIn(h, Image[v]) = IF v \in DOMAIN Consts THEN Literals[Consts[v]] ELSE <<>>
           /\ v \in DOMAIN Consts => Image[v] = Constant(v)
<1>1. Image[v] = CASE v \in Externs       -> EmptyString(v)
                   [] v \in Temps         -> EmptyString("")
                   [] v \in DOMAIN Consts -> Constant(v)
  BY DEF Image
<1>2. CASE v \in Externs
  <2>1. v \notin DOMAIN Consts /\ v \notin Temps BY <1>2, OrderAssumption DEF Externs
  <2>2. Image[v] = EmptyString(v) BY <1>1, <1>2, <2>1
  <2> QED BY <2>1, <2>2, EmptyTyped
<1>3. CASE v \in Temps
  <2>1. v \notin DOMAIN Consts /\ v \notin Externs BY <1>3, OrderAssumption DEF Externs
  <2>2. Image[v] = EmptyString("") BY <1>1, <1>3, <2>1
  <2> QED BY <2>1, <2>2, EmptyTyped
<1>4. CASE v \in DOMAIN Consts
  <2>1. v \notin Temps /\ v \notin Externs BY <1>4, OrderAssumption DEF Externs
  <2>2. Image[v] = Constant(v) BY <1>1, <1>4, <2>1
  <2> QED BY <1>4, <2>2, ConstantText
<1> QED BY <1>2, <1>3, <1>4 DEF Vars

(* Memories with the variables of the file.                                *)
LEMMA FreshText ==
    ASSUME NEW m, m.var = Image
    PROVE  /\ AllTyped(m)
           /\ \A v \in Vars : /\ v \in DOMAIN Consts => Text(m, v) = Literals[Consts[v]]
                              /\ v \notin DOMAIN Consts => Text(m, v) = <<>>
                              /\ Text(m, v) \in Followed
           /\ \A c \in DOMAIN Consts : m.var[c] = Constant(c)
<1>1. \A v \in Vars : Text(m, v) = TextIn(m.heap, Image[v]) BY InText
<1>2. AllTyped(m) BY ImageText DEF AllTyped
<1>3. \A v \in Vars : /\ v \in DOMAIN Consts => Text(m, v) = Literals[Consts[v]]
                      /\ v \notin DOMAIN Consts => Text(m, v) = <<>>
  BY <1>1, ImageText
<1>4. \A c \in DOMAIN Consts : m.var[c] = Constant(c) BY ImageText DEF Vars
<1>5. \A v \in Vars : Text(m, v) \in Followed BY <1>3, BoundsAssumption
<1> QED BY <1>2, <1>3, <1>4, <1>5

LEMMA InitTexts == Init => TInv /\ Abstract!Init
<1> SUFFICES ASSUME Init PROVE TInv /\ Abstract!Init OBVIOUS
<1>1. mem.var = Image /\ mem.fault = "none" /\ phase = "none" BY DEF Init, NewProcess
<1>2. TInv BY <1>1, InitOwned, FreshText DEF TInv
<1>3. \A v \in Vars : ShownText(v) = IF v \in DOMAIN Consts THEN Literals[Consts[v]] ELSE <<>>
  BY <1>1, FreshText DEF ShownText
<1>4. \A v \in DOMAIN Consts :
          [c \in DOMAIN Consts |-> Literals[Consts[c]]][v] = Literals[Consts[v]]
  OBVIOUS
<1>5. Abstract!Init BY <1>3, <1>4 DEF Abstract!Init, Init
<1> QED BY <1>2, <1>5

LEMMA ReadyMem == TInv /\ phase # "crashed" /\ Available(mem) # {} => Ready(mem)
  BY BoundsAssumption DEF TInv, IInv, Ready

LEMMA ConstantShown ==
    ASSUME NEW m, \A c \in DOMAIN Consts : m.var[c] = Constant(c)
    PROVE  \A c \in DOMAIN Consts : Text(m, c) = Literals[Consts[c]]
  BY ConstantText, InText

LEMMA PhaseStep == Operation => /\ phase = "running"
                                /\ phase' = IF mem'.fault = "none" THEN phase ELSE "crashed"
                                /\ \A v \in Vars : mem'.fault = "none" => Text(mem', v) \in Followed
<1> DEFINE Runs == /\ phase = "running"
                   /\ phase' = IF mem'.fault = "none" THEN phase ELSE "crashed"
                   /\ \A v \in Vars : mem'.fault = "none" => Text(mem', v) \in Followed
<1>1. \A k, m : Executes(k, m) => Runs BY DEF Executes
<1> HIDE DEF Runs
<1>2. \A a, s : Assignment(a, s) => Runs BY <1>1 DEF Assignment
<1>3. \A a, s, t : Binary(a, s, t) => Runs BY <1>1 DEF Binary
<1>4. \A a, s : Unary(a, s) => Runs BY <1>1 DEF Unary
<1>5. \A a, s, n : Indexed(a, s, n) => Runs BY <1>1 DEF Indexed
<1>6. Operation => Runs BY <1>2, <1>3, <1>4, <1>5 DEF Operation
<1> QED BY <1>6 DEF Runs

LEMMA Externals ==
    /\ Externs \cup Temps \subseteq Vars /\ Result \in Externs
    /\ Externs \cap DOMAIN Consts = {} /\ Temps \cap DOMAIN Consts = {} /\ Temps \cap Externs = {}
    /\ Vars = Externs \cup Temps \cup DOMAIN Consts
  BY OrderAssumption DEF Externs, Vars


(***************************************************************************)
(* An operation of the script, from the memory it leaves to the step of    *)
(* Texts with the same call.                                               *)
(***************************************************************************)
Typing == mem'.fault = "none" => AllTyped(mem')

(* The texts before the step, and that a result is no constant.            *)
Operates(d) ==
    /\ TInv /\ phase = "running" /\ Ready(mem)
    /\ d \in Vars /\ d \notin DOMAIN Consts

LEMMA Held ==
    ASSUME NEW d, Operates(d), NEW v \in Vars
    PROVE  [w \in Vars |-> ShownText(w)][v] = Text(mem, v)
  BY DEF Operates, ShownText

LEMMA MadeStep ==
    ASSUME NEW d, Operates(d), NEW c, NEW m, Executes(c, m), NEW R, Made(mem, m, d, R)
    PROVE  (\E r \in R : Abstract!Gives(d, r)) /\ call' = c /\ Typing
<1>1. PICK r \in R : Gives(mem, m, d, r) BY DEF Made
<1>2. mem' = m /\ call' = c BY DEF Executes
<1>3. m.fault = "none" BY <1>1 DEF Gives, Operates, Ready
<1>4. phase' = "running" BY <1>3 DEF Executes
<1>5. \A v \in Vars : ShownText(v)' = Text(m, v) BY <1>2, <1>4 DEF ShownText
<1>6. \A v \in Vars : ShownText(v) = Text(mem, v) BY DEF Operates, ShownText
<1>7. Text(m, d) = r /\ \A v \in Vars \ {d} : Text(m, v) = Text(mem, v) BY <1>1 DEF Gives, Kept
<1>8. [v \in Vars |-> ShownText(v)]' = [[v \in Vars |-> ShownText(v)] EXCEPT ![d] = r]
  BY <1>5, <1>6, <1>7 DEF Operates
<1>9. Abstract!Gives(d, r) BY <1>8 DEF Abstract!Gives
<1>10. Typing BY <1>1, <1>2 DEF Typing, Gives
<1> QED BY <1>2, <1>9, <1>10

LEMMA StoreStep ==
    ASSUME NEW d, Operates(d), NEW c, NEW text \in Seq(Nat), Executes(c, Store(mem, d, text))
    PROVE  Abstract!Gives(d, text) /\ call' = c /\ Typing
<1>1. Made(mem, Store(mem, d, text), d, {text}) BY StoreMade DEF Operates
<1> PICK m : m = Store(mem, d, text) OBVIOUS
<1>2. (\E r \in {text} : Abstract!Gives(d, r)) /\ call' = c /\ Typing BY <1>1, MadeStep
<1>3. \A r \in {text} : r = text OBVIOUS
<1> QED BY <1>2, <1>3

(* strings_free() alone.                                                   *)
LEMMA LeftStep ==
    ASSUME NEW d, Operates(d), NEW c, NEW m, Executes(c, m), Made(mem, m, d, LeftOf(Text(mem, d)))
    PROVE  Abstract!OnlyFreed(d) /\ call' = c /\ Typing
<1>1. PICK r \in LeftOf(Text(mem, d)) : Abstract!Gives(d, r) BY MadeStep
<1>2. call' = c /\ Typing BY MadeStep
<1>3. [w \in Vars |-> ShownText(w)][d] = Text(mem, d) BY Held DEF Operates
<1>4. \A l \in DOMAIN Consts : [k \in DOMAIN Consts |-> Literals[Consts[k]]][l] = Literals[Consts[l]]
  OBVIOUS
<1>5. DOMAIN [k \in DOMAIN Consts |-> Literals[Consts[k]]] = DOMAIN Consts OBVIOUS
<1>6. r \in Abstract!Left(d)
  <2> PICK t, F : t = Text(mem, d) /\ F = [k \in DOMAIN Consts |-> Literals[Consts[k]]] OBVIOUS
  <2>1. r \in LeftOf(t) OBVIOUS
  <2>2. Abstract!Left(d) = LeftOf(t)
    BY <1>3, <1>4, <1>5 DEF Abstract!Left, LeftOf
  <2> QED BY <2>1, <2>2
<1> QED BY <1>1, <1>2, <1>6 DEF Abstract!OnlyFreed

(* A refused call: the variables of the process are gone.                  *)
LEMMA RefusedStep ==
    ASSUME NEW d, Operates(d), NEW c, NEW m, Executes(c, m), m.fault # "none", Only(mem, m, d)
    PROVE  Abstract!Refused /\ call' = c /\ Typing
<1>1. mem' = m /\ call' = c /\ phase' = "crashed" BY DEF Executes
<1>2. \A k \in DOMAIN Consts : mem.var[k] = Constant(k) /\ mem'.var[k] = Constant(k)
  BY <1>1, Externals DEF Operates, TInv, Only
<1>3. \A k \in DOMAIN Consts : /\ Text(mem, k) = Literals[Consts[k]]
                               /\ Text(mem', k) = Literals[Consts[k]]
  BY <1>2, ConstantShown
<1>4. \A v \in Vars : ShownText(v) = Text(mem, v) BY DEF Operates, ShownText
<1>5. \A v \in Vars : ShownText(v)' = IF v \in Temps \cup Externs THEN <<>> ELSE ShownText(v)
  BY <1>1, <1>3, <1>4, Externals DEF ShownText
<1>6. Abstract!Refused BY <1>5 DEF Abstract!Refused, Abstract!Forget
<1> QED BY <1>1, <1>6 DEF Typing

LEMMA AssignmentStep ==
    ASSUME NEW d, Operates(d), NEW s \in Vars \ {d}, Assignment(d, s)
    PROVE  Abstract!Assign(d, s) /\ Typing
<1>1. Executes(<<"assign", d, s>>, StringsCopy(mem, d, s)) BY DEF Assignment
<1>2. Made(mem, StringsCopy(mem, d, s), d, {Text(mem, s)}) BY CopyMade DEF Operates
<1> PICK m, S : m = StringsCopy(mem, d, s) /\ S = Text(mem, s) OBVIOUS
<1>3. (\E r \in {S} : Abstract!Gives(d, r)) /\ call' = <<"assign", d, s>> /\ Typing
  BY <1>1, <1>2, MadeStep
<1>4. \A r \in {S} : r = S OBVIOUS
<1>5. Abstract!Gives(d, S) BY <1>3, <1>4
<1>6. [w \in Vars |-> ShownText(w)][s] = S BY Held
<1> QED BY <1>3, <1>5, <1>6 DEF Abstract!Assign

LEMMA UnaryStep ==
    ASSUME NEW d, Operates(d), NEW s \in Vars \ {d}, Unary(d, s)
    PROVE  Abstract!OfOne(d, s) /\ Typing
<1> PICK S : S = Text(mem, s) OBVIOUS
<1>1. S \in Seq(Nat) BY DEF Operates, Ready
<1>2. [w \in Vars |-> ShownText(w)][s] = S BY Held
<1>3. FlipCaseOf(S) \in Seq(Nat) /\ ToLowercaseOf(S) \in Seq(Nat) /\ ToUppercaseOf(S) \in Seq(Nat)
  BY <1>1, CaseText
<1>4. \A start, end \in BOOLEAN : TrimOf(S, start, end) \in Seq(Nat) BY <1>1, TrimText
<1>5. CASE Executes(<<"flip_case", d, s>>, StringsFlipCase(mem, d, s))
  <2>1. Executes(<<"flip_case", d, s>>, Store(mem, d, FlipCaseOf(S))) BY <1>5 DEF StringsFlipCase
  <2>2. Abstract!Gives(d, FlipCaseOf(S)) /\ call' = <<"flip_case", d, s>> /\ Typing
    BY <1>3, <2>1, StoreStep
  <2> QED BY <1>2, <2>2 DEF Abstract!OfOne
<1>6. CASE Executes(<<"to_lowercase", d, s>>, StringsToLowercase(mem, d, s))
  <2>1. Executes(<<"to_lowercase", d, s>>, Store(mem, d, ToLowercaseOf(S)))
    BY <1>6 DEF StringsToLowercase
  <2>2. Abstract!Gives(d, ToLowercaseOf(S)) /\ call' = <<"to_lowercase", d, s>> /\ Typing
    BY <1>3, <2>1, StoreStep
  <2> QED BY <1>2, <2>2 DEF Abstract!OfOne
<1>7. CASE Executes(<<"to_uppercase", d, s>>, StringsToUppercase(mem, d, s))
  <2>1. Executes(<<"to_uppercase", d, s>>, Store(mem, d, ToUppercaseOf(S)))
    BY <1>7 DEF StringsToUppercase
  <2>2. Abstract!Gives(d, ToUppercaseOf(S)) /\ call' = <<"to_uppercase", d, s>> /\ Typing
    BY <1>3, <2>1, StoreStep
  <2> QED BY <1>2, <2>2 DEF Abstract!OfOne
<1>8. ASSUME NEW start \in BOOLEAN, NEW end \in BOOLEAN,
             Executes(<<"trim", d, s, start, end>>, StringsTrim(mem, d, s, start, end))
      PROVE  Abstract!OfOne(d, s) /\ Typing
  <2>1. Executes(<<"trim", d, s, start, end>>, Store(mem, d, TrimOf(S, start, end)))
    BY <1>8 DEF StringsTrim
  <2>2. TrimOf(S, start, end) \in Seq(Nat) BY <1>4
  <2>3. /\ Abstract!Gives(d, TrimOf(S, start, end)) /\ call' = <<"trim", d, s, start, end>>
        /\ Typing
    BY <2>1, <2>2, StoreStep
  <2> QED BY <1>2, <2>3 DEF Abstract!OfOne
<1> QED BY <1>5, <1>6, <1>7, <1>8 DEF Unary
LEMMA BinaryStep ==
    ASSUME NEW d, Operates(d), NEW s \in Vars \ {d}, NEW t \in Vars \ {d}, Binary(d, s, t)
    PROVE  /\ \/ Abstract!Concat(d, s, t)
              \/ Abstract!Unconcat(d, s, t)
              \/ \E minmax \in {-1, 1} : Abstract!MinMax(d, s, t, minmax)
              \/ \E u \in Vars : Abstract!Replace(d, s, t, u)
           /\ Typing
<1> PICK S, T : S = Text(mem, s) /\ T = Text(mem, t) OBVIOUS
<1>1. S \in Seq(Nat) /\ T \in Seq(Nat) BY DEF Operates, Ready
<1>2. [w \in Vars |-> ShownText(w)][s] = S /\ [w \in Vars |-> ShownText(w)][t] = T BY Held
<1>3. ASSUME NEW m, Executes(<<"concat", d, s, t>>, m), Made(mem, m, d, {S \o T})
      PROVE  Abstract!Concat(d, s, t) /\ Typing
  <2>1. (\E r \in {S \o T} : Abstract!Gives(d, r)) /\ call' = <<"concat", d, s, t>> /\ Typing
    BY <1>3, MadeStep
  <2>2. \A r \in {S \o T} : r = S \o T OBVIOUS
  <2> QED BY <1>2, <2>1, <2>2 DEF Abstract!Concat
<1>4. CASE \/ Executes(<<"concat", d, s, t>>, StringsConcat(mem, d, s, t))
           \/ Executes(<<"concat", d, s, t>>, StringsConcatParams(mem, d, s, <<t>>))
  <2>1. /\ Made(mem, StringsConcat(mem, d, s, t), d, {S \o T})
        /\ Made(mem, StringsConcatParams(mem, d, s, <<t>>), d, {S \o T})
    BY ConcatMade, ConcatParamsMade DEF Operates
  <2> QED BY <1>3, <1>4, <2>1
<1>5. CASE Executes(<<"unconcat", d, s, t>>, StringsUnconcat(mem, d, s, t))
  <2>1. UnconcatOf(S, T) \in Seq(Nat) BY <1>1, JoinText
  <2>2. mem.var[s].size = 0 <=> S = <<>> BY SizeText DEF Operates, Ready
  <2>3. CASE S = <<>>
    <3>1. StringsUnconcat(mem, d, s, t) = StringsFree(mem, d) BY <2>2, <2>3 DEF StringsUnconcat
    <3>2. Made(mem, StringsFree(mem, d), d, LeftOf(Text(mem, d))) BY FreeMade DEF Operates
    <3>3. Abstract!OnlyFreed(d) /\ call' = <<"unconcat", d, s, t>> /\ Typing
      BY <1>5, <3>1, <3>2, LeftStep
    <3> QED BY <1>2, <2>3, <3>3 DEF Abstract!Unconcat
  <2>4. CASE S # <<>>
    <3>1. StringsUnconcat(mem, d, s, t) = Store(mem, d, UnconcatOf(S, T))
      BY <2>2, <2>4 DEF StringsUnconcat
    <3>2. Abstract!Gives(d, UnconcatOf(S, T)) /\ call' = <<"unconcat", d, s, t>> /\ Typing
      BY <1>5, <2>1, <3>1, StoreStep
    <3> QED BY <1>2, <2>4, <3>2 DEF Abstract!Unconcat
  <2> QED BY <2>3, <2>4
<1>6. ASSUME NEW k \in {-1, 1}, Executes(<<"minmax", d, s, t, k>>, StringsMinMax(mem, d, s, t, k))
      PROVE  Abstract!MinMax(d, s, t, k) /\ Typing
  <2>1. PICK v \in {s, t} : /\ StringsMinMax(mem, d, s, t, k) = StringsCopy(mem, d, v)
                            /\ Text(mem, v) = MinMaxOf(S, T, k)
    BY DEF StringsMinMax, MinMaxOf
  <2>2. Made(mem, StringsCopy(mem, d, v), d, {MinMaxOf(S, T, k)}) BY <2>1, CopyMade DEF Operates
  <2>3. /\ \E r \in {MinMaxOf(S, T, k)} : Abstract!Gives(d, r)
        /\ call' = <<"minmax", d, s, t, k>> /\ Typing
    BY <1>6, <2>1, <2>2, MadeStep
  <2>4. \A r \in {MinMaxOf(S, T, k)} : r = MinMaxOf(S, T, k) OBVIOUS
  <2> QED BY <1>2, <2>3, <2>4 DEF Abstract!MinMax
<1>7. ASSUME NEW u \in Vars \ {d},
             \/ Executes(<<"replace", d, s, t, u>>, StringsReplace(mem, d, s, t, u))
             \/ Executes(<<"replace_all", d, s, t, u>>, StringsReplaceAll(mem, d, s, t, u))
      PROVE  Abstract!Replace(d, s, t, u) /\ Typing
  <2> PICK U : U = Text(mem, u) OBVIOUS
  <2>1. U \in Seq(Nat) /\ [w \in Vars |-> ShownText(w)][u] = U BY Held DEF Operates, Ready
  <2>2. \A all \in BOOLEAN : ReplaceOf(S, T, U, all) \in Seq(Nat) BY <1>1, <2>1, ReplaceText
  <2>3. CASE Executes(<<"replace", d, s, t, u>>, StringsReplace(mem, d, s, t, u))
    <3>1. StringsReplace(mem, d, s, t, u) = Store(mem, d, ReplaceOf(S, T, U, FALSE))
      BY DEF StringsReplace, StringsReplaceApply
    <3>2. Abstract!Gives(d, ReplaceOf(S, T, U, FALSE)) /\ call' = <<"replace", d, s, t, u>> /\ Typing
      BY <2>2, <2>3, <3>1, StoreStep
    <3> QED BY <1>2, <2>1, <3>2 DEF Abstract!Replace
  <2>4. CASE Executes(<<"replace_all", d, s, t, u>>, StringsReplaceAll(mem, d, s, t, u))
    <3>1. StringsReplaceAll(mem, d, s, t, u) = Store(mem, d, ReplaceOf(S, T, U, TRUE))
      BY DEF StringsReplaceAll, StringsReplaceApply
    <3>2. /\ Abstract!Gives(d, ReplaceOf(S, T, U, TRUE)) /\ call' = <<"replace_all", d, s, t, u>>
          /\ Typing
      BY <2>2, <2>4, <3>1, StoreStep
    <3> QED BY <1>2, <2>1, <3>2 DEF Abstract!Replace
  <2> QED BY <1>7, <2>3, <2>4
<1> QED BY <1>4, <1>3, <1>5, <1>6, <1>7 DEF Binary

(* slice() and substring(), from a start and an end.                       *)
LEMMA PartStep ==
    ASSUME NEW d, Operates(d), NEW s \in Vars \ {d}, NEW start \in Int, NEW end \in Int,
           NEW c, Executes(c, StringsSubstr(mem, d, s, start, end))
    PROVE  Abstract!Part(d, s, start, end) /\ call' = c /\ Typing
<1> PICK S, m : S = Text(mem, s) /\ m = StringsSubstr(mem, d, s, start, end) OBVIOUS
<1>1. [w \in Vars |-> ShownText(w)][s] = S BY Held
<1>2. IF S = <<>> \/ start > end \/ start < 0 \/ end < 0
      THEN Made(mem, m, d, LeftOf(Text(mem, d)))
      ELSE IF Len(SubstrOf(S, start, end)) <= Word
      THEN Made(mem, m, d, {SubstrOf(S, start, end)})
      ELSE m.fault # "none"
  BY SubstrMade DEF Operates
<1>3. CASE S = <<>> \/ start > end \/ start < 0 \/ end < 0
  <2>1. Abstract!OnlyFreed(d) /\ call' = c /\ Typing BY <1>2, <1>3, LeftStep
  <2> QED BY <1>1, <1>3, <2>1 DEF Abstract!Part
<1>4. CASE ~(S = <<>> \/ start > end \/ start < 0 \/ end < 0)
  <2> PICK text : text = SubstrOf(S, start, end) OBVIOUS
  <2>1. CASE Len(text) <= Word
    <3>1. (\E r \in {text} : Abstract!Gives(d, r)) /\ call' = c /\ Typing
      BY <1>2, <1>4, <2>1, MadeStep
    <3>2. Abstract!Gives(d, text) BY <3>1
    <3> QED BY <1>1, <1>4, <2>1, <3>1, <3>2 DEF Abstract!Part
  <2>2. CASE ~(Len(text) <= Word)
    <3>1. m.fault # "none" BY <1>2, <1>4, <2>2
    <3>2. Only(mem, m, d) BY SubstrDoes DEF Does, Operates, Ready
    <3>3. Abstract!Refused /\ call' = c /\ Typing BY <3>1, <3>2, RefusedStep
    <3> QED BY <1>1, <1>4, <2>2, <3>3 DEF Abstract!Part
  <2> QED BY <2>1, <2>2
<1> QED BY <1>3, <1>4

LEMMA IndexedStep ==
    ASSUME NEW d, Operates(d), NEW s \in Vars \ {d}, NEW n \in Counts, Indexed(d, s, n)
    PROVE  /\ \/ Abstract!At(d, s, n)
              \/ Abstract!CharAt(d, s, n)
              \/ Abstract!Multiply(d, s, n)
              \/ \E op \in DOMAIN Opposite : Abstract!Shift(d, s, n, op)
              \/ \E end \in Counts : Abstract!Slice(d, s, n, end) \/ Abstract!Substring(d, s, n, end)
           /\ Typing
<1> PICK S : S = Text(mem, s) OBVIOUS
<1>1. S \in Seq(Nat) BY DEF Operates, Ready
<1>2. [w \in Vars |-> ShownText(w)][s] = S BY Held
<1>3. \A k \in Counts : k \in Int BY BoundsAssumption
<1>4. mem.var[s].size = 0 <=> S = <<>> BY SizeText DEF Operates, Ready
<1>5. AtOf(S, n) \in Seq(Nat) /\ CharAtOf(S, n) \in Seq(Nat) BY <1>1, <1>3, IndexText
<1>6. Made(mem, StringsFree(mem, d), d, LeftOf(Text(mem, d))) BY FreeMade DEF Operates
<1>7. ASSUME NEW what PROVE Fault(mem, what).fault = what /\ Only(mem, Fault(mem, what), d)
  BY DEF Fault, Operates, Ready, Owned, Shaped, Only
<1>8. CASE Executes(<<"at", d, s, n>>, StringsAt(mem, d, s, n))
  <2>1. CASE AtOf(S, n) = <<>>
    <3>1. StringsAt(mem, d, s, n) = StringsFree(mem, d) BY <2>1 DEF StringsAt, NoChar
    <3>2. Abstract!OnlyFreed(d) /\ call' = <<"at", d, s, n>> /\ Typing
      BY <1>6, <1>8, <3>1, LeftStep
    <3> QED BY <1>2, <2>1, <3>2 DEF Abstract!At
  <2>2. CASE AtOf(S, n) # <<>>
    <3>1. StringsAt(mem, d, s, n) = Store(mem, d, AtOf(S, n)) BY <2>2 DEF StringsAt, NoChar
    <3>2. Abstract!Gives(d, AtOf(S, n)) /\ call' = <<"at", d, s, n>> /\ Typing
      BY <1>5, <1>8, <3>1, StoreStep
    <3> QED BY <1>2, <2>2, <3>2 DEF Abstract!At
  <2> QED BY <2>1, <2>2
<1>9. CASE Executes(<<"char_at", d, s, n>>, StringsCharAt(mem, d, s, n))
  <2>1. CASE CharAtOf(S, n) = <<>>
    <3>1. StringsCharAt(mem, d, s, n) = Fault(mem, "out_of_range") BY <2>1 DEF StringsCharAt, NoChar
    <3>2. "out_of_range" # "none" OBVIOUS
    <3>3. Abstract!Refused /\ call' = <<"char_at", d, s, n>> /\ Typing
      BY <1>7, <1>9, <3>1, <3>2, RefusedStep
    <3> QED BY <1>2, <2>1, <3>3 DEF Abstract!CharAt
  <2>2. CASE CharAtOf(S, n) # <<>>
    <3>1. StringsCharAt(mem, d, s, n) = Store(mem, d, CharAtOf(S, n))
      BY <2>2 DEF StringsCharAt, NoChar
    <3>2. Abstract!Gives(d, CharAtOf(S, n)) /\ call' = <<"char_at", d, s, n>> /\ Typing
      BY <1>5, <1>9, <3>1, StoreStep
    <3> QED BY <1>2, <2>2, <3>2 DEF Abstract!CharAt
  <2> QED BY <2>1, <2>2
<1>10. CASE Executes(<<"multiply", d, s, n>>, StringsMultiply(mem, d, s, n))
  <2>1. CASE n < 0
    <3>1. StringsMultiply(mem, d, s, n) = Fault(mem, "incompatible_data") BY <2>1 DEF StringsMultiply
    <3>2. "incompatible_data" # "none" OBVIOUS
    <3>3. Abstract!Refused /\ call' = <<"multiply", d, s, n>> /\ Typing
      BY <1>7, <1>10, <3>1, <3>2, RefusedStep
    <3> QED BY <2>1, <3>3 DEF Abstract!Multiply
  <2>2. CASE ~(n < 0)
    <3>1. StringsMultiply(mem, d, s, n) = Store(mem, d, MultiplyOf(S, n)) BY <2>2 DEF StringsMultiply
    <3>2. n \in Nat BY <1>3, <2>2
    <3>3. MultiplyOf(S, n) \in Seq(Nat) BY <1>1, <3>2, RepeatText DEF MultiplyOf
    <3>4. Abstract!Gives(d, MultiplyOf(S, n)) /\ call' = <<"multiply", d, s, n>> /\ Typing
      BY <1>10, <3>1, <3>3, StoreStep
    <3> QED BY <1>2, <2>2, <3>4 DEF Abstract!Multiply
  <2> QED BY <2>1, <2>2
<1>11. ASSUME NEW op \in DOMAIN Opposite,
              Executes(<<"shift", d, s, n, op>>, StringsShift(mem, d, s, n, op))
       PROVE  Abstract!Shift(d, s, n, op) /\ Typing
  <2>1. CASE S = <<>> \/ ShiftOf(S, n, op) = <<>>
    <3>1. StringsShift(mem, d, s, n, op) = StringsFree(mem, d) BY <1>4, <2>1 DEF StringsShift
    <3>2. Abstract!OnlyFreed(d) /\ call' = <<"shift", d, s, n, op>> /\ Typing
      BY <1>6, <1>11, <3>1, LeftStep
    <3> QED BY <1>2, <2>1, <3>2 DEF Abstract!Shift
  <2>2. CASE ~(S = <<>> \/ ShiftOf(S, n, op) = <<>>)
    <3>1. StringsShift(mem, d, s, n, op) = Store(mem, d, ShiftOf(S, n, op))
      BY <1>4, <2>2 DEF StringsShift
    <3>2. ShiftOf(S, n, op) \in Seq(Nat) BY <1>1, <1>3, <2>2, ShiftText
    <3>3. Abstract!Gives(d, ShiftOf(S, n, op)) /\ call' = <<"shift", d, s, n, op>> /\ Typing
      BY <1>11, <3>1, <3>2, StoreStep
    <3> QED BY <1>2, <2>2, <3>3 DEF Abstract!Shift
  <2> QED BY <2>1, <2>2
<1>12. ASSUME NEW end \in Counts,
              Executes(<<"slice", d, s, n, end>>, StringsSlice(mem, d, s, n, end))
       PROVE  Abstract!Slice(d, s, n, end) /\ Typing
  <2>1. Executes(<<"slice", d, s, n, end>>, StringsSubstr(mem, d, s, n, end))
    BY <1>12 DEF StringsSlice
  <2>2. n \in Int /\ end \in Int BY <1>3
  <2>3. Abstract!Part(d, s, n, end) /\ call' = <<"slice", d, s, n, end>> /\ Typing
    BY <2>1, <2>2, PartStep
  <2> QED BY <2>3 DEF Abstract!Slice
<1>13. ASSUME NEW end \in Counts,
              Executes(<<"substring", d, s, n, end>>, StringsSubstring(mem, d, s, n, end))
       PROVE  Abstract!Substring(d, s, n, end) /\ Typing
  <2> PICK a, b : a = NotBelow0(n) /\ b = NotBelow0(end) OBVIOUS
  <2>1. /\ a = (IF n < 0 THEN 0 ELSE n) /\ b = (IF end < 0 THEN 0 ELSE end)
    BY DEF NotBelow0
  <2>4. n \in Int /\ end \in Int BY <1>3
  <2>5. a \in Int /\ b \in Int BY <2>1, <2>4
  <2>2. CASE a <= b
    <3>1. ~(b < a) BY <2>2, <2>5
    <3>2. StringsSubstring(mem, d, s, n, end) = StringsSubstr(mem, d, s, a, b)
      BY <3>1 DEF StringsSubstring
    <3>3. Abstract!Part(d, s, a, b) /\ call' = <<"substring", d, s, n, end>> /\ Typing
      BY <1>13, <2>5, <3>2, PartStep
    <3> QED BY <2>1, <2>2, <3>3 DEF Abstract!Substring
  <2>3. CASE ~(a <= b)
    <3>1. b < a BY <2>3, <2>5
    <3>2. StringsSubstring(mem, d, s, n, end) = StringsSubstr(mem, d, s, b, a)
      BY <3>1 DEF StringsSubstring
    <3>3. Abstract!Part(d, s, b, a) /\ call' = <<"substring", d, s, n, end>> /\ Typing
      BY <1>13, <2>5, <3>2, PartStep
    <3> QED BY <2>1, <2>3, <3>3 DEF Abstract!Substring
  <2> QED BY <2>2, <2>3
<1> QED BY <1>8, <1>9, <1>10, <1>11, <1>12, <1>13 DEF Indexed

(* A call has its destination and its first source where Texts looks.      *)
LEMMA MakesOperate ==
    ASSUME NEW d \in Vars, d \notin DOMAIN Consts, NEW s \in Vars, Abstract!Makes(d, s)
    PROVE  Abstract!Next
<1> DEFINE Placed == Len(call') > 2 /\ call'[2] = d /\ call'[3] = s
<1>a. ASSUME NEW a, call' = <<a, d, s>> PROVE Placed BY <1>a
<1>b. ASSUME NEW a, NEW b, call' = <<a, d, s, b>> PROVE Placed BY <1>b
<1>c. ASSUME NEW a, NEW b, NEW c, call' = <<a, d, s, b, c>> PROVE Placed BY <1>c
<1> HIDE DEF Placed
<1>1. /\ Abstract!Assign(d, s) => Placed
      /\ Abstract!OfOne(d, s) => Placed
      /\ \A t : Abstract!Concat(d, s, t) => Placed
      /\ \A t : Abstract!Unconcat(d, s, t) => Placed
      /\ \A t, k : Abstract!MinMax(d, s, t, k) => Placed
      /\ \A t, u : Abstract!Replace(d, s, t, u) => Placed
  BY <1>a, <1>b, <1>c, Zenon
     DEF Abstract!Assign, Abstract!OfOne, Abstract!Concat, Abstract!Unconcat, Abstract!MinMax,
         Abstract!Replace
<1>2. /\ \A n : Abstract!At(d, s, n) => Placed
      /\ \A n : Abstract!CharAt(d, s, n) => Placed
      /\ \A n : Abstract!Multiply(d, s, n) => Placed
      /\ \A n, op : Abstract!Shift(d, s, n, op) => Placed
      /\ \A n, end : Abstract!Slice(d, s, n, end) => Placed
      /\ \A n, end : Abstract!Substring(d, s, n, end) => Placed
  BY <1>b, <1>c, Zenon
     DEF Abstract!At, Abstract!CharAt, Abstract!Multiply, Abstract!Shift, Abstract!Slice,
         Abstract!Substring
<1>3. Placed BY <1>1, <1>2 DEF Abstract!Makes
<1>4. DOMAIN [c \in DOMAIN Consts |-> Literals[Consts[c]]] = DOMAIN Consts OBVIOUS
<1>5. Len(call') > 2 /\ call'[2] = d /\ call'[3] = s BY <1>3 DEF Placed
<1>6. Abstract!Operate BY <1>4, <1>5 DEF Abstract!Operate, Abstract!Results
<1> QED BY <1>6 DEF Abstract!Next

LEMMA OperationStep ==
    ASSUME TInv, Operation
    PROVE  Abstract!Next /\ Typing
<1>1. Ready(mem) /\ phase = "running" BY PhaseStep, ReadyMem DEF Operation
<1>2. \A d \in Externs \cup Temps : Operates(d)
  BY <1>1, Externals DEF Operates
<1>3. Temps \cup {Result} \subseteq Externs \cup Temps BY Externals
<1>4. ASSUME NEW d \in Externs \cup Temps, NEW s \in Vars \ {d},
             Abstract!Makes(d, s), Typing
      PROVE  Abstract!Next /\ Typing
  <2>1. d \in Vars /\ d \notin DOMAIN Consts BY <1>2 DEF Operates
  <2> QED BY <1>4, <2>1, MakesOperate
<1>5. ASSUME NEW d \in Externs \cup Temps, NEW s \in Vars \ {d}, Assignment(d, s)
      PROVE  Abstract!Next /\ Typing
  <2>1. Operates(d) BY <1>2
  <2>2. Abstract!Assign(d, s) /\ Typing BY <1>5, <2>1, AssignmentStep
  <2> QED BY <1>4, <2>2 DEF Abstract!Makes
<1>6. ASSUME NEW d \in Temps \cup {Result}, NEW s \in Vars \ {d}, NEW t \in Vars \ {d},
             Binary(d, s, t)
      PROVE  Abstract!Next /\ Typing
  <2>1. d \in Externs \cup Temps BY <1>3
  <2>2. Operates(d) BY <1>2, <2>1
  <2>3. /\ \/ Abstract!Concat(d, s, t)
           \/ Abstract!Unconcat(d, s, t)
           \/ \E minmax \in {-1, 1} : Abstract!MinMax(d, s, t, minmax)
           \/ \E u \in Vars : Abstract!Replace(d, s, t, u)
        /\ Typing
    BY <1>6, <2>2, BinaryStep
  <2>4. Abstract!Makes(d, s) BY <2>3 DEF Abstract!Makes
  <2> QED BY <1>4, <2>1, <2>3, <2>4
<1>7. ASSUME NEW d \in Temps \cup {Result}, NEW s \in Vars \ {d}, Unary(d, s)
      PROVE  Abstract!Next /\ Typing
  <2>1. d \in Externs \cup Temps BY <1>3
  <2>2. Operates(d) BY <1>2, <2>1
  <2>3. Abstract!OfOne(d, s) /\ Typing BY <1>7, <2>2, UnaryStep
  <2>4. Abstract!Makes(d, s) BY <2>3 DEF Abstract!Makes
  <2> QED BY <1>4, <2>1, <2>3, <2>4
<1>8. ASSUME NEW d \in Temps \cup {Result}, NEW s \in Vars \ {d}, NEW n \in Counts, Indexed(d, s, n)
      PROVE  Abstract!Next /\ Typing
  <2>1. d \in Externs \cup Temps BY <1>3
  <2>2. Operates(d) BY <1>2, <2>1
  <2>3. /\ \/ Abstract!At(d, s, n)
           \/ Abstract!CharAt(d, s, n)
           \/ Abstract!Multiply(d, s, n)
           \/ \E op \in DOMAIN Opposite : Abstract!Shift(d, s, n, op)
           \/ \E end \in Counts : \/ Abstract!Slice(d, s, n, end)
                                  \/ Abstract!Substring(d, s, n, end)
        /\ Typing
    BY <1>8, <2>2, IndexedStep
  <2>4. Abstract!Makes(d, s) BY <2>3 DEF Abstract!Makes
  <2> QED BY <1>4, <2>1, <2>3, <2>4
<1>9. CASE \E d \in Externs \cup Temps : \E s \in Vars \ {d} : Assignment(d, s)
  BY <1>5, <1>9
<1>10. CASE \E d \in Temps \cup {Result} : \E s \in Vars \ {d} :
               \/ \E t \in Vars \ {d} : Binary(d, s, t)
               \/ Unary(d, s)
               \/ \E n \in Counts : Indexed(d, s, n)
  BY <1>6, <1>7, <1>8, <1>10
<1> QED BY <1>9, <1>10 DEF Operation

(* A step of Texts, in both its variables.                                 *)
Simulated == TInv' /\ [Abstract!Next]_<<texts, call>>

LEMMA OperationSimulated == ASSUME TInv, Operation PROVE Simulated
<1>1. Abstract!Next /\ Typing BY OperationStep
<1>2. IInv' BY StepOwned DEF TInv, Next
<1>3. PICK d \in Externs \cup Temps : Does(mem, mem', d) BY OperationDoes DEF TInv
<1>4. \A c \in DOMAIN Consts : mem'.var[c] = Constant(c)
  BY <1>3, Externals DEF TInv, Does, Only
<1>5. /\ phase = "running"
      /\ phase' = IF mem'.fault = "none" THEN phase ELSE "crashed"
      /\ \A v \in Vars : mem'.fault = "none" => Text(mem', v) \in Followed
  BY PhaseStep
<1>6. TInv' BY <1>1, <1>2, <1>4, <1>5 DEF TInv, Typing
<1> QED BY <1>1, <1>6 DEF Simulated

LEMMA SetVariableSimulated ==
    ASSUME TInv, NEW name \in Externs, NEW input \in Inputs, SetVariable(name, input)
    PROVE  Simulated
<1>1. PICK v \in FindVariable(mem, name) : mem' = Store(mem, v, input)
  BY DEF SetVariable, Store
<1>2. v \in Externs BY DEF FindVariable, Externs
<1>3. v \in Vars /\ v \notin DOMAIN Consts BY <1>2, Externals
<1>4. IInv' BY StepOwned DEF TInv, Next
<1>5. phase = "loaded" /\ phase' = "loaded" /\ Available(mem) # {} BY DEF SetVariable
<1>6. input \in Followed /\ input \in Seq(Nat) BY BoundsAssumption
<1>7. Gives(mem, mem', v, input) BY <1>1, <1>3, <1>5, <1>6, StoreText DEF TInv, IInv
<1>8. Only(mem, mem', v) BY <1>1, <1>3, <1>5, StoreDoes DEF TInv, IInv, Does
<1>9. \A c \in DOMAIN Consts : mem'.var[c] = Constant(c)
  BY <1>3, <1>8 DEF TInv, Only, Vars
<1>10. /\ \A w \in Vars \ {v} : Text(mem', w) = Text(mem, w)
       /\ Text(mem', v) = input /\ AllTyped(mem') /\ mem'.fault = "none"
  BY <1>5, <1>7 DEF TInv, Gives, Kept
<1>11. TInv'
  <2>1. \A w \in Vars : Text(mem', w) \in Followed BY <1>5, <1>6, <1>10 DEF TInv
  <2> QED BY <1>4, <1>5, <1>9, <1>10, <2>1 DEF TInv
<1>12. texts' = [texts EXCEPT ![v] = input] BY <1>3, <1>5, <1>10 DEF texts, ShownText
<1>13. Abstract!HostSets(v)
  <2>1. call' = <<"set">> BY DEF SetVariable
  <2> QED BY <1>12, <2>1 DEF Abstract!HostSets, Abstract!Gives, texts
<1>14. Abstract!Next BY <1>2, <1>13 DEF Abstract!Next
<1> QED BY <1>11, <1>14 DEF Simulated

(* The file before it is loaded and after it was cleaned up: no text.      *)
LEMMA FreshInv ==
    ASSUME IInv', mem'.var = Image, mem'.fault = "none", phase' \in {"none", "loaded"}
    PROVE  TInv'
  BY FreshText DEF TInv

LEMMA LoadSimulated == ASSUME TInv, Load PROVE Simulated
<1>1. IInv' BY StepOwned DEF TInv, Next
<1>2. phase = "none" /\ phase' = "loaded" /\ mem.var = Image /\ mem.fault = "none"
  BY DEF TInv, Load
<1>3. mem'.var = Image /\ mem'.fault = mem.fault BY DEF TInv, IInv, Owned, Shaped, Load
<1>4. TInv' BY <1>1, <1>2, <1>3, FreshInv
<1>5. \A v \in Vars : Text(mem', v) = Text(mem, v) BY <1>2, <1>3, FreshText
<1>6. texts' = texts /\ call' = call BY <1>2, <1>5 DEF texts, ShownText, Load
<1> QED BY <1>4, <1>6 DEF Simulated

LEMMA CleanSimulated == ASSUME TInv, Clean PROVE Simulated
<1>1. IInv' BY StepOwned DEF TInv, Next
<1>2. phase = "loaded" /\ phase' = "none" BY DEF Clean
<1>3. mem'.var = Image /\ mem'.fault = mem.fault BY DEF TInv, IInv, Owned, Shaped, Clean
<1>4. TInv' BY <1>1, <1>2, <1>3, FreshInv DEF TInv
<1>5. \A v \in Vars : Text(mem', v) = IF v \in Temps \cup Externs THEN <<>> ELSE Text(mem, v)
  BY <1>3, FreshText, ConstantShown, Externals DEF TInv
<1>6. \A v \in Vars : ShownText(v)' = IF v \in Temps \cup Externs THEN <<>> ELSE ShownText(v)
  BY <1>2, <1>5 DEF ShownText
<1>7. call' = <<"none">> BY DEF Clean
<1>8. Abstract!HostCleans BY <1>6, <1>7 DEF Abstract!HostCleans, Abstract!Forget
<1> QED BY <1>4, <1>8 DEF Simulated, Abstract!Next

LEMMA RestartSimulated == ASSUME TInv, Restart PROVE Simulated
<1>1. IInv' BY StepOwned DEF TInv, Next
<1>2. phase = "crashed" /\ phase' = "none" BY DEF Restart
<1>3. mem'.var = Image /\ mem'.fault = "none" BY DEF Restart, NewProcess
<1>4. TInv' BY <1>1, <1>2, <1>3, FreshInv
<1>5. \A v \in Vars : ShownText(v)' = ShownText(v)
  <2>1. \A v \in Vars : ShownText(v)' = Text(mem', v) BY <1>2 DEF ShownText
  <2>2. \A v \in DOMAIN Consts : ShownText(v) = Literals[Consts[v]]
    <3>1. \A v \in DOMAIN Consts : ShownText(v) = Text(mem, v) BY DEF ShownText
    <3> QED BY <3>1, ConstantShown DEF TInv
  <2>3. \A v \in Vars : v \notin DOMAIN Consts => ShownText(v) = <<>> BY <1>2 DEF ShownText
  <2> QED BY <1>3, <2>1, <2>2, <2>3, FreshText
<1>6. \A v \in Vars : v \notin DOMAIN Consts => ShownText(v) = <<>> BY <1>2 DEF ShownText
<1>7. \A v \in Vars : ShownText(v)' = IF v \in Temps \cup Externs THEN <<>> ELSE ShownText(v)
  BY <1>5, <1>6, Externals
<1>8. call' = <<"none">> BY DEF Restart
<1>9. Abstract!HostCleans BY <1>7, <1>8 DEF Abstract!HostCleans, Abstract!Forget
<1> QED BY <1>4, <1>9 DEF Simulated, Abstract!Next

(* A run takes and gives back temporaries: the others keep their buffers.  *)
LEMMA TemporariesSimulated ==
    ASSUME TInv, IInv', phase \in {"loaded", "running"}, phase' \in {"loaded", "running"},
           mem'.fault = mem.fault, call' = <<"run">>,
           \A v \in Vars : mem'.var[v] = IF v \in Temps THEN EmptyString("") ELSE mem.var[v],
           \A v \in Vars \ Temps :
               mem.var[v].allocated => mem'.heap[mem.var[v].at] = mem.heap[mem.var[v].at]
    PROVE  Simulated
<1>1. \A v \in Temps : Text(mem', v) = <<>> /\ Typed(mem'.var[v])
  <2> TAKE v \in Temps
  <2>1. mem'.var[v] = EmptyString("") BY Externals
  <2>2. Text(mem', v) = TextIn(mem'.heap, mem'.var[v]) BY InText
  <2> QED BY <2>1, <2>2, EmptyTyped
<1>2. \A v \in Vars \ Temps : Text(mem', v) = Text(mem, v)
  BY KeptText DEF TInv, IInv
<1>3. TInv'
  <2>1. AllTyped(mem') BY <1>1 DEF AllTyped, TInv
  <2>2. \A v \in Vars : Text(mem', v) \in Followed BY <1>1, <1>2, BoundsAssumption DEF TInv
  <2>3. \A c \in DOMAIN Consts : mem'.var[c] = Constant(c) BY Externals DEF TInv
  <2> QED BY <2>1, <2>2, <2>3 DEF TInv
<1>4. \A v \in Vars : ShownText(v)' = IF v \in Temps THEN <<>> ELSE ShownText(v)
  BY <1>1, <1>2 DEF ShownText
<1>5. Abstract!HostRuns BY <1>4 DEF Abstract!HostRuns, Abstract!Forget
<1>6. Abstract!Next BY <1>5 DEF Abstract!Next
<1> QED BY <1>3, <1>6 DEF Simulated

LEMMA RunSimulated == ASSUME TInv, Run PROVE Simulated
<1>1. IInv' BY StepOwned DEF TInv, Next
<1>2. phase = "loaded" /\ phase' = "running" /\ call' = <<"run">> BY DEF Run
<1>3. /\ mem'.fault = mem.fault /\ mem'.heap = mem.heap
      /\ \A v \in Vars : mem'.var[v] = IF v \in Temps THEN EmptyString("") ELSE mem.var[v]
  BY DEF Run, TInv, IInv, Owned, Shaped
<1> QED BY <1>1, <1>2, <1>3, TemporariesSimulated

LEMMA ReturnSimulated == ASSUME TInv, Return PROVE Simulated
<1> DEFINE owned == {mem.var[t].at : t \in {u \in Temps : mem.var[u].allocated}}
<1>1. IInv' BY StepOwned DEF TInv, Next
<1>2. phase = "running" /\ phase' = "loaded" /\ call' = <<"run">> BY DEF Return
<1>3. /\ mem'.fault = mem.fault
      /\ mem'.heap = [b \in Buffers |-> IF b \in owned THEN <<>> ELSE mem.heap[b]]
      /\ \A v \in Vars : mem'.var[v] = IF v \in Temps THEN EmptyString("") ELSE mem.var[v]
  BY DEF Return, TInv, IInv, Owned, Shaped
<1>4. \A b \in owned : \E t \in Temps : mem.var[t].allocated /\ mem.var[t].at = b
  OBVIOUS
<1> HIDE DEF owned
<1>5. ASSUME NEW v \in Vars \ Temps, mem.var[v].allocated
      PROVE  mem'.heap[mem.var[v].at] = mem.heap[mem.var[v].at]
  <2>1. mem.var[v].at \in Buffers BY <1>5 DEF TInv, IInv, Owned
  <2>2. mem.var[v].at \notin owned BY <1>4, <1>5, Externals DEF TInv, IInv, Owned
  <2> QED BY <1>3, <2>1, <2>2
<1> QED BY <1>1, <1>2, <1>3, <1>5, TemporariesSimulated

LEMMA StepTexts == TInv /\ [Next]_vars => TInv' /\ [Abstract!Next]_<<texts, call>>
<1> SUFFICES ASSUME TInv, [Next]_vars PROVE Simulated BY DEF Simulated
<1>1. CASE Load BY <1>1, LoadSimulated
<1>2. CASE \E name \in Externs, text \in Inputs : SetVariable(name, text)
  BY <1>2, SetVariableSimulated
<1>3. CASE Clean BY <1>3, CleanSimulated
<1>4. CASE Run BY <1>4, RunSimulated
<1>5. CASE Operation BY <1>5, OperationSimulated
<1>6. CASE Return BY <1>6, ReturnSimulated
<1>7. CASE Restart BY <1>7, RestartSimulated
<1>8. CASE UNCHANGED vars
  <2>1. mem' = mem /\ phase' = phase /\ call' = call BY <1>8 DEF vars
  <2>2. IInv' BY <1>8, StepOwned DEF TInv
  <2>3. TInv' BY <2>1, <2>2 DEF TInv, AllTyped
  <2>4. texts' = texts BY <2>1 DEF texts, ShownText
  <2> QED BY <2>1, <2>3, <2>4 DEF Simulated
<1> QED BY <1>1, <1>2, <1>3, <1>4, <1>5, <1>6, <1>7, <1>8 DEF Next

(* The strings of a running script, whatever is shared, moved or freed     *)
(* below, are the texts of Texts: an operation gives its destination the   *)
(* text that its name and its arguments tell, with the exception of        *)
(* Texts!Left, no other variable changes, and only the calls that Texts    *)
(* refuses end the process (the strings_*() functions of binary.cpp,       *)
(* running_file::set_variable(), run() and clean()).                       *)
THEOREM TextsImplemented == Spec => ImplementsTexts
<1>1. Init => TInv /\ Abstract!Init BY InitTexts
<1>2. TInv /\ [Next]_vars => TInv' /\ [Abstract!Next]_<<texts, call>> BY StepTexts
<1> QED BY <1>1, <1>2, PTL DEF Spec, ImplementsTexts, Abstract!Spec, Abstract!state, texts
=============================================================================
