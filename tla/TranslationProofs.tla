-------------------------- MODULE TranslationProofs --------------------------
(***************************************************************************)
(* Proofs about the answer that a client is sent (StreamTranslator), for   *)
(* any dialect, frames and chunks: it is ended once, the stream says what  *)
(* the whole body would, the client reads all of it, and the blocks of an  *)
(* event stream are begun and stopped in order.                            *)
(***************************************************************************)
EXTENDS StreamTranslator, FiniteSetTheorems, FunctionTheorems,
        SequenceTheorems, WellFoundedInduction, TLAPS

\* A set of natural numbers that is not empty has a least element.
LEMMA LeastNat ==
    ASSUME NEW T \in SUBSET Nat, T # {}
    PROVE  \E x \in T : \A y \in T : x <= y
<1>1. IsWellFoundedOn(OpToRel(<, Nat), Nat)
  BY NatLessThanWellFounded
<1>2. PICK x \in T : \A y \in T : ~ (<<y, x>> \in OpToRel(<, Nat))
  BY <1>1, WFMin
<1>3. \A y \in T : ~ (y < x)
  <2> SUFFICES ASSUME NEW y \in T, y < x PROVE FALSE
    OBVIOUS
  <2>1. <<y, x>> \in OpToRel(<, Nat)
    BY DEF OpToRel
  <2> QED BY <2>1, <1>2
<1> QED BY <1>3

-----------------------------------------------------------------------------
(* Flattening. *)

\* Induction, for a set of natural numbers.
LEMMA AllNat ==
    ASSUME NEW S, 0 \in S, \A n \in Nat : n \in S => n + 1 \in S
    PROVE  \A n \in Nat : n \in S
<1> SUFFICES ASSUME NEW k \in Nat, k \notin S PROVE FALSE
  OBVIOUS
<1> DEFINE T == {n \in Nat : n \notin S}
<1>1. PICK x \in T : \A y \in T : x <= y
  <2>1. k \in T /\ T \in SUBSET Nat
    OBVIOUS
  <2> HIDE DEF T
  <2> QED BY <2>1, LeastNat
<1>2. x # 0 /\ x \in Nat /\ x - 1 \in Nat /\ x - 1 \notin T
  BY <1>1
<1>3. x - 1 \in S
  BY <1>2
<1>4. (x - 1) + 1 \in S
  BY <1>2, <1>3
<1> QED BY <1>1, <1>2, <1>4

\* What FlattenSeq builds up.
Flattens(f, s) ==
    f = [i \in 1..Len(s) |-> IF i = 1 THEN s[i] ELSE f[i - 1] \o s[i]]

\* There is such a function.
LEMMA Flattening ==
    ASSUME NEW s
    PROVE  \A n \in Nat : \E f :
              f = [i \in 1..n |-> IF i = 1 THEN s[i] ELSE f[i - 1] \o s[i]]
<1> DEFINE P(n) == \E f : f = [i \in 1..n |-> IF i = 1 THEN s[i] ELSE f[i - 1] \o s[i]]
           S == {n \in Nat : P(n)}
<1>1. 0 \in S
  <2>1. 1..0 = {}
    OBVIOUS
  <2>2. PICK f : f = [i \in 1..0 |-> i]
    OBVIOUS
  <2>3. f = [i \in 1..0 |-> IF i = 1 THEN s[i] ELSE f[i - 1] \o s[i]]
    BY <2>1, <2>2
  <2> QED BY <2>3
<1>2. ASSUME NEW n \in Nat, n \in S PROVE n + 1 \in S
  <2>1. PICK f : f = [i \in 1..n |-> IF i = 1 THEN s[i] ELSE f[i - 1] \o s[i]]
    BY <1>2
  <2>2. PICK last : last = IF n = 0 THEN s[1] ELSE f[n] \o s[n + 1]
    OBVIOUS
  <2>3. PICK g : g = [i \in 1..(n + 1) |-> IF i = n + 1 THEN last ELSE f[i]]
    OBVIOUS
  <2>4. ASSUME NEW i \in 1..(n + 1)
        PROVE  g[i] = IF i = 1 THEN s[i] ELSE g[i - 1] \o s[i]
    <3>1. CASE i = n + 1 /\ n = 0
      BY <3>1, <2>2, <2>3
    <3>2. CASE i = n + 1 /\ n # 0
      <4>1. i - 1 = n /\ i - 1 \in 1..(n + 1) /\ i # 1 /\ i - 1 # n + 1
        BY <3>2
      <4>2. g[i - 1] = f[n] /\ g[i] = last
        BY <4>1, <3>2, <2>3
      <4>3. last = f[n] \o s[n + 1]
        BY <3>2, <2>2
      <4> QED BY <4>1, <4>2, <4>3, <3>2
    <3>3. CASE i # n + 1 /\ i = 1
      BY <3>3, <2>1, <2>3
    <3>4. CASE i # n + 1 /\ i # 1
      <4>1. i \in 1..n /\ i - 1 \in 1..(n + 1) /\ i - 1 # n + 1
        BY <3>4
      <4>2. g[i] = f[i] /\ g[i - 1] = f[i - 1]
        BY <4>1, <2>3
      <4>3. f[i] = f[i - 1] \o s[i]
        BY <4>1, <3>4, <2>1
      <4> QED BY <4>2, <4>3, <3>4
    <3> QED BY <3>1, <3>2, <3>3, <3>4
  <2>5. g = [i \in 1..(n + 1) |-> IF i = 1 THEN s[i] ELSE g[i - 1] \o s[i]]
    BY <2>3, <2>4
  <2>6. P(n + 1)
    BY <2>5
  <2> HIDE DEF P
  <2> QED BY <2>6
<1> HIDE DEF S
<1>3. \A n \in Nat : n \in S
  BY <1>1, <1>2, AllNat
<1> QED BY <1>3 DEF S

\* FlattenSeq is the last value of such a function.
LEMMA FlattenIs ==
    ASSUME NEW s, Len(s) \in Nat, Len(s) # 0
    PROVE  \E f : Flattens(f, s) /\ FlattenSeq(s) = f[Len(s)]
<1>1. \E f : Flattens(f, s)
  BY Flattening DEF Flattens
<1>2. PICK f : f = CHOOSE g : Flattens(g, s)
  OBVIOUS
<1>3. Flattens(f, s)
  BY <1>1, <1>2
<1>4. FlattenSeq(s) = f[Len(s)]
  BY <1>2 DEF FlattenSeq, Flattens
<1> QED BY <1>3, <1>4

\* Nothing flattens to nothing.
LEMMA FlattenNone == FlattenSeq(<<>>) = <<>>
<1>1. Len(<<>>) = 0
  OBVIOUS
<1> QED BY <1>1, ZenonT(30) DEF FlattenSeq

\* One more sequence at the end is appended to the result.
LEMMA FlattenAppend ==
    ASSUME NEW X, NEW s \in Seq(Seq(X)), NEW x \in Seq(X)
    PROVE  FlattenSeq(Append(s, x)) = FlattenSeq(s) \o x
<1>1. PICK n \in Nat : n = Len(s)
  OBVIOUS
<1>2. PICK a : a = Append(s, x)
  OBVIOUS
<1>3. /\ Len(a) = n + 1 /\ a[n + 1] = x /\ \A i \in 1..n : a[i] = s[i]
  BY <1>1, <1>2, AppendProperties
<1>4. PICK g : Flattens(g, a) /\ FlattenSeq(a) = g[n + 1]
  BY <1>3, FlattenIs
<1>5. CASE n = 0
  <2>1. s = <<>> /\ FlattenSeq(s) = <<>>
    BY <1>1, <1>5, EmptySeq, FlattenNone
  <2>2. g[n + 1] = x
    BY <1>3, <1>4, <1>5 DEF Flattens
  <2> QED BY <2>1, <2>2, <1>2, <1>4
<1>6. CASE n # 0
  <2>1. PICK f : Flattens(f, s) /\ FlattenSeq(s) = f[n]
    BY <1>1, <1>6, FlattenIs
  <2> DEFINE S == {i \in Nat : i \in 1..n => g[i] = f[i]}
  <2>2. ASSUME NEW i \in Nat, i \in S PROVE i + 1 \in S
    <3> SUFFICES ASSUME i + 1 \in 1..n PROVE g[i + 1] = f[i + 1]
      OBVIOUS
    <3>1. CASE i = 0
      BY <3>1, <1>1, <1>3, <1>4, <2>1 DEF Flattens
    <3>2. CASE i # 0
      <4>1. i \in 1..n /\ i + 1 \in 1..(n + 1) /\ (i + 1) - 1 = i /\ i + 1 # 1
        BY <3>2
      <4>2. g[i + 1] = g[i] \o a[i + 1]
        BY <4>1, <1>3, <1>4 DEF Flattens
      <4>3. f[i + 1] = f[i] \o s[i + 1]
        BY <4>1, <1>1, <2>1 DEF Flattens
      <4> QED BY <4>1, <4>2, <4>3, <2>2, <1>3
    <3> QED BY <3>1, <3>2
  <2>3. 0 \in S
    OBVIOUS
  <2> HIDE DEF S
  <2>4. n \in S
    BY <2>2, <2>3, AllNat
  <2>5. g[n] = f[n]
    BY <2>4, <1>6 DEF S
  <2>6. g[n + 1] = g[n] \o a[n + 1]
    <3>1. n + 1 \in 1..(n + 1) /\ n + 1 # 1 /\ (n + 1) - 1 = n
      BY <1>6
    <3> QED BY <3>1, <1>3, <1>4 DEF Flattens
  <2> QED BY <2>1, <2>5, <2>6, <1>2, <1>3, <1>4
<1> QED BY <1>5, <1>6

\* What is flattened is a sequence of the same elements.
LEMMA FlattenType ==
    ASSUME NEW X, NEW s \in Seq(Seq(X)) PROVE FlattenSeq(s) \in Seq(X)
<1>1. PICK n \in Nat : n = Len(s)
  OBVIOUS
<1>2. CASE n = 0
  <2>1. s = <<>>
    BY <1>1, <1>2, EmptySeq
  <2> QED BY <2>1, FlattenNone, EmptySeq
<1>3. CASE n # 0
  <2>1. PICK f : Flattens(f, s) /\ FlattenSeq(s) = f[n]
    BY <1>1, <1>3, FlattenIs
  <2> DEFINE S == {i \in Nat : i \in 1..n => f[i] \in Seq(X)}
  <2>2. ASSUME NEW i \in Nat, i \in S PROVE i + 1 \in S
    <3> SUFFICES ASSUME i + 1 \in 1..n PROVE f[i + 1] \in Seq(X)
      OBVIOUS
    <3>0. s[i + 1] \in Seq(X)
      BY <1>1
    <3>1. CASE i = 0
      BY <3>0, <3>1, <1>1, <2>1 DEF Flattens
    <3>2. CASE i # 0
      <4>1. i \in 1..n /\ (i + 1) - 1 = i /\ i + 1 # 1
        BY <3>2
      <4>2. f[i + 1] = f[i] \o s[i + 1]
        BY <4>1, <1>1, <2>1 DEF Flattens
      <4> QED BY <4>1, <4>2, <2>2, <3>0
    <3> QED BY <3>1, <3>2
  <2>3. 0 \in S
    OBVIOUS
  <2> HIDE DEF S
  <2>4. n \in S
    BY <2>2, <2>3, AllNat
  <2> QED BY <2>1, <2>4, <1>3 DEF S
<1> QED BY <1>2, <1>3

-----------------------------------------------------------------------------
(* Types of the answer and of the translator. *)

Ids == CallIds \cup ({"call"} \X Nat)
Calls == [id : Ids, name : CallNames \cup {NoText}, args : Texts]
Outs == [thinking : Texts, text : Texts, signed : BOOLEAN, tools : Seq(Calls),
         truncated : BOOLEAN]
Items == Ids \cup ({"thinking", "text"} \X Int)
Marks == {NoText, <<"tool_use">>, <<"max_tokens">>, <<"end_turn">>}
Datas == Seq(Tokens \cup Items \cup Marks)
Events ==
    {e \in [ev : {"begin", "start", "delta", "signature", "content", "stop", "final"},
            item : Items \cup Marks, idx : Int, data : Datas] :
        e.ev = "delta" => e.item \in Items /\ e.data \in Texts}
Usages == {NoPart} \cup {extract_usage(f.usage) : f \in Frames}
Translators ==
    [sent : Seq(Events), out : Outs, usage : Usages, begun : BOOLEAN,
     thinkOpen : BOOLEAN, textOpen : BOOLEAN, thinkIdx : Int, textIdx : Int,
     thinkItem : {NoText} \cup ({"thinking"} \X Int),
     textItem : {NoText} \cup ({"text"} \X Int), nextIdx : Nat,
     started : SUBSET Ids, completed : SUBSET (Ids \cup {NoText}),
     emitted : UNION {[S -> Texts] : S \in SUBSET Ids}]

\* A part of a tool call.
Part(p) == /\ p.id \in CallIds \cup {NoText} /\ p.name \in CallNames \cup {NoText}
           /\ p.args \in Texts /\ p.complete \in BOOLEAN

\* What two texts of arguments are merged to is a text.
LEMMA MergeType ==
    ASSUME NEW a \in Texts, NEW b \in Texts PROVE merge_tool_arg_text(a, b) \in Texts
<1>1. a \o b \in Texts
  BY ConcatProperties DEF Texts
<1> QED BY <1>1 DEF merge_tool_arg_text

\* The calls after a part, and the call it is merged into or made of.
Merged(c, p) == [c EXCEPT !.name = IF p.name = NoText THEN c.name ELSE p.name,
                          !.args = merge_tool_arg_text(c.args, p.args)]
Hits(tools, p) == {i \in DOMAIN tools : Matches(tools[i], p)}
NewCall(tools, p) ==
    [id |-> IF p.id = NoText THEN <<"call", Len(tools) + 1>> ELSE p.id,
     name |-> p.name, args |-> p.args]
LastHit(tools, p) == CHOOSE i \in Hits(tools, p) : \A j \in Hits(tools, p) : j <= i
Applied(tools, p) ==
    IF Hits(tools, p) # {}
    THEN [tools EXCEPT ![LastHit(tools, p)] = Merged(tools[LastHit(tools, p)], p)]
    ELSE Append(tools, NewCall(tools, p))

\* A part changes the calls alone, by what they were.
LEMMA ApplyIs ==
    ASSUME NEW o \in Outs, NEW p
    PROVE  apply_tool_call_part(o, p) = [o EXCEPT !.tools = Applied(o.tools, p)]
<1>1. apply_tool_call_part(o, p) =
        IF Hits(o.tools, p) # {}
        THEN [o EXCEPT !.tools[LastHit(o.tools, p)] = Merged(o.tools[LastHit(o.tools, p)], p)]
        ELSE [o EXCEPT !.tools = Append(o.tools, NewCall(o.tools, p))]
  BY Zenon DEF apply_tool_call_part, Hits, LastHit, Merged, NewCall
<1>2. PICK l : l = LastHit(o.tools, p)
  OBVIOUS
<1>3. PICK m : m = Merged(o.tools[l], p)
  OBVIOUS
<1>4. PICK n : n = NewCall(o.tools, p)
  OBVIOUS
<1>5. CASE Hits(o.tools, p) # {}
  <2>1. apply_tool_call_part(o, p) = [o EXCEPT !.tools[l] = m]
    BY <1>1, <1>2, <1>3, <1>5
  <2>2. PICK c : c = [o.tools EXCEPT ![l] = m]
    OBVIOUS
  <2>3. c = Applied(o.tools, p)
    BY <1>2, <1>3, <1>5, <2>2 DEF Applied
  <2>4. [o EXCEPT !.tools[l] = m] = [o EXCEPT !.tools = c]
    BY <2>2 DEF Outs
  <2> QED BY <2>1, <2>3, <2>4
<1>6. CASE Hits(o.tools, p) = {}
  <2>1. PICK c : c = Append(o.tools, n)
    OBVIOUS
  <2>2. c = Applied(o.tools, p)
    BY <1>4, <1>6, <2>1 DEF Applied
  <2>3. apply_tool_call_part(o, p) = [o EXCEPT !.tools = c]
    BY <1>1, <1>4, <1>6, <2>1
  <2> QED BY <2>2, <2>3
<1> QED BY <1>5, <1>6

\* A call that a part is merged into is a call.
LEMMA MergedType ==
    ASSUME NEW c \in Calls, NEW p, Part(p) PROVE Merged(c, p) \in Calls
<1>1. merge_tool_arg_text(c.args, p.args) \in Texts
  BY MergeType DEF Calls, Part
<1> QED BY <1>1 DEF Calls, Part, Merged

\* The calls after a part are calls.
LEMMA AppliedType ==
    ASSUME NEW s \in Seq(Calls), NEW p, Part(p)
    PROVE  Applied(s, p) \in Seq(Calls) /\ Len(Applied(s, p)) \in Nat \ {0}
<1>1. CASE Hits(s, p) # {}
  <2>1. PICK l : l = LastHit(s, p)
    OBVIOUS
  <2>2. Applied(s, p) = [s EXCEPT ![l] = Merged(s[l], p)]
    BY <1>1, <2>1 DEF Applied
  <2>3. CASE l \in 1..Len(s)
    <3>1. Merged(s[l], p) \in Calls
      BY <2>3, MergedType
    <3> QED BY <2>2, <2>3, <3>1, ExceptSeq
  <2>4. CASE l \notin 1..Len(s)
    <3>1. Applied(s, p) = s
      BY <2>2, <2>4
    <3>2. Len(s) # 0
      BY <1>1 DEF Hits
    <3> QED BY <3>1, <3>2
  <2> QED BY <2>3, <2>4
<1>2. CASE Hits(s, p) = {}
  <2>1. NewCall(s, p) \in Calls
    <3>1. Len(s) + 1 \in Nat
      OBVIOUS
    <3> QED BY <3>1 DEF NewCall, Calls, Part, Ids
  <2> QED BY <1>2, <2>1, AppendProperties DEF Applied
<1> QED BY <1>1, <1>2

\* The rest of the answer is left alone.
LEMMA ApplyType ==
    ASSUME NEW o \in Outs, NEW p, Part(p), NEW u, u = apply_tool_call_part(o, p)
    PROVE  /\ u \in Outs /\ u.tools = Applied(o.tools, p) /\ Len(u.tools) \in Nat \ {0}
           /\ u.text = o.text /\ u.thinking = o.thinking /\ u.truncated = o.truncated
<1>1. PICK c : c = Applied(o.tools, p)
  OBVIOUS
<1>2. u = [o EXCEPT !.tools = c]
  BY <1>1, ApplyIs
<1>3. o.tools \in Seq(Calls)
  BY DEF Outs
<1>4. c \in Seq(Calls) /\ Len(c) \in Nat \ {0}
  BY <1>1, <1>3, AppliedType
<1> QED BY <1>1, <1>2, <1>4 DEF Outs

-----------------------------------------------------------------------------
(* What the client hears. *)

\* The increments among the events s that are of an item in C.
Heard(s, C) ==
    FlattenSeq([i \in 1..Len(s) |->
        IF s[i].ev = "delta" /\ s[i].item \in C THEN s[i].data ELSE <<>>])

\* It grows by the increments of these items.
LEMMA HeardAppend ==
    ASSUME NEW s \in Seq(Events), NEW e \in Events, NEW C
    PROVE  Heard(Append(s, e), C) =
             IF e.ev = "delta" /\ e.item \in C THEN Heard(s, C) \o e.data ELSE Heard(s, C)
<1> DEFINE part(d) == IF d.ev = "delta" /\ d.item \in C THEN d.data ELSE <<>>
           all(q) == [i \in 1..Len(q) |-> part(q[i])]
<1>1. PICK q : q = Append(s, e)
  OBVIOUS
<1>2. q \in Seq(Events) /\ Len(q) = Len(s) + 1 /\ q[Len(s) + 1] = e
      /\ \A i \in 1..Len(s) : q[i] = s[i]
  BY <1>1, AppendProperties
<1>3. \A d \in Events : part(d) \in Texts
  BY EmptySeq DEF Events, Texts
<1>4. all(s) \in Seq(Texts) /\ Len(all(s)) = Len(s) /\ part(e) \in Texts
  BY <1>3
<1>5. all(q) = Append(all(s), part(e))
  BY <1>2, <1>3, <1>4
<1>6. FlattenSeq(Append(all(s), part(e))) = FlattenSeq(all(s)) \o part(e)
  BY <1>4, FlattenAppend DEF Texts
<1>7. FlattenSeq(all(s)) \in Texts
  BY <1>4, FlattenType DEF Texts
<1>8. FlattenSeq(all(s)) \o <<>> = FlattenSeq(all(s))
  BY <1>7, ConcatEmptySeq DEF Texts
<1>9. Heard(q, C) = FlattenSeq(all(q)) /\ Heard(s, C) = FlattenSeq(all(s))
  BY DEF Heard
<1> HIDE DEF all
<1>10. Heard(q, C) = Heard(s, C) \o part(e)
  BY <1>5, <1>6, <1>9
<1> QED BY <1>1, <1>8, <1>9, <1>10

\* It is a text.
LEMMA HeardType ==
    ASSUME NEW s \in Seq(Events), NEW C PROVE Heard(s, C) \in Texts
<1> DEFINE part(d) == IF d.ev = "delta" /\ d.item \in C THEN d.data ELSE <<>>
           all == [i \in 1..Len(s) |-> part(s[i])]
<1>1. \A d \in Events : part(d) \in Texts
  BY EmptySeq DEF Events, Texts
<1>2. all \in Seq(Texts)
  BY <1>1
<1>3. FlattenSeq(all) \in Texts
  BY <1>2, FlattenType DEF Texts
<1> QED BY <1>3 DEF Heard

\* No event, no text.
LEMMA HeardNone == ASSUME NEW C PROVE Heard(<<>>, C) = <<>>
<1>1. [i \in 1..Len(<<>>) |->
        IF <<>>[i].ev = "delta" /\ <<>>[i].item \in C THEN <<>>[i].data ELSE <<>>] = <<>>
  OBVIOUS
<1> QED BY <1>1, FlattenNone DEF Heard

-----------------------------------------------------------------------------
(* What each part of feed makes the client hear. *)

Trans == {t \in Translators : /\ t.thinkOpen => t.thinkItem \in {"thinking"} \X Int
                              /\ t.textOpen => t.textItem \in {"text"} \X Int}
Unended(s) == \A i \in 1..Len(s) : s[i].ev # "final"

\* From t to u the client hears nothing and nothing is collected.
Silent(t, u) ==
    /\ u \in Trans
    /\ u.out = t.out /\ u.completed = t.completed /\ u.emitted = t.emitted
    /\ \A C : Heard(u.sent, C) = Heard(t.sent, C)
    /\ Unended(t.sent) => Unended(u.sent)

\* From t to u the client hears d of the item x.
Adds(t, u, x, d) ==
    /\ u \in Trans
    /\ u.out = t.out /\ u.completed = t.completed /\ u.emitted = t.emitted
    /\ \A C : Heard(u.sent, C) = IF x \in C THEN Heard(t.sent, C) \o d ELSE Heard(t.sent, C)
    /\ Unended(t.sent) => Unended(u.sent)

\* Texts may be the data of an event.
LEMMA TextIsData == \A x \in Texts : x \in Datas
BY SeqMonotonic DEF Texts, Datas

\* No text is one.
LEMMA NoTextIsText == <<>> \in Texts /\ <<>> \in Datas
BY EmptySeq DEF Texts, Datas

\* One event more.
LEMMA EmitOne ==
    ASSUME NEW t \in Trans, NEW e \in Events, NEW u, u = Emit(t, <<e>>)
    PROVE  /\ u.sent = Append(t.sent, e)
           /\ e.ev \notin {"final", "delta"} => Silent(t, u)
           /\ e.ev = "delta" => Adds(t, u, e.item, e.data)
<1>1. t \in Translators /\ t.sent \in Seq(Events)
  BY DEF Trans, Translators
<1>2. PICK q : q = Append(t.sent, e)
  OBVIOUS
<1>3. q = t.sent \o <<e>> /\ q \in Seq(Events) /\ Len(q) = Len(t.sent) + 1
      /\ q[Len(t.sent) + 1] = e /\ \A i \in 1..Len(t.sent) : q[i] = t.sent[i]
  BY <1>1, <1>2, AppendIsConcat, AppendProperties
<1>4. u = [t EXCEPT !.sent = q]
  BY <1>3 DEF Emit
<1>5. u \in Translators
  BY <1>1, <1>3, <1>4 DEF Translators
<1>6. /\ u.out = t.out /\ u.completed = t.completed /\ u.emitted = t.emitted
      /\ u.thinkOpen = t.thinkOpen /\ u.thinkItem = t.thinkItem
      /\ u.textOpen = t.textOpen /\ u.textItem = t.textItem /\ u.sent = q
  BY <1>1, <1>4 DEF Translators
<1>7. u \in Trans
  BY <1>5, <1>6 DEF Trans
<1>8. e.ev # "final" => (Unended(t.sent) => Unended(q))
  BY <1>1, <1>3 DEF Unended
<1>9. \A C : Heard(q, C) = IF e.ev = "delta" /\ e.item \in C THEN Heard(t.sent, C) \o e.data
                           ELSE Heard(t.sent, C)
  BY <1>1, <1>2, HeardAppend
<1>10. e.ev \notin {"final", "delta"} => Silent(t, u)
  BY <1>6, <1>7, <1>8, <1>9 DEF Silent
<1>11. e.ev = "delta" => Adds(t, u, e.item, e.data)
  BY <1>6, <1>7, <1>8, <1>9 DEF Adds
<1> QED BY <1>2, <1>6, <1>10, <1>11

\* A pair is two sequences of one.
LEMMA PairIs == ASSUME NEW a \in Events, NEW b \in Events PROVE <<a>> \o <<b>> = <<a, b>>
<1>1. <<a>> \in Seq(Events) /\ <<b>> \in Seq(Events)
  OBVIOUS
<1>2. PICK x : x = Append(<<a>>, b)
  OBVIOUS
<1>3. PICK y : y = <<a, b>>
  OBVIOUS
<1>4. x \in Seq(Events) /\ Len(x) = 2 /\ x[1] = a /\ x[2] = b
  BY <1>1, <1>2, AppendProperties
<1>5. y \in Seq(Events) /\ Len(y) = 2 /\ y[1] = a /\ y[2] = b
  BY <1>3
<1>6. \A i \in 1..2 : i = 1 \/ i = 2
  OBVIOUS
<1>7. x = y
  BY <1>4, <1>5, <1>6, SeqEqual
<1>8. x = <<a>> \o <<b>>
  BY <1>1, <1>2, AppendIsConcat
<1> QED BY <1>3, <1>7, <1>8

\* Two events more.
LEMMA EmitTwo ==
    ASSUME NEW t \in Trans, NEW a \in Events, NEW b \in Events,
           NEW u, u = Emit(t, <<a, b>>),
           a.ev \notin {"final", "delta"}, b.ev \notin {"final", "delta"}
    PROVE  Silent(t, u) /\ u.sent = Append(Append(t.sent, a), b)
<1>1. PICK m : m = Emit(t, <<a>>)
  OBVIOUS
<1>2. Silent(t, m) /\ m.sent = Append(t.sent, a)
  BY <1>1, EmitOne
<1>3. m \in Trans
  BY <1>2 DEF Silent
<1>4. u = Emit(m, <<b>>)
  <2>1. t \in Translators /\ t.sent \in Seq(Events)
    BY DEF Trans, Translators
  <2>2. PICK q : q = t.sent \o <<a, b>>
    OBVIOUS
  <2>3. q = (t.sent \o <<a>>) \o <<b>>
    <3>1. <<a>> \in Seq(Events) /\ <<b>> \in Seq(Events)
      OBVIOUS
    <3>2. <<a, b>> = <<a>> \o <<b>>
      BY PairIs
    <3>4. q = t.sent \o (<<a>> \o <<b>>)
      BY <2>2, <3>2
    <3> HIDE <2>2
    <3> QED BY <2>1, <3>1, <3>4, ConcatAssociative
  <2> QED BY <1>1, <2>1, <2>2, <2>3 DEF Emit, Translators
<1>5. Silent(m, u) /\ u.sent = Append(m.sent, b)
  BY <1>3, <1>4, EmitOne
<1> QED BY <1>2, <1>5 DEF Silent

\* What an event that is no increment is made of.
LEMMA EventIs ==
    ASSUME NEW ev \in {"begin", "start", "signature", "content", "stop", "final"},
           NEW x \in Items \cup Marks, NEW i \in Int, NEW d \in Datas, NEW e,
           e = Event(ev, x, i, d)
    PROVE  e \in Events /\ e.ev = ev /\ e.item = x /\ e.idx = i /\ e.data = d
BY DEF Event, Events

\* What an increment is made of.
LEMMA DeltaIs ==
    ASSUME NEW x \in Items, NEW i \in Int, NEW d \in Texts, NEW e,
           e = Event("delta", x, i, d)
    PROVE  e \in Events /\ e.ev = "delta" /\ e.item = x /\ e.idx = i /\ e.data = d
<1>1. d \in Datas
  BY TextIsData
<1> QED BY <1>1 DEF Event, Events

\* The kinds of items.
LEMMA ItemKinds ==
    /\ \A i \in Int : <<"thinking", i>> \in Items /\ <<"text", i>> \in Items
    /\ {"thinking"} \X Int \subseteq Items /\ {"text"} \X Int \subseteq Items
    /\ NoText \in Marks
    /\ \A x \in Items : x[1] = "text" <=> x \in {"text"} \X Int
    /\ \A x \in Items : x[1] = "thinking" <=> x \in {"thinking"} \X Int
    /\ \A x \in Ids : x \in Items /\ x \notin {"text"} \X Int /\ x \notin {"thinking"} \X Int
BY StreamAssumption DEF Items, Ids, Marks, StreamAssumption

\* The first event is heard by nobody.
LEMMA PreambleQuiet ==
    ASSUME NEW t \in Trans, NEW u, u = Preamble(t) PROVE Silent(t, u)
<1>1. CASE u = t
  BY <1>1 DEF Silent
<1>2. CASE u # t
  <2>1. PICK m : m = [t EXCEPT !.begun = TRUE]
    OBVIOUS
  <2>2. PICK e : e = Mark("begin")
    OBVIOUS
  <2>3. u = Emit(m, <<e>>)
    BY <1>2, <2>1, <2>2 DEF Preamble
  <2>4. e \in Events /\ e.ev = "begin"
    BY <2>2, EventIs, ItemKinds, NoTextIsText DEF Mark, NoIdx
  <2>5. m \in Trans /\ Silent(t, m)
    BY <2>1 DEF Trans, Translators, Silent
  <2>6. Silent(m, u)
    BY <2>3, <2>4, <2>5, EmitOne
  <2> QED BY <2>5, <2>6 DEF Silent
<1> QED BY <1>1, <1>2

\* Neither is the start of a thinking block.
LEMMA OpenThinkingQuiet ==
    ASSUME NEW t \in Trans, NEW u, u = OpenThinking(t)
    PROVE  Silent(t, u) /\ u.thinkOpen
<1>1. CASE t.thinkOpen
  BY <1>1 DEF Silent, OpenThinking
<1>2. CASE ~t.thinkOpen
  <2>1. PICK x : x = IF dialect = "Anthropic" THEN 0 ELSE t.nextIdx
    OBVIOUS
  <2>2. PICK n : n = IF dialect = "Responses" THEN t.nextIdx + 1 ELSE t.nextIdx
    OBVIOUS
  <2>3. x \in Int /\ n \in Nat
    BY <2>1, <2>2 DEF Trans, Translators
  <2>4. PICK w : w = <<"thinking", x>>
    OBVIOUS
  <2>5. PICK m : m = [t EXCEPT !.thinkOpen = TRUE, !.thinkIdx = x, !.thinkItem = w, !.nextIdx = n]
    OBVIOUS
  <2>6. PICK e : e = Event("start", w, x, <<>>)
    OBVIOUS
  <2>7. u = Emit(m, <<e>>)
    BY <1>2, <2>1, <2>2, <2>4, <2>5, <2>6 DEF OpenThinking, AllocThinkingIdx
  <2>8. e \in Events /\ e.ev = "start"
    BY <2>3, <2>4, <2>6, EventIs, ItemKinds, NoTextIsText
  <2>9. m \in Trans /\ Silent(t, m) /\ m.thinkOpen
    BY <2>3, <2>4, <2>5 DEF Trans, Translators, Silent
  <2>10. Silent(m, u) /\ u.thinkOpen
    <3>1. Silent(m, u)
      BY <2>7, <2>8, <2>9, EmitOne
    <3> QED BY <2>7, <2>9, <3>1 DEF Emit, Trans, Translators
  <2> QED BY <2>9, <2>10 DEF Silent
<1> QED BY <1>1, <1>2

\* Nor that of a text block.
LEMMA OpenTextQuiet ==
    ASSUME NEW t \in Trans, NEW u, u = OpenText(t)
    PROVE  Silent(t, u) /\ u.textOpen
<1>1. CASE t.textOpen
  BY <1>1 DEF Silent, OpenText
<1>2. CASE ~t.textOpen
  <2>1. PICK x : x = IF dialect = "Anthropic" THEN AllocTextIdx(t) ELSE t.nextIdx
    OBVIOUS
  <2>2. PICK n : n = IF dialect = "Responses" THEN t.nextIdx + 1 ELSE t.nextIdx
    OBVIOUS
  <2>3. x \in Int /\ n \in Nat
    BY <2>1, <2>2 DEF Trans, Translators, AllocTextIdx
  <2>4. PICK w : w = <<"text", x>>
    OBVIOUS
  <2>5. PICK m : m = [t EXCEPT !.textOpen = TRUE, !.textIdx = x, !.textItem = w, !.nextIdx = n]
    OBVIOUS
  <2>6. PICK e : e = Event("start", w, x, <<>>)
    OBVIOUS
  <2>7. u = Emit(m, <<e>>)
    BY <1>2, <2>1, <2>2, <2>4, <2>5, <2>6 DEF OpenText
  <2>8. e \in Events /\ e.ev = "start"
    BY <2>3, <2>4, <2>6, EventIs, ItemKinds, NoTextIsText
  <2>9. m \in Trans /\ Silent(t, m) /\ m.textOpen
    BY <2>3, <2>4, <2>5 DEF Trans, Translators, Silent
  <2>10. Silent(m, u) /\ u.textOpen
    <3>1. Silent(m, u)
      BY <2>7, <2>8, <2>9, EmitOne
    <3> QED BY <2>7, <2>9, <3>1 DEF Emit, Trans, Translators
  <2> QED BY <2>9, <2>10 DEF Silent
<1> QED BY <1>1, <1>2

\* Closing a thinking block is not heard.
LEMMA CloseThinkingQuiet ==
    ASSUME NEW t \in Trans, NEW u, u = CloseThinking(t)
    PROVE  Silent(t, u) /\ ~u.thinkOpen
<1>1. CASE ~t.thinkOpen
  BY <1>1 DEF Silent, CloseThinking
<1>2. CASE t.thinkOpen
  <2>1. PICK a : a = IF dialect = "Anthropic"
                     THEN Event("signature", t.thinkItem, t.thinkIdx, <<>>)
                     ELSE Event("content", t.thinkItem, t.thinkIdx, t.out.thinking)
    OBVIOUS
  <2>2. PICK b : b = Event("stop", t.thinkItem, t.thinkIdx, <<>>)
    OBVIOUS
  <2>3. PICK m : m = [t EXCEPT !.thinkOpen = FALSE]
    OBVIOUS
  <2>4. u = Emit(m, <<a, b>>)
    BY <1>2, <2>1, <2>2, <2>3 DEF CloseThinking
  <2>5. t.thinkItem \in Items \cup Marks /\ t.thinkIdx \in Int /\ t.out.thinking \in Datas
    BY <1>2, ItemKinds, TextIsData DEF Trans, Translators, Outs
  <2>6. a \in Events /\ a.ev \in {"signature", "content"}
    <3>1. CASE dialect = "Anthropic"
      BY <3>1, <2>1, <2>5, EventIs, NoTextIsText
    <3>2. CASE dialect # "Anthropic"
      BY <3>2, <2>1, <2>5, EventIs
    <3> QED BY <3>1, <3>2
  <2>7. b \in Events /\ b.ev = "stop"
    BY <2>2, <2>5, EventIs, NoTextIsText
  <2>8. m \in Trans /\ Silent(t, m) /\ ~m.thinkOpen
    BY <2>3 DEF Trans, Translators, Silent
  <2>9. Silent(m, u)
    BY <2>4, <2>6, <2>7, <2>8, EmitTwo
  <2>10. ~u.thinkOpen
    BY <2>4, <2>8 DEF Emit, Trans, Translators
  <2> QED BY <2>8, <2>9, <2>10 DEF Silent
<1> QED BY <1>1, <1>2

\* Nor is closing a text block.
LEMMA CloseTextQuiet ==
    ASSUME NEW t \in Trans, NEW u, u = CloseText(t)
    PROVE  Silent(t, u) /\ ~u.textOpen
<1>1. CASE ~t.textOpen
  BY <1>1 DEF Silent, CloseText
<1>2. CASE t.textOpen
  <2>1. PICK a : a = Event("content", t.textItem, t.textIdx, t.out.text)
    OBVIOUS
  <2>2. PICK b : b = Event("stop", t.textItem, t.textIdx, <<>>)
    OBVIOUS
  <2>3. PICK m : m = [t EXCEPT !.textOpen = FALSE]
    OBVIOUS
  <2>4. t.textItem \in Items \cup Marks /\ t.textIdx \in Int /\ t.out.text \in Datas
    BY <1>2, ItemKinds, TextIsData DEF Trans, Translators, Outs
  <2>5. a \in Events /\ a.ev = "content" /\ b \in Events /\ b.ev = "stop"
    BY <2>1, <2>2, <2>4, EventIs, NoTextIsText
  <2>6. m \in Trans /\ Silent(t, m) /\ ~m.textOpen
    BY <2>3 DEF Trans, Translators, Silent
  <2>7. Silent(m, u)
    <3>1. CASE dialect = "Anthropic"
      <4>1. <<>> \o <<b>> = <<b>>
        BY <2>5, ConcatEmptySeq
      <4>2. u = Emit(m, <<b>>)
        BY <1>2, <2>2, <2>3, <3>1, <4>1 DEF CloseText
      <4> QED BY <2>5, <2>6, <4>2, EmitOne
    <3>2. CASE dialect # "Anthropic"
      <4>1. <<a>> \o <<b>> = <<a, b>>
        BY <2>5, PairIs
      <4>2. u = Emit(m, <<a, b>>)
        BY <1>2, <2>1, <2>2, <2>3, <3>2, <4>1 DEF CloseText
      <4> QED BY <2>5, <2>6, <4>2, EmitTwo
    <3> QED BY <3>1, <3>2
  <2>8. ~u.textOpen
    BY <1>2, <2>3, <2>6 DEF CloseText, Emit, Trans, Translators
  <2> QED BY <2>6, <2>7, <2>8 DEF Silent
<1> QED BY <1>1, <1>2

\* From t to u the client hears d of the items of kind k, and of no other.
Hears(t, u, k, d) ==
    /\ u \in Trans /\ u.completed = t.completed /\ u.emitted = t.emitted
    /\ Heard(u.sent, {k} \X Int) = Heard(t.sent, {k} \X Int) \o d
    /\ \A C : C \cap ({k} \X Int) = {} => Heard(u.sent, C) = Heard(t.sent, C)
    /\ Unended(t.sent) => Unended(u.sent)

\* An increment of thinking is heard.
LEMMA ThinkingDeltaHeard ==
    ASSUME NEW t \in Trans, NEW d \in Texts, NEW u, u = ThinkingDelta(t, d)
    PROVE  Hears(t, u, "thinking", d) /\ u.out = t.out
<1>1. CASE dialect = "Chat"
  <2>1. PICK w : w = <<"thinking", NoIdx>>
    OBVIOUS
  <2>2. PICK e : e = Event("delta", w, NoIdx, d)
    OBVIOUS
  <2>3. w \in {"thinking"} \X Int /\ w \in Items
    BY <2>1, ItemKinds DEF NoIdx
  <2>4. e \in Events /\ e.ev = "delta" /\ e.item = w /\ e.data = d
    BY <2>2, <2>3, DeltaIs DEF NoIdx
  <2>5. u = Emit(t, <<e>>)
    BY <1>1, <2>1, <2>2 DEF ThinkingDelta
  <2>6. Adds(t, u, w, d)
    BY <2>4, <2>5, EmitOne
  <2> QED BY <2>3, <2>6 DEF Adds, Hears
<1>2. CASE dialect # "Chat"
  <2>1. PICK o : o = OpenThinking(t)
    OBVIOUS
  <2>2. Silent(t, o) /\ o.thinkOpen /\ o \in Trans
    BY <2>1, OpenThinkingQuiet DEF Silent
  <2>3. PICK e : e = Event("delta", o.thinkItem, o.thinkIdx, d)
    OBVIOUS
  <2>4. o.thinkItem \in {"thinking"} \X Int /\ o.thinkItem \in Items /\ o.thinkIdx \in Int
    BY <2>2, ItemKinds DEF Trans, Translators
  <2>5. e \in Events /\ e.ev = "delta" /\ e.item = o.thinkItem /\ e.data = d
    BY <2>3, <2>4, DeltaIs
  <2>6. u = Emit(o, <<e>>)
    BY <1>2, <2>1, <2>3 DEF ThinkingDelta
  <2>7. Adds(o, u, o.thinkItem, d)
    BY <2>2, <2>5, <2>6, EmitOne
  <2> QED BY <2>2, <2>4, <2>7 DEF Adds, Hears, Silent
<1> QED BY <1>1, <1>2

\* The text of a part of thinking.
ThinkOf(part) == IF part = NoPart THEN <<>> ELSE part.text

\* A translator that collected something else.
LEMMA NewOut ==
    ASSUME NEW t \in Trans, NEW o \in Outs, NEW m, m = [t EXCEPT !.out = o]
    PROVE  /\ m \in Trans /\ m.out = o /\ m.sent = t.sent /\ m.thinkOpen = t.thinkOpen
           /\ m.completed = t.completed /\ m.emitted = t.emitted
BY DEF Trans, Translators

\* FeedThinking collects the thinking and the client hears it.
LEMMA FeedThinkingHeard ==
    ASSUME NEW t \in Trans, NEW p, NEW u, u = FeedThinking(t, p),
           p # NoPart => p.text \in Texts /\ p.signed \in BOOLEAN
    PROVE  /\ Hears(t, u, "thinking", ThinkOf(p)) /\ u.out \in Outs
           /\ u.out.thinking = t.out.thinking \o ThinkOf(p)
           /\ u.out.text = t.out.text /\ u.out.tools = t.out.tools
           /\ u.out.truncated = t.out.truncated
<1>0. t.out \in Outs /\ t.out.thinking \in Texts /\ t.sent \in Seq(Events)
  BY DEF Trans, Translators, Outs
<1>1. CASE p = NoPart \/ p.text = <<>>
  <2>1. ThinkOf(p) = <<>> /\ u = t
    BY <1>1 DEF ThinkOf, FeedThinking
  <2>2. \A x \in Texts : x \o <<>> = x
    BY ConcatEmptySeq DEF Texts
  <2>3. Heard(t.sent, {"thinking"} \X Int) \in Texts
    BY <1>0, HeardType
  <2> QED BY <1>0, <2>1, <2>2, <2>3 DEF Hears
<1>2. CASE p # NoPart /\ p.text # <<>>
  <2>1. PICK d \in Texts : d = p.text
    BY <1>2
  <2>2. PICK x : x = t.out.thinking \o d
    OBVIOUS
  <2>3. x \in Texts
    BY <1>0, <2>1, <2>2, ConcatProperties DEF Texts
  <2>4. PICK g \in BOOLEAN : g = (t.out.signed \/ p.signed)
    BY <1>0, <1>2 DEF Outs
  <2>5. PICK o : o = [t.out EXCEPT !.thinking = x, !.signed = g]
    OBVIOUS
  <2>6. o \in Outs /\ o.thinking = x /\ o.text = t.out.text /\ o.tools = t.out.tools
        /\ o.truncated = t.out.truncated
    BY <1>0, <2>3, <2>4, <2>5 DEF Outs
  <2>7. PICK m : m = [t EXCEPT !.out = o]
    OBVIOUS
  <2>8. m = [t EXCEPT !.out.thinking = @ \o p.text, !.out.signed = @ \/ p.signed]
    BY <2>1, <2>2, <2>4, <2>5, <2>7 DEF Trans, Translators, Outs
  <2>9. u = ThinkingDelta(m, d)
    BY <1>2, <2>1, <2>8 DEF FeedThinking
  <2>10. m \in Trans /\ m.out = o /\ m.sent = t.sent /\ m.completed = t.completed
         /\ m.emitted = t.emitted
    BY <2>6, <2>7, NewOut
  <2>11. Hears(m, u, "thinking", d) /\ u.out = o
    BY <2>9, <2>10, ThinkingDeltaHeard
  <2>12. ThinkOf(p) = d
    BY <1>2, <2>1 DEF ThinkOf
  <2> QED BY <2>2, <2>6, <2>10, <2>11, <2>12 DEF Hears
<1> QED BY <1>1, <1>2

\* FeedText collects the text and the client hears it.
LEMMA FeedTextHeard ==
    ASSUME NEW t \in Trans, NEW d \in Texts, NEW u, u = FeedText(t, d)
    PROVE  /\ Hears(t, u, "text", d) /\ u.out \in Outs
           /\ u.out.text = t.out.text \o d
           /\ u.out.thinking = t.out.thinking /\ u.out.tools = t.out.tools
           /\ u.out.truncated = t.out.truncated
<1>0. t.out \in Outs /\ t.out.text \in Texts /\ t.sent \in Seq(Events)
  BY DEF Trans, Translators, Outs
<1>1. CASE d = <<>>
  <2>1. u = t
    BY <1>1 DEF FeedText
  <2>2. \A x \in Texts : x \o <<>> = x
    BY ConcatEmptySeq DEF Texts
  <2>3. Heard(t.sent, {"text"} \X Int) \in Texts
    BY <1>0, HeardType
  <2> QED BY <1>0, <1>1, <2>1, <2>2, <2>3 DEF Hears
<1>2. CASE d # <<>>
  <2>1. PICK x : x = t.out.text \o d
    OBVIOUS
  <2>2. x \in Texts
    BY <1>0, <2>1, ConcatProperties DEF Texts
  <2>3. PICK o : o = [t.out EXCEPT !.text = x]
    OBVIOUS
  <2>4. o \in Outs /\ o.text = x /\ o.thinking = t.out.thinking /\ o.tools = t.out.tools
        /\ o.truncated = t.out.truncated
    BY <1>0, <2>2, <2>3 DEF Outs
  <2>5. PICK m : m = [t EXCEPT !.out = o]
    OBVIOUS
  <2>6. m = [t EXCEPT !.out.text = @ \o d]
    BY <2>1, <2>3, <2>5 DEF Trans, Translators, Outs
  <2>7. m \in Trans /\ m.out = o /\ m.sent = t.sent /\ m.completed = t.completed
         /\ m.emitted = t.emitted
    BY <2>4, <2>5, NewOut
  <2>8. Hears(m, u, "text", d) /\ u.out = o
    <3>1. CASE dialect = "Chat"
      <4>1. PICK w : w = <<"text", NoIdx>>
        OBVIOUS
      <4>2. PICK e : e = Event("delta", w, NoIdx, d)
        OBVIOUS
      <4>3. w \in {"text"} \X Int /\ w \in Items
        BY <4>1, ItemKinds DEF NoIdx
      <4>4. e \in Events /\ e.ev = "delta" /\ e.item = w /\ e.data = d
        BY <4>2, <4>3, DeltaIs DEF NoIdx
      <4>5. u = Emit(m, <<e>>)
        BY <1>2, <2>6, <3>1, <4>1, <4>2 DEF FeedText
      <4>6. Adds(m, u, w, d)
        BY <2>7, <4>4, <4>5, EmitOne
      <4> QED BY <2>7, <4>3, <4>6 DEF Adds, Hears
    <3>2. CASE dialect # "Chat"
      <4>1. PICK c : c = CloseThinking(m)
        OBVIOUS
      <4>2. Silent(m, c) /\ c \in Trans
        BY <2>7, <4>1, CloseThinkingQuiet DEF Silent
      <4>3. PICK b : b = OpenText(c)
        OBVIOUS
      <4>4. Silent(c, b) /\ b.textOpen /\ b \in Trans
        BY <4>2, <4>3, OpenTextQuiet DEF Silent
      <4>5. PICK e : e = Event("delta", b.textItem, b.textIdx, d)
        OBVIOUS
      <4>6. b.textItem \in {"text"} \X Int /\ b.textItem \in Items /\ b.textIdx \in Int
        BY <4>4, ItemKinds DEF Trans, Translators
      <4>7. e \in Events /\ e.ev = "delta" /\ e.item = b.textItem /\ e.data = d
        BY <4>5, <4>6, DeltaIs
      <4>8. u = Emit(b, <<e>>)
        BY <1>2, <2>6, <3>2, <4>1, <4>3, <4>5 DEF FeedText
      <4>9. Adds(b, u, b.textItem, d)
        BY <4>4, <4>7, <4>8, EmitOne
      <4>10. Silent(m, b)
        BY <4>2, <4>4 DEF Silent
      <4>11. Hears(m, u, "text", d) /\ u.out = m.out
        BY <4>4, <4>6, <4>9, <4>10 DEF Adds, Hears, Silent
      <4> QED BY <2>7, <4>11
    <3> QED BY <3>1, <3>2
  <2> QED BY <2>1, <2>4, <2>7, <2>8 DEF Hears
<1> QED BY <1>1, <1>2

\* The index of a call is a natural number.
LEMMA AllocType ==
    ASSUME NEW t, NEW n \in Nat PROVE AllocToolIdx(t, n) \in Nat
<1>1. PICK S : S = {x \in {"think", "text"} :
                       (IF x = "think" THEN t.thinkIdx ELSE t.textIdx) # NoIdx}
  OBVIOUS
<1>2. S \in SUBSET {"think", "text"} /\ IsFiniteSet({"think", "text"})
  <2>1. IsFiniteSet({"think"})
    BY FS_Singleton
  <2>2. IsFiniteSet({"think"} \cup {"text"})
    BY <2>1, FS_AddElement
  <2>3. {"think"} \cup {"text"} = {"think", "text"}
    OBVIOUS
  <2> QED BY <1>1, <2>2, <2>3
<1>3. IsFiniteSet(S)
  BY <1>2, FS_Subset
<1>4. Cardinality(S) \in Nat
  BY <1>3, FS_CardinalityType
<1>5. AllocToolIdx(t, n) = n + Cardinality(S)
  BY <1>1, Zenon DEF AllocToolIdx
<1> QED BY <1>4, <1>5

\* A prefix and the rest are the whole.
LEMMA PrefixIs ==
    ASSUME NEW S, NEW p \in Seq(S), NEW s \in Seq(S), IsPrefix(p, s)
    PROVE  s = p \o SubSeq(s, Len(p) + 1, Len(s))
<1>1. PICK k \in Nat : k = Len(p)
  OBVIOUS
<1>2. PICK n \in Nat : n = Len(s)
  OBVIOUS
<1>3. k <= n /\ SubSeq(p, 1, k) = SubSeq(s, 1, k)
  BY <1>1, <1>2 DEF IsPrefix
<1>4. SubSeq(p, 1, k) = p /\ SubSeq(s, 1, n) = s
  BY <1>1, <1>2, SubSeqFull
<1>5. SubSeq(s, 1, k) \o SubSeq(s, k + 1, n) = SubSeq(s, 1, n)
  <2>1. 1 \in 1..Len(s) + 1 /\ k \in 1 - 1..Len(s) /\ n \in k..Len(s)
    BY <1>2, <1>3
  <2> QED BY <2>1, ConcatAdjacentSubSeq
<1> QED BY <1>1, <1>2, <1>3, <1>4, <1>5

\* What is joined to a sequence leaves it a prefix.
LEMMA PrefixConcat ==
    ASSUME NEW S, NEW p \in Seq(S), NEW d \in Seq(S) PROVE IsPrefix(p, p \o d)
<1>1. PICK q : q = p \o d
  OBVIOUS
<1>2. q \in Seq(S) /\ Len(q) = Len(p) + Len(d) /\ Len(p) \in Nat /\ Len(d) \in Nat
      /\ \A i \in 1..Len(p) : q[i] = p[i]
  BY <1>1, ConcatProperties
<1>3. SubSeq(q, 1, Len(p)) = SubSeq(p, 1, Len(p))
  <2>1. PICK a : a = SubSeq(q, 1, Len(p))
    OBVIOUS
  <2>2. PICK b : b = SubSeq(p, 1, Len(p))
    OBVIOUS
  <2>3. b = p
    BY <2>2, SubSeqFull
  <2>4. a \in Seq(S) /\ Len(a) = Len(p) /\ \A i \in 1..Len(p) : a[i] = p[i]
    BY <1>2, <2>1, SubSeqProperties
  <2>5. a = p
    BY <2>4, SeqEqual
  <2> QED BY <2>1, <2>2, <2>3, <2>5
<1> QED BY <1>1, <1>2, <1>3 DEF IsPrefix

\* A sequence is a prefix of itself.
LEMMA PrefixSelf == ASSUME NEW S, NEW s \in Seq(S) PROVE IsPrefix(s, s)
BY DEF IsPrefix

\* Starting a call is not heard.
LEMMA StartToolQuiet ==
    ASSUME NEW t \in Trans, NEW c, c.id \in Ids, NEW n \in Nat, NEW u, u = StartTool(t, c, n)
    PROVE  Silent(t, u)
<1>1. PICK b : b = [t EXCEPT !.started = t.started \cup {c.id}]
  OBVIOUS
<1>2. b \in Trans /\ Silent(t, b)
  BY <1>1 DEF Trans, Translators, Silent
<1>3. PICK k : k = IF dialect = "Chat" THEN b ELSE CloseText(CloseThinking(b))
  OBVIOUS
<1>4. Silent(b, k) /\ k \in Trans
  <2>1. CASE dialect = "Chat"
    BY <1>2, <1>3, <2>1 DEF Silent
  <2>2. CASE dialect # "Chat"
    <3>1. PICK h : h = CloseThinking(b)
      OBVIOUS
    <3>2. Silent(b, h) /\ h \in Trans
      BY <1>2, <3>1, CloseThinkingQuiet DEF Silent
    <3>3. k = CloseText(h)
      BY <1>3, <2>2, <3>1
    <3>4. Silent(h, k)
      BY <3>2, <3>3, CloseTextQuiet
    <3> QED BY <3>2, <3>4 DEF Silent
  <2> QED BY <2>1, <2>2
<1>5. PICK x : x = CASE dialect = "Chat" -> n
                     [] dialect = "Anthropic" -> AllocToolIdx(k, n)
                     [] OTHER -> k.nextIdx
  OBVIOUS
<1>6. x \in Int
  BY <1>4, <1>5, AllocType DEF Trans, Translators
<1>7. PICK j : j = IF dialect = "Responses" THEN k.nextIdx + 1 ELSE k.nextIdx
  OBVIOUS
<1>8. PICK m : m = [k EXCEPT !.nextIdx = j]
  OBVIOUS
<1>9. m \in Trans /\ Silent(k, m)
  <2>1. j \in Nat
    BY <1>4, <1>7 DEF Trans, Translators
  <2>2. m \in Trans
    BY <1>4, <1>8, <2>1 DEF Trans, Translators
  <2> QED BY <1>4, <1>8, <2>2 DEF Trans, Translators, Silent
<1>10. PICK e : e = Event("start", c.id, x, <<>>)
  OBVIOUS
<1>11. e \in Events /\ e.ev = "start"
  BY <1>6, <1>10, EventIs, ItemKinds, NoTextIsText
<1>12. u = Emit(m, <<e>>)
  BY <1>1, <1>3, <1>5, <1>7, <1>8, <1>10 DEF StartTool
<1>13. Silent(m, u)
  BY <1>9, <1>11, <1>12, EmitOne
<1>14. Silent(t, k)
  BY <1>2, <1>4 DEF Silent
<1>15. Silent(k, u)
  BY <1>9, <1>13 DEF Silent
<1> QED BY <1>14, <1>15 DEF Silent

\* Of a backfill, the client hears d.
Filled(t, u, d) ==
    /\ Hears(t, u, "thinking", d)
    /\ \/ d = <<>> /\ (dialect = "Chat" => u.out.thinking = t.out.thinking)
       \/ u.out.thinking = t.out.thinking \o d

\* A backfill is collected, and heard unless the block is closed.
LEMMA BackfillHeard ==
    ASSUME NEW t \in Trans, NEW r \in Texts, NEW u, u = Backfill(t, r)
    PROVE  /\ u.out \in Outs /\ u.out.thinking = Backfilled(t.out.thinking, r)
           /\ u.out.text = t.out.text /\ u.out.tools = t.out.tools
           /\ \E d \in Texts : Filled(t, u, d)
           /\ IsPrefix(t.out.thinking, u.out.thinking)
<1>0. t.out \in Outs /\ t.out.thinking \in Texts /\ t.sent \in Seq(Events)
  BY DEF Trans, Translators, Outs
<1>1. PICK h \in Texts : h = t.out.thinking
  BY <1>0
<1>2. PICK d : d = SubSeq(r, Len(h) + 1, Len(r))
  OBVIOUS
<1>3. h \in Seq(Tokens) /\ r \in Seq(Tokens) /\ Len(h) \in Nat /\ Len(r) \in Nat
  BY DEF Texts
<1>4. d \in Texts
  BY <1>2, <1>3, SubSeqProperties DEF Texts
<1>5. \A x \in Texts : x \o <<>> = x
  BY ConcatEmptySeq DEF Texts
<1>6. Hears(t, t, "thinking", <<>>)
  BY <1>0, <1>5, HeardType DEF Hears
<1>7. IsPrefix(h, r) => r = h \o d
  BY <1>2, <1>3, PrefixIs DEF Texts
<1>8. IsPrefix(h, h)
  BY <1>3, PrefixSelf
<1>9. CASE ~IsPrefix(h, r)
  <2>1. u = t /\ Backfilled(h, r) = h
    BY <1>1, <1>2, <1>9 DEF Backfill, Backfilled
  <2> QED BY <1>0, <1>1, <1>6, <1>8, <2>1, NoTextIsText DEF Filled
<1>10. CASE IsPrefix(h, r) /\ d = <<>>
  <2>1. u = t
    BY <1>1, <1>2, <1>10 DEF Backfill
  <2>2. r = h
    BY <1>5, <1>7, <1>10
  <2>3. Backfilled(h, r) = h
    BY <2>2 DEF Backfilled
  <2> QED BY <1>0, <1>1, <1>6, <1>8, <2>1, <2>3, NoTextIsText DEF Filled
<1>11. CASE IsPrefix(h, r) /\ d # <<>>
  <2>1. PICK o : o = [t.out EXCEPT !.thinking = r]
    OBVIOUS
  <2>2. o \in Outs /\ o.thinking = r /\ o.text = t.out.text /\ o.tools = t.out.tools
    BY <1>0, <2>1 DEF Outs
  <2>3. PICK m : m = [t EXCEPT !.out = o]
    OBVIOUS
  <2>4. Backfilled(h, r) = r
    BY <1>11 DEF Backfilled
  <2>5. m = [t EXCEPT !.out.thinking = Backfilled(@, r)]
    BY <1>1, <2>1, <2>3, <2>4 DEF Trans, Translators, Outs
  <2>6. m \in Trans /\ m.out = o /\ m.sent = t.sent /\ m.completed = t.completed
         /\ m.emitted = t.emitted
    BY <2>2, <2>3, NewOut
  <2>7. CASE dialect = "Chat" \/ t.thinkOpen
    <3>1. u = ThinkingDelta(m, d)
      BY <1>1, <1>2, <1>11, <2>5, <2>7 DEF Backfill
    <3>2. Hears(m, u, "thinking", d) /\ u.out = o
      BY <1>4, <2>6, <3>1, ThinkingDeltaHeard
    <3>3. Hears(t, u, "thinking", d)
      BY <2>6, <3>2 DEF Hears
    <3> QED BY <1>1, <1>4, <1>7, <1>11, <2>2, <2>4, <3>2, <3>3 DEF Filled
  <2>8. CASE ~(dialect = "Chat" \/ t.thinkOpen)
    <3>1. u = m
      BY <1>1, <1>2, <1>11, <2>5, <2>8 DEF Backfill
    <3>2. Hears(t, u, "thinking", <<>>)
      BY <1>6, <2>6, <3>1 DEF Hears
    <3> QED BY <1>1, <1>11, <2>2, <2>4, <2>6, <2>8, <3>1, <3>2, NoTextIsText DEF Filled
  <2> QED BY <2>7, <2>8
<1> QED BY <1>9, <1>10, <1>11

\* The call reported, and the table of what was sent after it is.
Noted(t, c) ==
    IF Unsent(Emitted(t, c.id), c.args) # <<>> \/ Emitted(t, c.id) = <<>>
    THEN [x \in DOMAIN t.emitted \cup {c.id} |-> IF x = c.id THEN c.args ELSE t.emitted[x]]
    ELSE t.emitted

\* What was sent of a call is a text, and so is what is not sent.
LEMMA UnsentType ==
    ASSUME NEW t \in Trans, NEW x \in Ids, NEW args \in Texts
    PROVE  Emitted(t, x) \in Texts /\ Unsent(Emitted(t, x), args) \in Texts
<1>1. Emitted(t, x) \in Texts
  BY NoTextIsText DEF Trans, Translators, Emitted
<1>2. PICK b \in Texts : b = Emitted(t, x)
  BY <1>1
<1>3. args \in Seq(Tokens) /\ Len(b) \in Nat /\ Len(args) \in Nat
  BY DEF Texts
<1>4. SubSeq(args, Len(b) + 1, Len(args)) \in Texts
  BY <1>3, SubSeqProperties DEF Texts
<1> QED BY <1>1, <1>2, <1>4, NoTextIsText DEF Unsent

\* The table of what was sent.
LEMMA NotedType ==
    ASSUME NEW t \in Trans, NEW c \in Calls
    PROVE  Noted(t, c) \in UNION {[S -> Texts] : S \in SUBSET Ids}
<1>1. PICK S \in SUBSET Ids : t.emitted \in [S -> Texts]
  BY DEF Trans, Translators
<1>2. c.id \in Ids /\ c.args \in Texts
  BY DEF Calls
<1>3. PICK f : f = [x \in DOMAIN t.emitted \cup {c.id} |->
                     IF x = c.id THEN c.args ELSE t.emitted[x]]
  OBVIOUS
<1>4. f \in [S \cup {c.id} -> Texts]
  BY <1>1, <1>2, <1>3
<1>5. S \cup {c.id} \in SUBSET Ids
  BY <1>2
<1>6. f \in UNION {[T -> Texts] : T \in SUBSET Ids}
  BY <1>4, <1>5
<1>7. t.emitted \in UNION {[T -> Texts] : T \in SUBSET Ids}
  BY <1>1
<1> QED BY <1>3, <1>6, <1>7 DEF Noted

\* What reporting a call c does: it is started, and what was not sent of it is heard.
CallShown(t, u, c) ==
    /\ u \in Trans /\ u.out = t.out /\ u.completed = t.completed
    /\ u.emitted = Noted(t, c)
    /\ Unended(t.sent) => Unended(u.sent)
    /\ \A C : Heard(u.sent, C) = IF c.id \in C
                THEN Heard(t.sent, C) \o Unsent(Emitted(t, c.id), c.args)
                ELSE Heard(t.sent, C)

\* Reporting a call does that.
LEMMA ReportCallHeard ==
    ASSUME NEW t \in Trans, NEW c \in Calls, NEW n \in Nat, NEW k \in BOOLEAN,
           NEW u, u = ReportCall(t, c, n, k)
    PROVE  CallShown(t, u, c)
<1>0. t.out \in Outs /\ t.sent \in Seq(Events)
  BY DEF Trans, Translators
<1>1. c.id \in Ids /\ c.args \in Texts
  BY DEF Calls
<1>2. PICK b : b = Emitted(t, c.id)
  OBVIOUS
<1>3. PICK d : d = Unsent(b, c.args)
  OBVIOUS
<1>4. d \in Texts /\ b \in Texts
  BY <1>1, <1>2, <1>3, UnsentType
<1>5. PICK w : w = Noted(t, c)
  OBVIOUS
<1>6. w \in UNION {[S -> Texts] : S \in SUBSET Ids}
  BY <1>5, NotedType
<1>7. PICK g : g = [t EXCEPT !.emitted = w]
  OBVIOUS
<1>8. /\ g \in Trans /\ g.out = t.out /\ g.completed = t.completed /\ g.emitted = w
      /\ g.sent = t.sent /\ g.started = t.started
  BY <1>6, <1>7 DEF Trans, Translators
<1>9. g = IF d # <<>> \/ b = <<>> 
             THEN [t EXCEPT !.emitted = [y \in DOMAIN @ \cup {c.id} |->
                                            IF y = c.id THEN c.args ELSE @[y]]]
             ELSE t
  BY <1>2, <1>3, <1>5, <1>7 DEF Noted, Trans, Translators
<1>10. PICK h : h = IF c.id \in t.started THEN g ELSE StartTool(g, c, n)
  OBVIOUS
<1>11. Silent(g, h) /\ h \in Trans
  <2>1. CASE c.id \in t.started
    BY <2>1, <1>8, <1>10 DEF Silent
  <2>2. CASE c.id \notin t.started
    <3>1. h = StartTool(g, c, n)
      BY <1>10, <2>2
    <3>2. Silent(g, h)
      BY <1>1, <1>8, <3>1, StartToolQuiet
    <3> QED BY <3>2 DEF Silent
  <2> QED BY <2>1, <2>2
<1>12. PICK x : x = ToolIdx(h, n)
  OBVIOUS
<1>13. x \in Int
  BY <1>11, <1>12, AllocType DEF ToolIdx, Saturating, Trans, Translators
<1>14. PICK s : s = IF d = <<>> THEN h ELSE Emit(h, <<Event("delta", c.id, x, d)>>)
  OBVIOUS
<1>15. s \in Trans /\ Adds(h, s, c.id, d)
  <2>1. CASE d = <<>>
    <3>1. \A C : Heard(h.sent, C) \in Texts
      BY <1>11, HeardType DEF Trans, Translators
    <3>2. \A y \in Texts : y \o <<>> = y
      BY ConcatEmptySeq DEF Texts
    <3> QED BY <1>11, <1>14, <2>1, <3>1, <3>2 DEF Adds
  <2>2. CASE d # <<>>
    <3>1. PICK e : e = Event("delta", c.id, x, d)
      OBVIOUS
    <3>2. e \in Events /\ e.ev = "delta" /\ e.item = c.id /\ e.data = d
      BY <1>1, <1>4, <1>13, <3>1, DeltaIs, ItemKinds
    <3>3. s = Emit(h, <<e>>)
      BY <1>14, <2>2, <3>1
    <3>4. Adds(h, s, c.id, d)
      BY <1>11, <3>2, <3>3, EmitOne
    <3> QED BY <3>4 DEF Adds
  <2> QED BY <2>1, <2>2
<1>16. u = IF ~k \/ dialect = "Chat" THEN s
           ELSE Emit(s, (IF dialect = "Responses"
                         THEN <<Event("content", c.id, x, c.args)>> ELSE <<>>)
                        \o <<Event("stop", c.id, x, <<>>)>>)
  BY <1>2, <1>3, <1>9, <1>10, <1>12, <1>14 DEF ReportCall
<1>17. Silent(s, u)
  <2>1. CASE ~k \/ dialect = "Chat"
    BY <1>15, <1>16, <2>1 DEF Silent
  <2>2. CASE ~(~k \/ dialect = "Chat")
    <3>0. c.id \in Items \cup Marks
      BY <1>1, ItemKinds
    <3>1. PICK e : e = Event("stop", c.id, x, <<>>)
      OBVIOUS
    <3>2. e \in Events /\ e.ev = "stop"
      BY <1>1, <1>13, <3>1, <3>0, EventIs, NoTextIsText
    <3>3. PICK a : a = Event("content", c.id, x, c.args)
      OBVIOUS
    <3>4. a \in Events /\ a.ev = "content"
      BY <1>1, <1>13, <3>3, <3>0, EventIs, TextIsData
    <3>5. CASE dialect = "Responses"
      <4>1. u = Emit(s, <<a>> \o <<e>>)
        BY <1>16, <2>2, <3>1, <3>3, <3>5
      <4>2. u = Emit(s, <<a, e>>)
        BY <3>2, <3>4, <4>1, PairIs
      <4> QED BY <1>15, <3>2, <3>4, <4>2, EmitTwo
    <3>6. CASE dialect # "Responses"
      <4>1. u = Emit(s, <<>> \o <<e>>)
        BY <1>16, <2>2, <3>1, <3>6
      <4>2. <<>> \o <<e>> = <<e>>
        BY <3>2, ConcatEmptySeq
      <4> QED BY <1>15, <3>2, <4>1, <4>2, EmitOne
    <3> QED BY <3>5, <3>6
  <2> QED BY <2>1, <2>2
<1>18. u.out = t.out /\ u.completed = t.completed /\ u.emitted = w /\ u \in Trans
  BY <1>8, <1>11, <1>15, <1>17 DEF Silent, Adds
<1>19. Unended(t.sent) => Unended(u.sent)
  BY <1>8, <1>11, <1>15, <1>17 DEF Silent, Adds
<1>20. \A C : Heard(u.sent, C) = IF c.id \in C THEN Heard(t.sent, C) \o d ELSE Heard(t.sent, C)
  BY <1>8, <1>11, <1>15, <1>17 DEF Silent, Adds
<1> QED BY <1>18, <1>19, <1>20, <1>2, <1>3, <1>5 DEF CallShown

\* What FeedTool does: the part p is collected (m), then the last call c reported.
FedTool(t, p, u, m, c) ==
    /\ m = [t EXCEPT !.out = m.out, !.completed = m.completed]
    /\ m.out = apply_tool_call_part(t.out, p) /\ m.out \in Outs
    /\ m.completed = IF p.complete THEN t.completed \cup {p.id} ELSE t.completed
    /\ m.emitted = t.emitted /\ m.sent = t.sent /\ m.started = t.started
    /\ Len(m.out.tools) \in Nat \ {0} /\ c = m.out.tools[Len(m.out.tools)]
    /\ u = ReportCall(m, c, Len(m.out.tools) - 1, p.complete)
    /\ CallShown(m, u, c)

\* It does.
LEMMA FeedToolHeard ==
    ASSUME NEW t \in Trans, NEW p, Part(p), p # NoPart, NEW u, u = FeedTool(t, p)
    PROVE  \E m \in Trans : \E c \in Calls : FedTool(t, p, u, m, c)
<1>0. t.out \in Outs /\ t.sent \in Seq(Events)
  BY DEF Trans, Translators
<1>1. PICK o : o = apply_tool_call_part(t.out, p)
  OBVIOUS
<1>2. o \in Outs /\ Len(o.tools) \in Nat \ {0} /\ o.tools \in Seq(Calls)
  <2>1. o \in Outs /\ Len(o.tools) \in Nat \ {0}
    BY <1>0, <1>1, ApplyType
  <2> QED BY <2>1 DEF Outs
<1>3. PICK c : c = o.tools[Len(o.tools)]
  OBVIOUS
<1>4. c \in Calls
  BY <1>2, <1>3
<1>5. PICK k : k = IF p.complete THEN t.completed \cup {p.id} ELSE t.completed
  OBVIOUS
<1>6. k \in SUBSET (Ids \cup {NoText})
  BY <1>5 DEF Trans, Translators, Part, Ids
<1>7. PICK m : m = [t EXCEPT !.out = o, !.completed = k]
  OBVIOUS
<1>8. /\ m \in Trans /\ m.out = o /\ m.completed = k /\ m.emitted = t.emitted
      /\ m.sent = t.sent /\ m.started = t.started
  BY <1>2, <1>6, <1>7 DEF Trans, Translators
<1>9. m = [t EXCEPT !.out = apply_tool_call_part(@, p),
                    !.completed = IF p.complete THEN @ \cup {p.id} ELSE @]
  BY <1>1, <1>5, <1>7 DEF Trans, Translators
<1>10. u = ReportCall(m, c, Len(o.tools) - 1, p.complete)
  BY <1>3, <1>8, <1>9 DEF FeedTool, Last
<1>11. Len(o.tools) - 1 \in Nat /\ p.complete \in BOOLEAN
  BY <1>2 DEF Part
<1>12. CallShown(m, u, c)
  BY <1>4, <1>8, <1>10, <1>11, ReportCallHeard
<1>13. FedTool(t, p, u, m, c)
  BY <1>1, <1>2, <1>3, <1>5, <1>7, <1>8, <1>10, <1>12 DEF FedTool
<1> QED BY <1>4, <1>8, <1>13

\* Events that are neither increments nor the last.
Plain == {e \in Events : e.ev \notin {"final", "delta"}}

\* None of them is heard.
LEMMA EmitPlain ==
    ASSUME NEW t \in Trans, NEW s \in Seq(Plain), NEW u, u = Emit(t, s)
    PROVE  Silent(t, u)
<1> DEFINE P(n) == \A q \in Seq(Plain) : Len(q) = n => Silent(t, Emit(t, q))
           S == {n \in Nat : P(n)}
<1>0. t \in Translators /\ t.sent \in Seq(Events)
  BY DEF Trans, Translators
<1>1. 0 \in S
  <2>1. ASSUME NEW q \in Seq(Plain), Len(q) = 0 PROVE Silent(t, Emit(t, q))
    <3>1. q = <<>>
      BY <2>1
    <3>2. t.sent \o <<>> = t.sent
      BY <1>0, ConcatEmptySeq
    <3>3. Emit(t, q) = t
      BY <1>0, <3>1, <3>2 DEF Emit, Translators
    <3> QED BY <3>3 DEF Silent
  <2> QED BY <2>1
<1>2. ASSUME NEW n \in Nat, n \in S PROVE n + 1 \in S
  <2>1. ASSUME NEW q \in Seq(Plain), Len(q) = n + 1 PROVE Silent(t, Emit(t, q))
    <3>1. q # <<>>
      BY <2>1
    <3>2. \E r \in Seq(Plain), e \in Plain : q = Append(r, e)
      BY <3>1, SequenceEmptyOrAppend
    <3>3. PICK r \in Seq(Plain) : \E e \in Plain : q = Append(r, e)
      BY <3>2
    <3>4. PICK e \in Plain : q = Append(r, e)
      BY <3>3
    <3>5. Len(r) = n
      BY <2>1, <3>4, AppendProperties
    <3>6. PICK m : m = Emit(t, r)
      OBVIOUS
    <3>7. Silent(t, m) /\ m \in Trans
      BY <1>2, <3>5, <3>6 DEF Silent
    <3>8. r \in Seq(Events) /\ <<e>> \in Seq(Events) /\ e \in Events
      BY SeqMonotonic DEF Plain
    <3>9. q = r \o <<e>>
      BY <3>4, AppendIsConcat
    <3>10. t.sent \o q = (t.sent \o r) \o <<e>>
      <4>1. PICK x \in Seq(Events) : x = t.sent
        BY <1>0
      <4>2. PICK y \in Seq(Events) : y = r
        BY <3>8
      <4>3. PICK z \in Seq(Events) : z = <<e>>
        BY <3>8
      <4>4. (x \o y) \o z = x \o (y \o z)
        BY ConcatAssociative
      <4> QED BY <3>9, <4>1, <4>2, <4>3, <4>4
    <3>11. Emit(t, q) = Emit(m, <<e>>)
      BY <1>0, <3>6, <3>10 DEF Emit, Translators
    <3>12. Silent(m, Emit(t, q))
      BY <3>7, <3>8, <3>11, EmitOne DEF Plain
    <3> QED BY <3>7, <3>12 DEF Silent
  <2> QED BY <2>1
<1> HIDE DEF S
<1>3. Len(s) \in S
  BY <1>1, <1>2, AllNat
<1> QED BY <1>3 DEF S

\* What StopTools sends for the i-th of the calls.
StopEvents(t, i) ==
    LET tools == t.out.tools
        open == {j \in DOMAIN tools : tools[j].id \notin t.completed}
        base == Saturating(t.nextIdx, Cardinality(open))
        idx == IF dialect = "Anthropic" THEN AllocToolIdx(t, i - 1) ELSE base + (i - 1)
    IN  IF i \notin open THEN <<>>
        ELSE (IF dialect = "Responses"
              THEN <<Event("content", tools[i].id, idx, tools[i].args)>> ELSE <<>>)
             \o <<Event("stop", tools[i].id, idx, <<>>)>>

\* It is that of one after the other.
LEMMA StopToolsIs ==
    ASSUME NEW t
    PROVE  StopTools(t) =
             Emit(t, FlattenSeq([i \in 1..Len(t.out.tools) |-> StopEvents(t, i)]))
BY Zenon DEF StopTools, StopEvents

\* The index under which a call is stopped.
StopIdx(t, i) ==
    IF dialect = "Anthropic" THEN AllocToolIdx(t, i - 1)
    ELSE Saturating(t.nextIdx, Cardinality({j \in DOMAIN t.out.tools :
                                   t.out.tools[j].id \notin t.completed})) + (i - 1)

\* The events of one call.
LEMMA StopEventsIs ==
    ASSUME NEW t \in Trans, NEW i \in 1..Len(t.out.tools)
    PROVE  /\ StopIdx(t, i) \in Nat
           /\ t.out.tools[i].id \in t.completed => StopEvents(t, i) = <<>>
           /\ t.out.tools[i].id \notin t.completed /\ dialect = "Responses" =>
                StopEvents(t, i) =
                  <<Event("content", t.out.tools[i].id, StopIdx(t, i), t.out.tools[i].args),
                    Event("stop", t.out.tools[i].id, StopIdx(t, i), <<>>)>>
           /\ t.out.tools[i].id \notin t.completed /\ dialect # "Responses" =>
                StopEvents(t, i) = <<Event("stop", t.out.tools[i].id, StopIdx(t, i), <<>>)>>
           /\ Event("content", t.out.tools[i].id, StopIdx(t, i), t.out.tools[i].args) \in Plain
           /\ Event("stop", t.out.tools[i].id, StopIdx(t, i), <<>>) \in Plain
<1>1. PICK tools : tools = t.out.tools
  OBVIOUS
<1>2. tools \in Seq(Calls) /\ i \in DOMAIN tools
  BY <1>1 DEF Trans, Translators, Outs
<1>3. PICK open : open = {j \in DOMAIN tools : tools[j].id \notin t.completed}
  OBVIOUS
<1>4. Cardinality(open) \in Nat
  <2>1. IsFiniteSet(DOMAIN tools)
    BY <1>2, FS_Interval
  <2>2. IsFiniteSet(open)
    BY <1>3, <2>1, FS_Subset
  <2> QED BY <2>2, FS_CardinalityType
<1>5. PICK x : x = StopIdx(t, i)
  OBVIOUS
<1>6. x = IF dialect = "Anthropic" THEN AllocToolIdx(t, i - 1)
          ELSE Saturating(t.nextIdx, Cardinality(open)) + (i - 1)
  BY <1>1, <1>3, <1>5 DEF StopIdx
<1>7. x \in Nat
  <2>1. t.nextIdx \in Nat /\ i - 1 \in Nat
    BY DEF Trans, Translators
  <2>2. Saturating(t.nextIdx, Cardinality(open)) \in Nat
    BY <1>4, <2>1 DEF Saturating
  <2>3. AllocToolIdx(t, i - 1) \in Nat
    BY <2>1, AllocType
  <2> QED BY <1>6, <2>1, <2>2, <2>3
<1>8. PICK c \in Calls : c = tools[i]
  BY <1>2
<1>9. c.id \in Ids /\ c.args \in Texts
  BY DEF Calls
<1>10. c.id \in Items \cup Marks /\ c.args \in Datas
  BY <1>9, ItemKinds, TextIsData
<1>11. PICK a : a = Event("content", c.id, x, c.args)
  OBVIOUS
<1>12. PICK e : e = Event("stop", c.id, x, <<>>)
  OBVIOUS
<1>13. a \in Plain
  <2>1. a \in Events /\ a.ev = "content"
    BY <1>7, <1>10, <1>11, EventIs
  <2> QED BY <2>1 DEF Plain
<1>14. e \in Plain
  <2>1. e \in Events /\ e.ev = "stop"
    BY <1>7, <1>10, <1>12, EventIs, NoTextIsText
  <2> QED BY <2>1 DEF Plain
<1>15. StopEvents(t, i) = IF i \notin open THEN <<>>
                          ELSE (IF dialect = "Responses" THEN <<a>> ELSE <<>>) \o <<e>>
  BY <1>1, <1>3, <1>6, <1>8, <1>11, <1>12 DEF StopEvents
<1>16. <<a>> \o <<e>> = <<a, e>> /\ <<>> \o <<e>> = <<e>>
  BY <1>13, <1>14, PairIs, ConcatEmptySeq DEF Plain
<1> QED BY <1>1, <1>2, <1>3, <1>5, <1>7, <1>8, <1>11, <1>12, <1>13, <1>14, <1>15, <1>16

\* None of the stops is heard.
LEMMA StopToolsQuiet ==
    ASSUME NEW t \in Trans, NEW u, u = StopTools(t) PROVE Silent(t, u)
<1>1. PICK n \in Nat : n = Len(t.out.tools)
  BY DEF Trans, Translators, Outs
<1>2. PICK s : s = [i \in 1..n |-> StopEvents(t, i)]
  OBVIOUS
<1>3. \A i \in 1..n : StopEvents(t, i) \in Seq(Plain)
  <2> SUFFICES ASSUME NEW i \in 1..n PROVE StopEvents(t, i) \in Seq(Plain)
    OBVIOUS
  <2>1. PICK a : a = Event("content", t.out.tools[i].id, StopIdx(t, i), t.out.tools[i].args)
    OBVIOUS
  <2>2. PICK e : e = Event("stop", t.out.tools[i].id, StopIdx(t, i), <<>>)
    OBVIOUS
  <2>3. a \in Plain /\ e \in Plain
    BY <1>1, <2>1, <2>2, StopEventsIs
  <2>4. StopEvents(t, i) \in {<<>>, <<a, e>>, <<e>>}
    BY <1>1, <2>1, <2>2, StopEventsIs
  <2>5. <<>> \in Seq(Plain) /\ <<a, e>> \in Seq(Plain) /\ <<e>> \in Seq(Plain)
    <3> HIDE <2>1, <2>2, <2>4
    <3> QED BY <2>3
  <2> QED BY <2>4, <2>5
<1>4. s \in Seq(Seq(Plain))
  BY <1>2, <1>3
<1>5. FlattenSeq(s) \in Seq(Plain)
  BY <1>4, FlattenType
<1>6. u = Emit(t, FlattenSeq(s))
  BY <1>1, <1>2, StopToolsIs
<1> QED BY <1>5, <1>6, EmitPlain

Parts == ({"thinking", "text"} \X Texts) \cup ({"call"} \X Ids \X Texts)

\* One element, or none, is a sequence.
LEMMA OneIsSeq == ASSUME NEW S, NEW x \in S PROVE <<x>> \in Seq(S) /\ <<>> \in Seq(S)
OBVIOUS

\* What the content of an answer is made of.
LEMMA ContentType ==
    ASSUME NEW o \in Outs, NEW k PROVE Content(o, k) \in Seq(Parts)
<1>1. o.thinking \in Texts /\ o.text \in Texts /\ o.tools \in Seq(Calls)
  BY DEF Outs
<1>2. PICK a : a = IF o.thinking = <<>> THEN <<>> ELSE <<<<"thinking", o.thinking>>>>
  OBVIOUS
<1>3. PICK h : h = CASE k = "Anthropic" -> o.thinking = <<>> /\ o.tools = <<>>
                     [] k = "Responses" -> o.thinking = <<>> /\ o.tools = <<>>
                     [] OTHER -> FALSE
  OBVIOUS
<1>4. PICK b : b = IF o.text # <<>> \/ h THEN <<<<"text", o.text>>>> ELSE <<>>
  OBVIOUS
<1>5. PICK c : c = [i \in DOMAIN o.tools |-> <<"call", o.tools[i].id, o.tools[i].args>>]
  OBVIOUS
<1>6. Content(o, k) = a \o b \o c
  BY <1>2, <1>3, <1>4, <1>5, Zenon DEF Content
<1>7. a \in Seq(Parts)
  <2>1. PICK p : p = <<"thinking", o.thinking>>
    OBVIOUS
  <2>2. p \in Parts
    BY <1>1, <2>1 DEF Parts
  <2>3. a = <<>> \/ a = <<p>>
    BY <1>2, <2>1
  <2>4. <<p>> \in Seq(Parts) /\ <<>> \in Seq(Parts)
    BY <2>2, OneIsSeq
  <2> QED BY <2>3, <2>4
<1>8. b \in Seq(Parts)
  <2>1. PICK p : p = <<"text", o.text>>
    OBVIOUS
  <2>2. p \in Parts
    BY <1>1, <2>1 DEF Parts
  <2>3. b = <<>> \/ b = <<p>>
    BY <1>4, <2>1
  <2>4. <<p>> \in Seq(Parts) /\ <<>> \in Seq(Parts)
    BY <2>2, OneIsSeq
  <2> QED BY <2>3, <2>4
<1>9. c \in Seq(Parts)
  <2>1. \A i \in DOMAIN o.tools : <<"call", o.tools[i].id, o.tools[i].args>> \in Parts
    <3> SUFFICES ASSUME NEW i \in DOMAIN o.tools
                 PROVE  <<"call", o.tools[i].id, o.tools[i].args>> \in Parts
      OBVIOUS
    <3>1. PICK g \in Calls : g = o.tools[i]
      BY <1>1
    <3>2. g.id \in Ids /\ g.args \in Texts
      BY DEF Calls
    <3>3. <<"call", g.id, g.args>> \in {"call"} \X Ids \X Texts
      BY <3>2
    <3> QED BY <3>1, <3>3, Zenon DEF Parts
  <2>2. PICK n \in Nat : DOMAIN o.tools = 1..n
    BY <1>1
  <2> QED BY <1>5, <2>1, <2>2
<1>10. a \o b \in Seq(Parts)
  BY <1>7, <1>8, ConcatProperties
<1>11. (a \o b) \o c \in Seq(Parts)
  BY <1>9, <1>10, ConcatProperties
<1> QED BY <1>6, <1>11

\* The id that the last event gives to a part of the content.
IdOf(t, p) == CASE p[1] = "call" -> p[2]
                [] p[1] = "thinking" -> t.thinkItem
                [] OTHER -> t.textItem

\* The last event.
LEMMA FinalIs ==
    ASSUME NEW t \in Trans, NEW e, e = Final(t)
    PROVE  /\ e \in Events /\ e.ev = "final" /\ e.idx = NoIdx
           /\ dialect = "Responses" =>
                e.data = [i \in DOMAIN Content(t.out, dialect) |->
                             IdOf(t, Content(t.out, dialect)[i])]
<1>1. PICK w : w = Content(t.out, dialect)
  OBVIOUS
<1>2. w \in Seq(Parts)
  BY <1>1, ContentType DEF Trans, Translators
<1>3. PICK s : s = [i \in DOMAIN w |-> IdOf(t, w[i])]
  OBVIOUS
<1>4. \A p \in Parts : IdOf(t, p) \in Items \cup Marks
  <2>1. t.thinkItem \in Items \cup Marks /\ t.textItem \in Items \cup Marks
    BY ItemKinds DEF Trans, Translators
  <2>2. \A p \in Parts : p[1] = "call" => p[2] \in Ids
    BY DEF Parts
  <2> QED BY <2>1, <2>2, ItemKinds DEF IdOf
<1>5. s \in Datas
  <2>1. PICK n \in Nat : DOMAIN w = 1..n
    BY <1>2
  <2>2. \A i \in 1..n : s[i] \in Items \cup Marks
    BY <1>2, <1>3, <1>4, <2>1
  <2>3. s \in Seq(Items \cup Marks)
    BY <1>3, <2>1, <2>2
  <2> QED BY <2>3, SeqMonotonic DEF Datas
<1>6. PICK d : d = IF dialect = "Responses" THEN s ELSE <<>>
  OBVIOUS
<1>7. d \in Datas
  BY <1>5, <1>6, NoTextIsText
<1>8. PICK x : x = <<StopReason(t.out)>>
  OBVIOUS
<1>9. x \in Marks
  BY <1>8 DEF Marks, StopReason
<1>10. e = Event("final", x, NoIdx, d)
  BY <1>1, <1>3, <1>6, <1>8, Zenon DEF Final, IdOf
<1>11. e \in Events /\ e.ev = "final" /\ e.idx = NoIdx /\ e.data = d
  BY <1>7, <1>9, <1>10, EventIs DEF NoIdx
<1> QED BY <1>1, <1>3, <1>6, <1>11

\* The last of the events, and only it, ends the answer.
EndsLast(s) == s # <<>> /\ \A i \in 1..Len(s) : s[i].ev = "final" <=> i = Len(s)

\* The blocks are closed, then comes the last event.
Closed(t) == IF dialect = "Chat" THEN t ELSE StopTools(CloseText(CloseThinking(t)))

\* finalize_events ends the answer, and collects nothing.
LEMMA FinalizeHeard ==
    ASSUME NEW t \in Trans, NEW u, u = finalize_events(t)
    PROVE  /\ u \in Trans /\ u.out = t.out /\ u.completed = t.completed
           /\ u.sent = Append(Closed(t).sent, Final(Closed(t)))
           /\ Silent(t, Closed(t))
           /\ \A C : Heard(u.sent, C) = Heard(t.sent, C)
           /\ Unended(t.sent) => EndsLast(u.sent)
<1>1. PICK c : c = Closed(t)
  OBVIOUS
<1>2. Silent(t, c) /\ c \in Trans
  <2>1. CASE dialect = "Chat"
    BY <1>1, <2>1 DEF Closed, Silent
  <2>2. CASE dialect # "Chat"
    <3>1. PICK h : h = CloseThinking(t)
      OBVIOUS
    <3>2. Silent(t, h) /\ h \in Trans
      BY <3>1, CloseThinkingQuiet DEF Silent
    <3>3. PICK x : x = CloseText(h)
      OBVIOUS
    <3>4. Silent(h, x) /\ x \in Trans
      BY <3>2, <3>3, CloseTextQuiet DEF Silent
    <3>5. c = StopTools(x)
      BY <1>1, <2>2, <3>1, <3>3 DEF Closed
    <3>6. Silent(x, c) /\ c \in Trans
      BY <3>4, <3>5, StopToolsQuiet DEF Silent
    <3>7. Silent(t, x)
      BY <3>2, <3>4 DEF Silent
    <3> QED BY <3>6, <3>7 DEF Silent
  <2> QED BY <2>1, <2>2
<1>3. PICK e : e = Final(c)
  OBVIOUS
<1>4. e \in Events /\ e.ev = "final"
  BY <1>2, <1>3, FinalIs
<1>5. u = Emit(c, <<e>>)
  BY <1>1, <1>3 DEF finalize_events, Closed
<1>6. c.sent \in Seq(Events) /\ c \in Translators
  BY <1>2 DEF Trans, Translators
<1>7. PICK q : q = Append(c.sent, e)
  OBVIOUS
<1>8. q \in Seq(Events) /\ Len(q) = Len(c.sent) + 1 /\ q[Len(c.sent) + 1] = e
      /\ \A i \in 1..Len(c.sent) : q[i] = c.sent[i]
  BY <1>4, <1>6, <1>7, AppendProperties
<1>9. u = [c EXCEPT !.sent = q]
  <2>1. q = c.sent \o <<e>>
    BY <1>4, <1>6, <1>7, AppendIsConcat
  <2> QED BY <1>5, <2>1 DEF Emit
<1>10. u \in Trans /\ u.out = c.out /\ u.completed = c.completed /\ u.sent = q
  BY <1>2, <1>8, <1>9 DEF Trans, Translators
<1>11. \A C : Heard(u.sent, C) = Heard(c.sent, C)
  BY <1>4, <1>6, <1>7, <1>10, HeardAppend
<1>12. Unended(t.sent) => EndsLast(u.sent)
  <2> SUFFICES ASSUME Unended(t.sent) PROVE EndsLast(q)
    BY <1>10
  <2>1. Unended(c.sent)
    BY <1>2 DEF Silent
  <2>2. Len(c.sent) \in Nat /\ q # <<>>
    BY <1>6, <1>8
  <2> QED BY <1>4, <1>8, <2>1, <2>2 DEF Unended, EndsLast
<1> QED BY <1>1, <1>2, <1>3, <1>7, <1>10, <1>11, <1>12 DEF Silent

-----------------------------------------------------------------------------
(* A whole frame. *)

\* Two answers that a client cannot tell apart.
Agree(o, q) ==
    o.thinking = q.thinking /\ o.text = q.text /\ o.tools = q.tools /\ o.truncated = q.truncated

\* The translator before the last part of a frame.
Mid(t, f) ==
    FeedTool(FeedText(FeedThinking(Preamble(
        IF f.usage = NoPart THEN t ELSE [t EXCEPT !.usage = extract_usage(f.usage)]),
        f.think), f.text), f.tool)

\* Its stages.
LEMMA MidStages ==
    ASSUME NEW t \in Trans, NEW f \in Frames
    PROVE  \E a, b, c, d :
             /\ a \in Trans /\ a.sent = t.sent /\ Silent(t, a)
             /\ a = IF f.usage = NoPart THEN t ELSE [t EXCEPT !.usage = extract_usage(f.usage)]
             /\ b = Preamble(a) /\ Silent(t, b) /\ b \in Trans
             /\ c = FeedThinking(b, f.think) /\ c \in Trans
             /\ d = FeedText(c, f.text) /\ d \in Trans
             /\ Mid(t, f) = FeedTool(d, f.tool)
             /\ Heard(d.sent, {"text"} \X Int) = Heard(t.sent, {"text"} \X Int) \o f.text
             /\ Heard(d.sent, {"thinking"} \X Int) = Heard(t.sent, {"thinking"} \X Int) \o ThinkOf(f.think)
             /\ \A x \in Ids : Heard(d.sent, {x}) = Heard(t.sent, {x})
             /\ Unended(t.sent) => Unended(d.sent)
             /\ d.completed = t.completed /\ d.emitted = t.emitted
             /\ d.out.thinking = t.out.thinking \o ThinkOf(f.think)
             /\ d.out.text = t.out.text \o f.text
             /\ d.out.tools = t.out.tools /\ d.out.truncated = t.out.truncated
<1>0. Frame(f)
  BY StreamAssumption DEF StreamAssumption
<1>1. PICK a : a = IF f.usage = NoPart THEN t ELSE [t EXCEPT !.usage = extract_usage(f.usage)]
  OBVIOUS
<1>2. a \in Trans /\ a.sent = t.sent /\ Silent(t, a)
  <2>1. PICK g : g = extract_usage(f.usage)
    OBVIOUS
  <2>2. g \in Usages
    BY <2>1 DEF Usages
  <2>3. a = t \/ a = [t EXCEPT !.usage = g]
    BY <1>1, <2>1
  <2>4. a \in Trans /\ a.sent = t.sent
    BY <2>2, <2>3 DEF Trans, Translators
  <2> QED BY <2>2, <2>3, <2>4 DEF Trans, Translators, Silent
<1>3. PICK b : b = Preamble(a)
  OBVIOUS
<1>4. Silent(t, b) /\ b \in Trans
  BY <1>2, <1>3, PreambleQuiet DEF Silent
<1>5. PICK c : c = FeedThinking(b, f.think)
  OBVIOUS
<1>6. f.think # NoPart => f.think.text \in Texts /\ f.think.signed \in BOOLEAN
  BY <1>0 DEF Frame
<1>7. /\ Hears(b, c, "thinking", ThinkOf(f.think)) /\ c.out \in Outs
      /\ c.out.thinking = b.out.thinking \o ThinkOf(f.think)
      /\ c.out.text = b.out.text /\ c.out.tools = b.out.tools
      /\ c.out.truncated = b.out.truncated
  BY <1>4, <1>5, <1>6, FeedThinkingHeard
<1>8. c \in Trans
  BY <1>7 DEF Hears
<1>9. PICK d : d = FeedText(c, f.text)
  OBVIOUS
<1>10. f.text \in Texts
  BY <1>0 DEF Frame
<1>11. /\ Hears(c, d, "text", f.text) /\ d.out \in Outs
       /\ d.out.text = c.out.text \o f.text
       /\ d.out.thinking = c.out.thinking /\ d.out.tools = c.out.tools
       /\ d.out.truncated = c.out.truncated
  BY <1>8, <1>9, <1>10, FeedTextHeard
<1>12. d \in Trans
  BY <1>11 DEF Hears
<1>13. Mid(t, f) = FeedTool(d, f.tool)
  BY <1>1, <1>3, <1>5, <1>9 DEF Mid
<1>14. Heard(d.sent, {"text"} \X Int) = Heard(t.sent, {"text"} \X Int) \o f.text
  <2>1. ({"text"} \X Int) \cap ({"thinking"} \X Int) = {}
    OBVIOUS
  <2>2. Heard(c.sent, {"text"} \X Int) = Heard(b.sent, {"text"} \X Int)
    BY <1>7, <2>1 DEF Hears
  <2> QED BY <1>4, <1>11, <2>2 DEF Hears, Silent
<1>15. Heard(d.sent, {"thinking"} \X Int) = Heard(t.sent, {"thinking"} \X Int) \o ThinkOf(f.think)
  <2>1. ({"thinking"} \X Int) \cap ({"text"} \X Int) = {}
    OBVIOUS
  <2>2. Heard(d.sent, {"thinking"} \X Int) = Heard(c.sent, {"thinking"} \X Int)
    BY <1>11, <2>1 DEF Hears
  <2> QED BY <1>4, <1>7, <2>2 DEF Hears, Silent
<1>16. \A x \in Ids : Heard(d.sent, {x}) = Heard(t.sent, {x})
  <2> SUFFICES ASSUME NEW x \in Ids PROVE Heard(d.sent, {x}) = Heard(t.sent, {x})
    OBVIOUS
  <2>1. {x} \cap ({"text"} \X Int) = {} /\ {x} \cap ({"thinking"} \X Int) = {}
    BY ItemKinds
  <2>2. Heard(d.sent, {x}) = Heard(c.sent, {x})
    BY <1>11, <2>1 DEF Hears
  <2>3. Heard(c.sent, {x}) = Heard(b.sent, {x})
    BY <1>7, <2>1 DEF Hears
  <2> QED BY <1>4, <2>2, <2>3 DEF Silent
<1>17. /\ Unended(t.sent) => Unended(d.sent)
       /\ d.completed = t.completed /\ d.emitted = t.emitted
  BY <1>4, <1>7, <1>11 DEF Silent, Hears
<1>18. /\ d.out.thinking = t.out.thinking \o ThinkOf(f.think)
       /\ d.out.text = t.out.text \o f.text
       /\ d.out.tools = t.out.tools /\ d.out.truncated = t.out.truncated
  BY <1>4, <1>7, <1>11 DEF Silent
<1> QED BY <1>1, <1>2, <1>3, <1>4, <1>5, <1>8, <1>9, <1>12, <1>13, <1>14, <1>15, <1>16, <1>17, <1>18

\* The calls after a frame.
CallsAfter(tools, f) == IF f.tool = NoPart THEN tools ELSE Applied(tools, f.tool)

\* What the client hears of a frame, and what is collected.
LEMMA MidHeard ==
    ASSUME NEW t \in Trans, NEW f \in Frames, NEW u, u = Mid(t, f)
    PROVE  /\ u \in Trans
           /\ Heard(u.sent, {"text"} \X Int) = Heard(t.sent, {"text"} \X Int) \o f.text
           /\ Heard(u.sent, {"thinking"} \X Int) = Heard(t.sent, {"thinking"} \X Int) \o ThinkOf(f.think)
           /\ Unended(t.sent) => Unended(u.sent)
           /\ u.out.thinking = t.out.thinking \o ThinkOf(f.think)
           /\ u.out.text = t.out.text \o f.text
           /\ u.out.tools = CallsAfter(t.out.tools, f)
           /\ u.out.truncated = t.out.truncated
<1>0. Frame(f)
  BY StreamAssumption DEF StreamAssumption
<1>1. PICK d \in Trans :
             /\ Mid(t, f) = FeedTool(d, f.tool)
             /\ Heard(d.sent, {"text"} \X Int) = Heard(t.sent, {"text"} \X Int) \o f.text
             /\ Heard(d.sent, {"thinking"} \X Int) = Heard(t.sent, {"thinking"} \X Int) \o ThinkOf(f.think)
             /\ Unended(t.sent) => Unended(d.sent)
             /\ d.out.thinking = t.out.thinking \o ThinkOf(f.think)
             /\ d.out.text = t.out.text \o f.text
             /\ d.out.tools = t.out.tools /\ d.out.truncated = t.out.truncated
  BY MidStages
<1>2. CASE f.tool = NoPart
  BY <1>1, <1>2 DEF FeedTool, CallsAfter
<1>3. CASE f.tool # NoPart
  <2>1. Part(f.tool)
    BY <1>0, <1>3 DEF Frame, Part
  <2>2. u = FeedTool(d, f.tool)
    BY <1>1
  <2>3. PICK o : o = apply_tool_call_part(d.out, f.tool)
    OBVIOUS
  <2>4. PICK m \in Trans : \E c \in Calls : FedTool(d, f.tool, u, m, c)
    BY <1>3, <2>1, <2>2, FeedToolHeard
  <2>5. PICK c \in Calls : FedTool(d, f.tool, u, m, c)
    BY <2>4
  <2>6. m.out = o /\ o \in Outs /\ m.sent = d.sent /\ CallShown(m, u, c)
    BY <2>3, <2>5 DEF FedTool
  <2>8. c.id \notin {"text"} \X Int /\ c.id \notin {"thinking"} \X Int
    BY <2>6, ItemKinds DEF Calls
  <2>9. /\ o.tools = Applied(d.out.tools, f.tool) /\ o.text = d.out.text
        /\ o.thinking = d.out.thinking /\ o.truncated = d.out.truncated
    <3>1. d.out \in Outs
      BY DEF Trans, Translators
    <3> QED BY <2>1, <2>3, <3>1, ApplyType
  <2>10. u \in Trans /\ u.out = o /\ (Unended(d.sent) => Unended(u.sent))
    BY <2>6 DEF CallShown
  <2>11. Heard(u.sent, {"text"} \X Int) = Heard(d.sent, {"text"} \X Int)
    BY <2>6, <2>8 DEF CallShown
  <2>12. Heard(u.sent, {"thinking"} \X Int) = Heard(d.sent, {"thinking"} \X Int)
    BY <2>6, <2>8 DEF CallShown
  <2> QED BY <1>1, <1>3, <2>9, <2>10, <2>11, <2>12 DEF CallsAfter
<1> QED BY <1>2, <1>3

\* The calls, and what the client has read of them, are as they were.
CallsUntouched(t, u) ==
    u.out.tools = t.out.tools /\ \A x \in Ids : Heard(u.sent, {x}) = Heard(t.sent, {x})

\* What the last part of a frame makes of the answer.
LEMMA FeedInfoHeard ==
    ASSUME NEW t \in Trans, NEW i, i # NoPart, i.reason \in Texts, i.truncated \in BOOLEAN,
           i.signed \in BOOLEAN, NEW u, u = FeedInfo(t, i),
           Heard(t.sent, {"thinking"} \X Int) = t.out.thinking
    PROVE  /\ u \in Trans
           /\ u.out.thinking = Backfilled(t.out.thinking, i.reason)
           /\ u.out.text = t.out.text /\ u.out.tools = t.out.tools
           /\ u.out.truncated = i.truncated
           /\ Heard(u.sent, {"text"} \X Int) = Heard(t.sent, {"text"} \X Int)
           /\ IsPrefix(Heard(u.sent, {"thinking"} \X Int), u.out.thinking)
           /\ dialect = "Chat" => Heard(u.sent, {"thinking"} \X Int) = u.out.thinking
           /\ CallsUntouched(t, u)
           /\ Unended(t.sent) => EndsLast(u.sent)
<1>1. PICK b : b = Backfill(t, i.reason)
  OBVIOUS
<1>2. /\ b.out \in Outs /\ b.out.thinking = Backfilled(t.out.thinking, i.reason)
      /\ b.out.text = t.out.text /\ b.out.tools = t.out.tools
      /\ IsPrefix(t.out.thinking, b.out.thinking)
  BY <1>1, BackfillHeard
<1>3. PICK d \in Texts :
        /\ Hears(t, b, "thinking", d)
        /\ \/ d = <<>> /\ (dialect = "Chat" => b.out.thinking = t.out.thinking)
           \/ b.out.thinking = t.out.thinking \o d
  <2>1. \E d \in Texts : Filled(t, b, d)
    BY <1>1, BackfillHeard
  <2> QED BY <2>1 DEF Filled
<1>4. b \in Trans
  BY <1>3 DEF Hears
<1>5. PICK g \in BOOLEAN : g = (b.out.signed \/ (i.signed /\ i.reason # <<>>))
  BY <1>2 DEF Outs
<1>6. PICK o : o = [b.out EXCEPT !.truncated = i.truncated, !.signed = g]
  OBVIOUS
<1>7. o \in Outs /\ o.thinking = b.out.thinking /\ o.text = b.out.text /\ o.tools = b.out.tools
      /\ o.truncated = i.truncated
  BY <1>2, <1>5, <1>6 DEF Outs
<1>8. PICK m : m = [b EXCEPT !.out = o]
  OBVIOUS
<1>9. m = [b EXCEPT !.out.truncated = i.truncated,
                    !.out.signed = @ \/ (i.signed /\ i.reason # <<>>)]
  BY <1>4, <1>5, <1>6, <1>8 DEF Trans, Translators, Outs
<1>10. u = finalize_events(m)
  BY <1>1, <1>9 DEF FeedInfo
<1>11. m \in Trans /\ m.out = o /\ m.sent = b.sent
  BY <1>4, <1>7, <1>8, NewOut
<1>12. /\ u \in Trans /\ u.out = m.out
       /\ \A C : Heard(u.sent, C) = Heard(m.sent, C)
       /\ Unended(m.sent) => EndsLast(u.sent)
  BY <1>10, <1>11, FinalizeHeard
<1>13. t.out.thinking \in Texts /\ b.out.thinking \in Texts
  BY <1>2 DEF Trans, Translators, Outs
<1>14. \A x \in Texts : x \o <<>> = x
  BY ConcatEmptySeq DEF Texts
<1>15. Heard(b.sent, {"thinking"} \X Int) = t.out.thinking \o d
  BY <1>3 DEF Hears
<1>16. IsPrefix(b.out.thinking, b.out.thinking)
  BY <1>13, PrefixSelf DEF Texts
<1>17. /\ IsPrefix(Heard(b.sent, {"thinking"} \X Int), b.out.thinking)
       /\ dialect = "Chat" => Heard(b.sent, {"thinking"} \X Int) = b.out.thinking
  <2>1. CASE d = <<>> /\ (dialect = "Chat" => b.out.thinking = t.out.thinking)
    BY <2>1, <1>2, <1>13, <1>14, <1>15
  <2>2. CASE b.out.thinking = t.out.thinking \o d
    BY <2>2, <1>15, <1>16
  <2> QED BY <1>3, <2>1, <2>2
<1>18. Heard(b.sent, {"text"} \X Int) = Heard(t.sent, {"text"} \X Int)
  <2>1. ({"text"} \X Int) \cap ({"thinking"} \X Int) = {}
    OBVIOUS
  <2> QED BY <1>3, <2>1 DEF Hears
<1>19. \A x \in Ids : Heard(b.sent, {x}) = Heard(t.sent, {x})
  <2> SUFFICES ASSUME NEW x \in Ids PROVE Heard(b.sent, {x}) = Heard(t.sent, {x})
    OBVIOUS
  <2>1. {x} \cap ({"thinking"} \X Int) = {}
    BY ItemKinds
  <2> QED BY <1>3, <2>1 DEF Hears
<1>20. Unended(t.sent) => Unended(b.sent)
  BY <1>3 DEF Hears
<1>21. u.out.tools = t.out.tools /\ \A x \in Ids : Heard(u.sent, {x}) = Heard(t.sent, {x})
  BY <1>2, <1>7, <1>11, <1>12, <1>19
<1> QED BY <1>2, <1>7, <1>11, <1>12, <1>17, <1>18, <1>20, <1>21 DEF CallsUntouched

\* It says nothing of calls.
LEMMA FeedInfoCalls ==
    ASSUME NEW t \in Trans, NEW i, i # NoPart, i.reason \in Texts, i.truncated \in BOOLEAN,
           i.signed \in BOOLEAN, NEW u, u = FeedInfo(t, i),
           Heard(t.sent, {"thinking"} \X Int) = t.out.thinking
    PROVE  /\ u \in Trans /\ u.out.tools = t.out.tools
           /\ \A x \in Ids : Heard(u.sent, {x}) = Heard(t.sent, {x})
<1>1. u \in Trans /\ CallsUntouched(t, u)
  BY FeedInfoHeard
<1> QED BY <1>1 DEF CallsUntouched

\* What upstream_to_dialect_full makes of the same frame.
LEMMA FullCollects ==
    ASSUME NEW o \in Outs, NEW f \in Frames, NEW v, v = CollectFull(o, f)
    PROVE  /\ v \in Outs
           /\ v.text = o.text \o f.text
           /\ v.tools = CallsAfter(o.tools, f)
           /\ f.info = NoPart => /\ v.thinking = o.thinking \o ThinkOf(f.think)
                                 /\ v.truncated = o.truncated
           /\ f.info # NoPart =>
                /\ v.thinking = Backfilled(o.thinking \o ThinkOf(f.think), f.info.reason)
                /\ v.truncated = f.info.truncated
<1>0. Frame(f)
  BY StreamAssumption DEF StreamAssumption
<1>1. PICK x : x = o.text \o f.text
  OBVIOUS
<1>2. x \in Texts
  BY <1>0, <1>1, ConcatProperties DEF Frame, Outs, Texts
<1>3. PICK a : a = [o EXCEPT !.text = x]
  OBVIOUS
<1>4. a \in Outs /\ a.text = x /\ a.thinking = o.thinking /\ a.tools = o.tools
      /\ a.truncated = o.truncated
  BY <1>2, <1>3 DEF Outs
<1>5. PICK h : h = o.thinking \o ThinkOf(f.think)
  OBVIOUS
<1>6. h \in Texts /\ (f.think = NoPart => h = o.thinking)
  <2>1. ThinkOf(f.think) \in Seq(Tokens) /\ o.thinking \in Seq(Tokens)
    BY <1>0, NoTextIsText DEF Frame, Outs, Texts, ThinkOf
  <2>2. f.think = NoPart => ThinkOf(f.think) = <<>>
    BY DEF ThinkOf
  <2> QED BY <1>5, <2>1, <2>2, ConcatProperties, ConcatEmptySeq DEF Texts
<1>7. PICK b : b = IF f.think = NoPart THEN a
                   ELSE [a EXCEPT !.thinking = @ \o f.think.text, !.signed = @ \/ f.think.signed]
  OBVIOUS
<1>8. b \in Outs /\ b.text = x /\ b.thinking = h /\ b.tools = o.tools
      /\ b.truncated = o.truncated
  <2>1. CASE f.think = NoPart
    BY <1>4, <1>6, <1>7, <2>1
  <2>2. CASE f.think # NoPart
    <3>1. a.thinking \o f.think.text = h
      BY <1>4, <1>5, <2>2 DEF ThinkOf
    <3>2. PICK g \in BOOLEAN : g = (a.signed \/ f.think.signed)
      BY <1>0, <1>4, <2>2 DEF Frame, Outs
    <3>3. b = [a EXCEPT !.thinking = h, !.signed = g]
      BY <1>7, <2>2, <3>1, <3>2
    <3> QED BY <1>4, <1>6, <3>2, <3>3 DEF Outs
  <2> QED BY <2>1, <2>2
<1>9. PICK c : c = IF f.tool = NoPart THEN b ELSE apply_tool_call_part(b, f.tool)
  OBVIOUS
<1>10. c \in Outs /\ c.text = x /\ c.thinking = h /\ c.tools = CallsAfter(o.tools, f)
       /\ c.truncated = o.truncated
  <2>1. CASE f.tool = NoPart
    BY <1>8, <1>9, <2>1 DEF CallsAfter
  <2>2. CASE f.tool # NoPart
    <3>1. Part(f.tool)
      BY <1>0, <2>2 DEF Frame, Part
    <3>2. c = apply_tool_call_part(b, f.tool)
      BY <1>9, <2>2
    <3>3. /\ c \in Outs /\ c.tools = Applied(b.tools, f.tool)
          /\ c.text = b.text /\ c.thinking = b.thinking /\ c.truncated = b.truncated
      BY <1>8, <3>1, <3>2, ApplyType
    <3> QED BY <1>8, <2>2, <3>3 DEF CallsAfter
  <2> QED BY <2>1, <2>2
<1>11. c = AddParts(o, f)
  BY <1>1, <1>3, <1>7, <1>9 DEF AddParts
<1>12. CASE f.info = NoPart
  <2>1. v = c
    BY <1>11, <1>12 DEF CollectFull, Terminal
  <2> QED BY <1>1, <1>5, <1>10, <1>12, <2>1
<1>13. CASE f.info # NoPart
  <2>1. PICK z : z = Backfilled(h, f.info.reason)
    OBVIOUS
  <2>2. z \in Texts
    BY <1>0, <1>6, <1>13, <2>1 DEF Backfilled, Frame
  <2>3. PICK g \in BOOLEAN : g = (c.signed \/ f.info.signed)
    BY <1>0, <1>10, <1>13 DEF Frame, Outs
  <2>4. v = [c EXCEPT !.thinking = z, !.truncated = f.info.truncated, !.signed = g]
    BY <1>10, <1>11, <1>13, <2>1, <2>3 DEF CollectFull, Terminal
  <2>5. f.info.truncated \in BOOLEAN
    BY <1>0, <1>13 DEF Frame
  <2> QED BY <1>1, <1>5, <1>10, <1>13, <2>1, <2>2, <2>3, <2>4, <2>5 DEF Outs
<1> QED BY <1>12, <1>13

-----------------------------------------------------------------------------
(* The answer, frame by frame. *)

TextKind == {"text"} \X Int
ThinkKind == {"thinking"} \X Int

\* The types, and how the phases and results belong together.
StreamTypes ==
    /\ buf \in Seq(Frames) /\ fed \in Seq(Frames)
    /\ partial \in BOOLEAN /\ body \in {"open", "ended", "failed"}
    /\ phase \in {"peek", "stream", "done"}
    /\ result \in {"none", "ok", "error", "rejected"}
    /\ phase # "done" <=> result = "none"
    /\ tr \in Trans /\ full \in Outs
\* The last event is sent when the answer ends.
StreamEnded ==
    /\ result # "ok" => Unended(tr.sent)
    /\ result = "ok" => EndsLast(tr.sent)
EndedForGood ==
    result = "ok" =>
        \/ \E i \in DOMAIN fed : Terminal(fed[i])
        \/ buf # <<>> /\ Head(buf).kind = "end"
        \/ body = "ended" /\ ~partial
\* The client has heard what was collected.
StreamHeard ==
    /\ Heard(tr.sent, TextKind) = tr.out.text
    /\ IsPrefix(Heard(tr.sent, ThinkKind), tr.out.thinking)
    /\ result # "ok" \/ dialect = "Chat" => Heard(tr.sent, ThinkKind) = tr.out.thinking
StreamAgrees == result \in {"none", "ok"} => Agree(tr.out, full)

StreamInv == StreamTypes /\ StreamEnded /\ EndedForGood /\ StreamHeard /\ StreamAgrees

\* A translator that has been fed nothing.
LEMMA NewTranslatorType == NewTranslator \in Trans /\ EmptyOut \in Outs
<1>1. EmptyOut \in Outs
  BY NoTextIsText, EmptySeq DEF EmptyOut, Outs
<1>2. NewTranslator.emitted \in UNION {[S -> Texts] : S \in SUBSET Ids}
  <2>1. <<>> \in [{} -> Texts]
    OBVIOUS
  <2>2. {} \in SUBSET Ids
    OBVIOUS
  <2> QED BY <2>1, <2>2 DEF NewTranslator
<1>3. <<>> \in Seq(Events)
  BY EmptySeq
<1>4. NewTranslator \in Translators
  BY <1>1, <1>2, <1>3 DEF NewTranslator, Translators, NoIdx, Usages
<1> QED BY <1>1, <1>4 DEF Trans, NewTranslator

\* It holds in the beginning.
LEMMA StreamInvInit == StreamInit => StreamInv
<1> SUFFICES ASSUME StreamInit PROVE StreamInv
  OBVIOUS
<1>1. tr = NewTranslator /\ full = EmptyOut /\ result = "none" /\ phase = "peek"
  BY DEF StreamInit
<1>2. tr.sent = <<>> /\ tr.out = EmptyOut /\ EmptyOut.text = <<>> /\ EmptyOut.thinking = <<>>
  BY <1>1 DEF NewTranslator, EmptyOut
<1>3. StreamTypes
  BY <1>1, NewTranslatorType, EmptySeq DEF StreamInit, StreamTypes
<1>4. StreamEnded
  BY <1>1, <1>2 DEF StreamEnded, Unended
<1>5. EndedForGood
  BY <1>1 DEF EndedForGood
<1>6. StreamHeard
  <2>1. IsPrefix(<<>>, <<>>)
    BY NoTextIsText, PrefixSelf DEF Texts
  <2> QED BY <1>2, <2>1, HeardNone DEF StreamHeard
<1>7. StreamAgrees
  BY <1>1, <1>2 DEF StreamAgrees, Agree
<1> QED BY <1>3, <1>4, <1>5, <1>6, <1>7 DEF StreamInv

\* Neither bytes, nor the end of the body, nor an empty frame disturb it.
LEMMA StreamInvRead ==
    ASSUME StreamInv, ReadChunk \/ BodyEnds \/ SkipEmpty PROVE StreamInv'
<1>1. UNCHANGED <<dialect, phase, result, tr, full, fed>> /\ phase # "done"
  BY DEF ReadChunk, BodyEnds, SkipEmpty, consumer, Reading
<1>2. result = "none" /\ result' = "none"
  BY <1>1 DEF StreamInv, StreamTypes
<1>3. buf' \in Seq(Frames) /\ partial' \in BOOLEAN /\ body' \in {"open", "ended", "failed"}
  <2>1. CASE ReadChunk
    <3>1. PICK n \in 0..ChunkFrames : \E fs \in [1..n -> Frames] : buf' = fs
      BY <2>1 DEF ReadChunk
    <3>2. n \in Nat
      BY StreamAssumption DEF StreamAssumption
    <3>3. buf' \in Seq(Frames)
      BY <3>1, <3>2
    <3> QED BY <2>1, <3>3 DEF ReadChunk, StreamInv, StreamTypes
  <2>2. CASE BodyEnds
    BY <2>2 DEF BodyEnds, StreamInv, StreamTypes
  <2>3. CASE SkipEmpty
    <3>1. buf \in Seq(Frames) /\ buf # <<>> /\ buf' = Tail(buf)
      BY <2>3 DEF SkipEmpty, Skipped, StreamInv, StreamTypes
    <3>2. buf' \in Seq(Frames)
      BY <3>1
    <3> QED BY <2>3, <3>2 DEF SkipEmpty, StreamInv, StreamTypes
  <2> QED BY <2>1, <2>2, <2>3
<1>4. StreamTypes'
  BY <1>1, <1>3 DEF StreamInv, StreamTypes
<1>5. StreamEnded' /\ StreamHeard' /\ StreamAgrees'
  BY <1>1 DEF StreamInv, StreamEnded, StreamHeard, StreamAgrees
<1>6. EndedForGood'
  BY <1>2 DEF EndedForGood
<1> QED BY <1>4, <1>5, <1>6 DEF StreamInv

\* Nor does the first look, nor a failure.
LEMMA StreamInvStops == ASSUME StreamInv, Peek \/ Fail PROVE StreamInv'
<1>1. UNCHANGED <<dialect, buf, partial, body, tr, full, fed>>
  BY DEF Peek, Fail
<1>2. \/ phase' = "done" /\ result' \in {"rejected", "error"}
      \/ phase' = "stream" /\ result' = result
  BY DEF Peek, Fail
<1>3. result = "none"
  BY DEF Peek, Fail, StreamInv, StreamTypes
<1>4. StreamTypes'
  BY <1>1, <1>2, <1>3 DEF StreamInv, StreamTypes
<1>5. StreamEnded' /\ EndedForGood' /\ StreamAgrees'
  BY <1>1, <1>2, <1>3 DEF StreamInv, StreamEnded, EndedForGood, StreamAgrees
<1>6. StreamHeard'
  BY <1>1, <1>2, <1>3 DEF StreamInv, StreamHeard
<1> QED BY <1>4, <1>5, <1>6 DEF StreamInv

\* An upstream that ends without a last part.
LEMMA StreamInvEnd == ASSUME StreamInv, EndOfStream PROVE StreamInv'
<1>1. /\ tr' = finalize_events(tr) /\ phase' = "done" /\ result' = "ok"
      /\ UNCHANGED <<dialect, buf, partial, body, full, fed>>
  BY DEF EndOfStream
<1>2. result = "none" /\ tr \in Trans
  BY DEF EndOfStream, StreamInv, StreamTypes
<1>3. /\ tr' \in Trans /\ tr'.out = tr.out
      /\ \A C : Heard(tr'.sent, C) = Heard(tr.sent, C)
      /\ Unended(tr.sent) => EndsLast(tr'.sent)
  BY <1>1, <1>2, FinalizeHeard
<1>4. StreamTypes'
  BY <1>1, <1>3 DEF StreamInv, StreamTypes
<1>5. StreamEnded'
  BY <1>1, <1>2, <1>3 DEF StreamInv, StreamEnded
<1>6. EndedForGood'
  BY <1>1 DEF EndedForGood, EndOfStream, StreamEnds
<1>7. StreamAgrees'
  BY <1>1, <1>2, <1>3 DEF StreamInv, StreamAgrees
<1>8. StreamHeard'
  <2>1. Heard(tr'.sent, TextKind) = Heard(tr.sent, TextKind)
        /\ Heard(tr'.sent, ThinkKind) = Heard(tr.sent, ThinkKind)
    BY <1>3
  <2> QED BY <1>1, <1>2, <1>3, <2>1 DEF StreamInv, StreamHeard
<1> QED BY <1>4, <1>5, <1>6, <1>7, <1>8 DEF StreamInv

\* Answers that agree have the same content.
LEMMA ContentSame ==
    ASSUME NEW o, NEW q, NEW k, Agree(o, q) PROVE Content(o, k) = Content(q, k)
<1>1. PICK h : h = o.thinking
  OBVIOUS
<1>2. PICK x : x = o.text
  OBVIOUS
<1>3. PICK w : w = o.tools
  OBVIOUS
<1>4. h = q.thinking /\ x = q.text /\ w = q.tools
  BY <1>1, <1>2, <1>3 DEF Agree
<1> DEFINE hollow == CASE k = "Anthropic" -> h = <<>> /\ w = <<>>
                       [] k = "Responses" -> h = <<>> /\ w = <<>>
                       [] OTHER -> FALSE
           shown == (IF h = <<>> THEN <<>> ELSE <<<<"thinking", h>>>>)
                    \o (IF x # <<>> \/ hollow THEN <<<<"text", x>>>> ELSE <<>>)
                    \o [i \in DOMAIN w |-> <<"call", w[i].id, w[i].args>>]
<1>5. Content(o, k) = shown
  BY <1>1, <1>2, <1>3, Zenon DEF Content
<1>6. Content(q, k) = shown
  BY <1>4, Zenon DEF Content
<1> QED BY <1>5, <1>6

\* feed is the parts of the frame, then its last part.
LEMMA FeedIs == ASSUME NEW t, NEW f PROVE feed(t, f) = FeedInfo(Mid(t, f), f.info)
BY DEF feed, Mid

\* A frame.
LEMMA StreamInvFeed == ASSUME StreamInv, Feed PROVE StreamInv'
<1>1. PICK f : f = Head(buf)
  OBVIOUS
<1>2. /\ buf' = Tail(buf) /\ fed' = Append(fed, f) /\ full' = CollectFull(full, f)
      /\ tr' = IF f.error THEN tr ELSE feed(tr, f)
      /\ phase' = IF f.error \/ Terminal(f) THEN "done" ELSE phase
      /\ result' = IF f.error THEN "error" ELSE IF Terminal(f) THEN "ok" ELSE result
      /\ UNCHANGED <<dialect, partial, body>> /\ phase = "stream" /\ buf # <<>>
  BY <1>1 DEF Feed, HasObject
<1>3. /\ buf \in Seq(Frames) /\ fed \in Seq(Frames) /\ tr \in Trans /\ full \in Outs
      /\ result = "none"
  BY <1>2 DEF StreamInv, StreamTypes
<1>4. f \in Frames /\ buf' \in Seq(Frames)
  BY <1>1, <1>2, <1>3
<1>5. Frame(f)
  BY <1>4, StreamAssumption DEF StreamAssumption
<1>6. fed' \in Seq(Frames) /\ Len(fed') = Len(fed) + 1 /\ fed'[Len(fed) + 1] = f
  BY <1>2, <1>3, <1>4, AppendProperties
<1>7. full' \in Outs
  BY <1>2, <1>3, <1>4, FullCollects
<1>8. CASE f.error
  <2>1. tr' = tr /\ phase' = "done" /\ result' = "error"
    BY <1>2, <1>8
  <2>2. StreamTypes'
    BY <1>2, <1>3, <1>4, <1>6, <1>7, <2>1 DEF StreamInv, StreamTypes
  <2>3. StreamEnded' /\ EndedForGood' /\ StreamAgrees'
    BY <1>3, <2>1 DEF StreamInv, StreamEnded, EndedForGood, StreamAgrees
  <2>4. StreamHeard'
    BY <1>2, <1>3, <2>1 DEF StreamInv, StreamHeard
  <2> QED BY <2>2, <2>3, <2>4 DEF StreamInv
<1>9. CASE ~f.error
  <2>1. PICK m : m = Mid(tr, f)
    OBVIOUS
  <2>2. /\ m \in Trans
        /\ Heard(m.sent, TextKind) = Heard(tr.sent, TextKind) \o f.text
        /\ Heard(m.sent, ThinkKind) = Heard(tr.sent, ThinkKind) \o ThinkOf(f.think)
        /\ Unended(tr.sent) => Unended(m.sent)
        /\ m.out.thinking = tr.out.thinking \o ThinkOf(f.think)
        /\ m.out.text = tr.out.text \o f.text
        /\ m.out.tools = CallsAfter(tr.out.tools, f)
        /\ m.out.truncated = tr.out.truncated
    BY <1>3, <1>4, <2>1, MidHeard DEF TextKind, ThinkKind
  <2>3. tr' = FeedInfo(m, f.info)
    BY <1>2, <1>9, <2>1, FeedIs
  <2>4. /\ Heard(tr.sent, TextKind) = tr.out.text /\ Heard(tr.sent, ThinkKind) = tr.out.thinking
        /\ Unended(tr.sent) /\ Agree(tr.out, full)
    BY <1>3 DEF StreamInv, StreamHeard, StreamEnded, StreamAgrees
  <2>5. Heard(m.sent, TextKind) = m.out.text /\ Heard(m.sent, ThinkKind) = m.out.thinking
    BY <2>2, <2>4
  <2>6. CASE f.info = NoPart
    <3>1. tr' = m /\ phase' = phase /\ result' = "none"
      BY <1>2, <1>3, <1>9, <2>3, <2>6 DEF FeedInfo, Terminal
    <3>2. StreamTypes'
      BY <1>2, <1>3, <1>4, <1>6, <1>7, <2>2, <3>1 DEF StreamInv, StreamTypes
    <3>3. StreamEnded' /\ EndedForGood'
      BY <2>2, <2>4, <3>1 DEF StreamEnded, EndedForGood
    <3>4. StreamHeard'
      <4>1. m.out.thinking \in Texts
        BY <2>2 DEF Trans, Translators, Outs
      <4>2. IsPrefix(m.out.thinking, m.out.thinking)
        BY <4>1, PrefixSelf DEF Texts
      <4> QED BY <2>5, <3>1, <4>2 DEF StreamHeard
    <3>5. Agree(m.out, full')
      <4>1. /\ full'.text = full.text \o f.text /\ full'.tools = CallsAfter(full.tools, f)
            /\ full'.thinking = full.thinking \o ThinkOf(f.think)
            /\ full'.truncated = full.truncated
        BY <1>2, <1>3, <1>4, <2>6, FullCollects
      <4> QED BY <2>2, <2>4, <4>1 DEF Agree
    <3>6. StreamAgrees'
      BY <3>1, <3>5 DEF StreamAgrees
    <3> QED BY <3>2, <3>3, <3>4, <3>6 DEF StreamInv
  <2>7. CASE f.info # NoPart
    <3>1. phase' = "done" /\ result' = "ok"
      BY <1>2, <1>9, <2>7 DEF Terminal
    <3>2. f.info.reason \in Texts /\ f.info.truncated \in BOOLEAN /\ f.info.signed \in BOOLEAN
      BY <1>5, <2>7 DEF Frame
    <3>3. /\ tr' \in Trans
          /\ tr'.out.thinking = Backfilled(m.out.thinking, f.info.reason)
          /\ tr'.out.text = m.out.text /\ tr'.out.tools = m.out.tools
          /\ tr'.out.truncated = f.info.truncated
          /\ Heard(tr'.sent, TextKind) = Heard(m.sent, TextKind)
          /\ IsPrefix(Heard(tr'.sent, ThinkKind), tr'.out.thinking)
          /\ dialect = "Chat" => Heard(tr'.sent, ThinkKind) = tr'.out.thinking
          /\ Unended(m.sent) => EndsLast(tr'.sent)
      <4>1. PICK j : j = f.info
        OBVIOUS
      <4>2. /\ j # NoPart /\ j.reason \in Texts /\ j.truncated \in BOOLEAN
            /\ j.signed \in BOOLEAN /\ tr' = FeedInfo(m, j)
        BY <2>3, <2>7, <3>2, <4>1
      <4>3. m \in Trans /\ Heard(m.sent, {"thinking"} \X Int) = m.out.thinking
        BY <2>2, <2>5 DEF ThinkKind
      <4>4. PICK u : u = FeedInfo(m, j)
        OBVIOUS
      <4>5. /\ u \in Trans
            /\ u.out.thinking = Backfilled(m.out.thinking, j.reason)
            /\ u.out.text = m.out.text /\ u.out.tools = m.out.tools
            /\ u.out.truncated = j.truncated
            /\ Heard(u.sent, {"text"} \X Int) = Heard(m.sent, {"text"} \X Int)
            /\ IsPrefix(Heard(u.sent, {"thinking"} \X Int), u.out.thinking)
            /\ dialect = "Chat" => Heard(u.sent, {"thinking"} \X Int) = u.out.thinking
            /\ Unended(m.sent) => EndsLast(u.sent)
        <5> HIDE <4>1
        <5> QED BY <4>2, <4>3, <4>4, FeedInfoHeard
      <4>6. tr' = u
        BY <4>2, <4>4
      <4> QED BY <4>1, <4>5, <4>6 DEF TextKind, ThinkKind
    <3>4. StreamTypes'
      BY <1>2, <1>3, <1>4, <1>6, <1>7, <3>1, <3>3 DEF StreamInv, StreamTypes
    <3>5. StreamEnded'
      BY <2>2, <2>4, <3>1, <3>3 DEF StreamEnded
    <3>6. EndedForGood'
      <4>1. Len(fed) + 1 \in DOMAIN fed' /\ Terminal(fed'[Len(fed) + 1])
        BY <1>3, <1>6, <2>7 DEF Terminal
      <4> QED BY <4>1 DEF EndedForGood
    <3>7. StreamHeard'
      BY <1>2, <2>5, <3>1, <3>3 DEF StreamHeard
    <3>8. Agree(tr'.out, full')
      <4>1. /\ full'.text = full.text \o f.text /\ full'.tools = CallsAfter(full.tools, f)
            /\ full'.thinking = Backfilled(full.thinking \o ThinkOf(f.think), f.info.reason)
            /\ full'.truncated = f.info.truncated
        BY <1>2, <1>3, <1>4, <2>7, FullCollects
      <4> QED BY <2>2, <2>4, <3>3, <4>1 DEF Agree
    <3>9. StreamAgrees'
      BY <3>8 DEF StreamAgrees
    <3> QED BY <3>4, <3>5, <3>6, <3>7, <3>9 DEF StreamInv
  <2> QED BY <2>6, <2>7
<1> QED BY <1>5, <1>8, <1>9 DEF Frame

\* So does every step keep it.
LEMMA StreamInvNext == StreamInv /\ [StreamNext]_streamVars => StreamInv'
<1> SUFFICES ASSUME StreamInv, [StreamNext]_streamVars PROVE StreamInv'
  OBVIOUS
<1>1. CASE UNCHANGED streamVars
  BY <1>1 DEF StreamInv, StreamTypes, StreamEnded, EndedForGood, StreamHeard, StreamAgrees, streamVars
<1>2. CASE StreamNext
  <2>1. CASE ReadChunk \/ BodyEnds \/ SkipEmpty
    BY <2>1, StreamInvRead
  <2>2. CASE Peek \/ Fail
    BY <2>2, StreamInvStops
  <2>3. CASE Feed
    BY <2>3, StreamInvFeed
  <2>4. CASE EndOfStream
    BY <2>4, StreamInvEnd
  <2> QED BY <1>2, <2>1, <2>2, <2>3, <2>4 DEF StreamNext
<1> QED BY <1>1, <1>2

\* The invariant of the translator holds of every answer.
LEMMA StreamInvHolds == StreamSpec => []StreamInv
<1>1. StreamInit => StreamInv
  BY StreamInvInit
<1>2. StreamInv /\ [StreamNext]_streamVars => StreamInv'
  BY StreamInvNext
<1> QED BY <1>1, <1>2, PTL DEF StreamSpec

\* An answer is ended once, with its last event, exactly when the translation
\* succeeded, and never for an upstream that broke off (poll_next,
\* upstream_to_dialect_stream).
THEOREM AnswerEndsOnce == StreamSpec => []EndedOnce
<1>1. ASSUME StreamInv PROVE EndedOnce
  <2>1. tr.sent \in Seq(Events)
    BY <1>1 DEF StreamInv, StreamTypes, Trans, Translators
  <2>2. EventsOf("final") = {i \in 1..Len(tr.sent) : tr.sent[i].ev = "final"}
    BY <2>1 DEF EventsOf
  <2>3. CASE result = "ok"
    <3>1. EndsLast(tr.sent)
      BY <1>1, <2>3 DEF StreamInv, StreamEnded
    <3>2. Len(tr.sent) \in Nat /\ Len(tr.sent) # 0
      BY <2>1, <3>1 DEF EndsLast
    <3>3. EventsOf("final") = {Len(tr.sent)}
      BY <2>2, <3>1, <3>2 DEF EndsLast
    <3>4. Cardinality({Len(tr.sent)}) = 1
      BY FS_Singleton
    <3> QED BY <1>1, <2>3, <3>3, <3>4 DEF EndedOnce, StreamInv, EndedForGood
  <2>4. CASE result # "ok"
    <3>1. EventsOf("final") = {}
      BY <1>1, <2>2, <2>4 DEF StreamInv, StreamEnded, Unended
    <3>2. Cardinality({}) = 0
      BY FS_EmptySet
    <3> QED BY <2>4, <3>1, <3>2 DEF EndedOnce
  <2> QED BY <2>3, <2>4
<1> QED BY <1>1, StreamInvHolds, PTL

\* A client that asks for a stream and one that does not are given the same
\* answer (feed, upstream_to_dialect_full).
THEOREM StreamIsFull == StreamSpec => []StreamAgreesWithFull
<1>1. ASSUME StreamInv PROVE StreamAgreesWithFull
  <2> SUFFICES ASSUME result = "ok"
               PROVE  /\ Content(tr.out, dialect) = Content(full, dialect)
                      /\ StopReason(tr.out) = StopReason(full)
    BY DEF StreamAgreesWithFull
  <2>1. Agree(tr.out, full)
    BY <1>1 DEF StreamInv, StreamAgrees
  <2>2. StopReason(tr.out) = StopReason(full)
    BY <2>1 DEF Agree, StopReason
  <2>3. Content(tr.out, dialect) = Content(full, dialect)
    BY <2>1, ContentSame
  <2> QED BY <2>2, <2>3
<1> QED BY <1>1, StreamInvHolds, PTL

-----------------------------------------------------------------------------
(* Calls that come one after the other. *)

\* The calls w and the completed ids k after the frames q: every call has had a
\* part, ids are distinct, and the part that came last was one of the last call.
HasPart(q, a) == q[a].tool # NoPart
AllParts(q, w) ==
    \A i \in 1..Len(w) : \E a \in 1..Len(q) : HasPart(q, a) /\ q[a].tool.id = w[i].id
Distinct(w) == \A i, j \in 1..Len(w) : w[i].id = w[j].id => i = j
LastPart(q, w) ==
    w # <<>> => \E b \in 1..Len(q) :
        /\ HasPart(q, b) /\ q[b].tool.id = w[Len(w)].id
        /\ \A a \in 1..Len(q) : HasPart(q, a) => a <= b
DoneParts(q, k) ==
    \A x \in k : \E a \in 1..Len(q) :
        HasPart(q, a) /\ q[a].tool.id = x /\ q[a].tool.complete
DoneCalls(w, k) == \A x \in k : \E i \in 1..Len(w) : w[i].id = x
InOrder(q, w, k) ==
    AllParts(q, w) /\ Distinct(w) /\ LastPart(q, w) /\ DoneParts(q, k) /\ DoneCalls(w, k)

\* What was said in order before a frame is in order.
LEMMA OrderlyPast ==
    ASSUME NEW f \in Frames, fed \in Seq(Frames), fed' = Append(fed, f), Orderly'
    PROVE  Orderly /\ (OnlyFragments' => OnlyFragments)
<1>1. /\ fed' \in Seq(Frames) /\ Len(fed') = Len(fed) + 1 /\ Len(fed) \in Nat
      /\ \A i \in 1..Len(fed) : fed'[i] = fed[i]
  BY AppendProperties
<1>2. DOMAIN fed = 1..Len(fed) /\ DOMAIN fed' = 1..Len(fed) + 1
  BY <1>1
<1>3. \A i \in 1..Len(fed) : i \in DOMAIN fed' /\ fed'[i] = fed[i]
  BY <1>1, <1>2
<1>4. Orderly
  <2>1. \A i \in DOMAIN fed : fed[i].tool # NoPart => fed[i].tool.id # NoText
    BY <1>2, <1>3 DEF Orderly
  <2>2. ASSUME NEW i \in DOMAIN fed, NEW j \in DOMAIN fed, i < j
        PROVE  /\ \A a \in Ranks(fed[i]), b \in Ranks(fed[j]) : a <= b
               /\ fed[i].tool # NoPart /\ fed[j].tool # NoPart =>
                    \/ fed[i].tool.id # fed[j].tool.id
                    \/ /\ ~fed[i].tool.complete
                       /\ \A k \in i..j : fed[k].tool # NoPart => fed[k].tool.id = fed[i].tool.id
    <3>1. i \in DOMAIN fed' /\ j \in DOMAIN fed' /\ fed'[i] = fed[i] /\ fed'[j] = fed[j]
      BY <1>2, <1>3
    <3>2. \A k \in i..j : fed'[k] = fed[k]
      BY <1>2, <1>3
    <3>3. /\ \A a \in Ranks(fed'[i]), b \in Ranks(fed'[j]) : a <= b
          /\ fed'[i].tool # NoPart /\ fed'[j].tool # NoPart =>
               \/ fed'[i].tool.id # fed'[j].tool.id
               \/ /\ ~fed'[i].tool.complete
                  /\ \A k \in i..j : fed'[k].tool # NoPart => fed'[k].tool.id = fed'[i].tool.id
      BY <2>2, <3>1 DEF Orderly
    <3> QED BY <3>1, <3>2, <3>3
  <2> QED BY <2>1, <2>2 DEF Orderly
<1>5. OnlyFragments' => OnlyFragments
  BY <1>2, <1>3 DEF OnlyFragments
<1> QED BY <1>4, <1>5

\* In an orderly answer a part is of the last call or of a new one, and of none
\* that was completed.
LEMMA OrderlyPart ==
    ASSUME NEW f \in Frames, fed \in Seq(Frames), fed' = Append(fed, f), Orderly',
           f.tool # NoPart, NEW w \in Seq(Calls), NEW k, InOrder(fed, w, k)
    PROVE  /\ f.tool.id # NoText /\ f.tool.id \notin k
           /\ \A i \in 1..Len(w) : w[i].id = f.tool.id => i = Len(w)
<1>1. /\ fed' \in Seq(Frames) /\ Len(fed') = Len(fed) + 1 /\ Len(fed) \in Nat
      /\ fed'[Len(fed) + 1] = f /\ \A i \in 1..Len(fed) : fed'[i] = fed[i]
  BY AppendProperties
<1>2. PICK n \in Nat : n = Len(fed)
  BY <1>1
<1>3. DOMAIN fed' = 1..n + 1 /\ n + 1 \in DOMAIN fed' /\ fed'[n + 1] = f
  BY <1>1, <1>2
<1>4. f.tool.id # NoText
  BY <1>3 DEF Orderly
<1>5. ASSUME NEW a \in 1..n, HasPart(fed, a), fed[a].tool.id = f.tool.id
      PROVE  /\ ~fed[a].tool.complete
             /\ \A b \in a..n : HasPart(fed, b) => fed[b].tool.id = f.tool.id
  <2>1. a \in DOMAIN fed' /\ a < n + 1 /\ fed'[a] = fed[a]
    BY <1>1, <1>2, <1>3
  <2>2. /\ ~fed'[a].tool.complete
        /\ \A b \in a..n + 1 : fed'[b].tool # NoPart => fed'[b].tool.id = fed'[a].tool.id
    BY <1>3, <1>5, <2>1 DEF Orderly, HasPart
  <2>3. \A b \in a..n : b \in a..n + 1 /\ fed'[b] = fed[b]
    BY <1>1, <1>2
  <2> QED BY <1>5, <2>1, <2>2, <2>3 DEF HasPart
<1>6. f.tool.id \notin k
  <2> SUFFICES ASSUME f.tool.id \in k PROVE FALSE
    OBVIOUS
  <2>1. PICK a \in 1..n : HasPart(fed, a) /\ fed[a].tool.id = f.tool.id /\ fed[a].tool.complete
    BY <1>2 DEF InOrder, AllParts, LastPart, DoneParts
  <2> QED BY <1>5, <2>1
<1>7. ASSUME NEW i \in 1..Len(w), w[i].id = f.tool.id PROVE i = Len(w)
  <2>1. w # <<>> /\ Len(w) \in 1..Len(w)
    BY <1>7
  <2>2. PICK a \in 1..n : HasPart(fed, a) /\ fed[a].tool.id = w[i].id
    BY <1>2 DEF InOrder, AllParts, LastPart, DoneParts
  <2>3. PICK b \in 1..n : /\ HasPart(fed, b) /\ fed[b].tool.id = w[Len(w)].id
                          /\ \A c \in 1..n : HasPart(fed, c) => c <= b
    BY <1>2, <2>1 DEF InOrder, LastPart
  <2>4. b \in a..n
    BY <2>2, <2>3
  <2>5. fed[b].tool.id = f.tool.id
    BY <1>5, <1>7, <2>2, <2>3, <2>4
  <2>6. w[Len(w)].id = w[i].id
    BY <1>7, <2>3, <2>5
  <2> QED BY <2>1, <2>6 DEF InOrder, Distinct
<1> QED BY <1>4, <1>6, <1>7

\* What such a part makes of the calls.
LEMMA AppliedLast ==
    ASSUME NEW w \in Seq(Calls), NEW p, Part(p), p.id # NoText,
           \A i \in 1..Len(w) : w[i].id = p.id => i = Len(w)
    PROVE  \/ /\ w # <<>> /\ w[Len(w)].id = p.id
              /\ Applied(w, p) = [w EXCEPT ![Len(w)] = Merged(w[Len(w)], p)]
           \/ /\ \A i \in 1..Len(w) : w[i].id # p.id
              /\ Applied(w, p) = Append(w, NewCall(w, p))
<1>1. Hits(w, p) = {i \in 1..Len(w) : w[i].id = p.id}
  BY DEF Hits, Matches
<1>2. CASE Hits(w, p) = {}
  BY <1>1, <1>2 DEF Applied
<1>3. CASE Hits(w, p) # {}
  <2>1. Hits(w, p) = {Len(w)} /\ Len(w) \in Nat \ {0} /\ w[Len(w)].id = p.id
    BY <1>1, <1>3
  <2>2. \E l \in Hits(w, p) : \A j \in Hits(w, p) : j <= l
    BY <2>1
  <2>3. LastHit(w, p) \in Hits(w, p)
    BY <2>2, Zenon DEF LastHit
  <2>4. LastHit(w, p) = Len(w)
    BY <2>1, <2>3
  <2> QED BY <1>3, <2>1, <2>4 DEF Applied
<1> QED BY <1>2, <1>3

\* The completed ids after a frame.
DoneAfter(k, f) == IF f.tool # NoPart /\ f.tool.complete THEN k \cup {f.tool.id} ELSE k

\* A call keeps its id, and one that is made takes that of the part.
LEMMA CallIs ==
    ASSUME NEW w \in Seq(Calls), NEW p, Part(p), p.id # NoText
    PROVE  /\ \A c \in Calls : /\ Merged(c, p).id = c.id
                               /\ Merged(c, p).args = merge_tool_arg_text(c.args, p.args)
           /\ NewCall(w, p).id = p.id /\ NewCall(w, p).args = p.args
           /\ NewCall(w, p) \in Calls
<1>1. NewCall(w, p) \in Calls
  BY DEF NewCall, Calls, Part, Ids
<1>2. NewCall(w, p).id = p.id /\ NewCall(w, p).args = p.args
  BY DEF NewCall
<1>3. \A c \in Calls : /\ Merged(c, p).id = c.id
                       /\ Merged(c, p).args = merge_tool_arg_text(c.args, p.args)
  BY DEF Merged, Calls
<1> QED BY <1>1, <1>2, <1>3

\* The calls stay in order.
LEMMA InOrderKept ==
    ASSUME NEW f \in Frames, fed \in Seq(Frames), fed' = Append(fed, f), Orderly',
           NEW w \in Seq(Calls), NEW k, InOrder(fed, w, k)
    PROVE  InOrder(fed', CallsAfter(w, f), DoneAfter(k, f))
<1>1. /\ fed' \in Seq(Frames) /\ Len(fed') = Len(fed) + 1 /\ Len(fed) \in Nat
      /\ fed'[Len(fed) + 1] = f /\ \A i \in 1..Len(fed) : fed'[i] = fed[i]
  BY AppendProperties
<1>2. PICK n \in Nat : n = Len(fed)
  BY <1>1
<1>3. PICK q : q = fed'
  OBVIOUS
<1>4. Len(q) = n + 1 /\ q[n + 1] = f /\ \A a \in 1..n : q[a] = fed[a] /\ a \in 1..n + 1
  BY <1>1, <1>2, <1>3
<1>5. \A a \in 1..n : HasPart(fed, a) <=> HasPart(q, a)
  BY <1>4 DEF HasPart
<1>6. CASE f.tool = NoPart
  <2>1. CallsAfter(w, f) = w /\ DoneAfter(k, f) = k
    BY <1>6 DEF CallsAfter, DoneAfter
  <2>2. \A a \in 1..n + 1 : HasPart(q, a) => a \in 1..n
    BY <1>4, <1>6 DEF HasPart
  <2>3. \A i \in 1..Len(w) : \E a \in 1..n + 1 : HasPart(q, a) /\ q[a].tool.id = w[i].id
    <3> SUFFICES ASSUME NEW i \in 1..Len(w)
                 PROVE  \E a \in 1..n + 1 : HasPart(q, a) /\ q[a].tool.id = w[i].id
      OBVIOUS
    <3>1. PICK a \in 1..n : HasPart(fed, a) /\ fed[a].tool.id = w[i].id
      BY <1>2 DEF InOrder, AllParts
    <3> QED BY <1>4, <1>5, <3>1
  <2>4. w # <<>> => \E b \in 1..n + 1 :
          /\ HasPart(q, b) /\ q[b].tool.id = w[Len(w)].id
          /\ \A a \in 1..n + 1 : HasPart(q, a) => a <= b
    <3> SUFFICES ASSUME w # <<>>
                 PROVE  \E b \in 1..n + 1 :
                          /\ HasPart(q, b) /\ q[b].tool.id = w[Len(w)].id
                          /\ \A a \in 1..n + 1 : HasPart(q, a) => a <= b
      OBVIOUS
    <3>1. PICK b \in 1..n : /\ HasPart(fed, b) /\ fed[b].tool.id = w[Len(w)].id
                            /\ \A a \in 1..n : HasPart(fed, a) => a <= b
      BY <1>2 DEF InOrder, AllParts, LastPart, DoneParts
    <3>2. \A a \in 1..n + 1 : HasPart(q, a) => a <= b
      BY <1>5, <2>2, <3>1
    <3> QED BY <1>4, <1>5, <3>1, <3>2
  <2>5. \A x \in k : \E a \in 1..n + 1 :
          HasPart(q, a) /\ q[a].tool.id = x /\ q[a].tool.complete
    BY <1>2, <1>4, <1>5 DEF InOrder, DoneParts
  <2>6. AllParts(q, w) /\ LastPart(q, w) /\ DoneParts(q, k)
    BY <1>4, <2>3, <2>4, <2>5 DEF AllParts, LastPart, DoneParts
  <2> QED BY <1>3, <2>1, <2>6 DEF InOrder
<1>7. CASE f.tool # NoPart
  <2>1. PICK p : p = f.tool
    OBVIOUS
  <2>2. Part(p) /\ p # NoPart
    BY <1>7, <2>1, StreamAssumption DEF StreamAssumption, Frame, Part
  <2>3. /\ p.id # NoText /\ p.id \notin k
        /\ \A i \in 1..Len(w) : w[i].id = p.id => i = Len(w)
    BY <1>7, <2>1, OrderlyPart
  <2>4. PICK r : r = Applied(w, p)
    OBVIOUS
  <2>5. r \in Seq(Calls)
    BY <2>2, <2>4, AppliedType
  <2>6. /\ CallsAfter(w, f) = r
        /\ DoneAfter(k, f) = IF p.complete THEN k \cup {p.id} ELSE k
    BY <1>7, <2>1, <2>4 DEF CallsAfter, DoneAfter
  <2>7. HasPart(q, n + 1) /\ q[n + 1].tool = p
    BY <1>4, <1>7, <2>1 DEF HasPart
  <2>8. /\ r # <<>> /\ r[Len(r)].id = p.id /\ Len(r) \in 1..Len(r) /\ Len(r) >= Len(w)
        /\ \A i \in 1..Len(w) : r[i].id = w[i].id
        /\ \A i \in 1..Len(r) : i \in 1..Len(w) \/ i = Len(r)
        /\ Len(r) > Len(w) => \A i \in 1..Len(w) : w[i].id # p.id
    <3>1. CASE /\ w # <<>> /\ w[Len(w)].id = p.id
               /\ r = [w EXCEPT ![Len(w)] = Merged(w[Len(w)], p)]
      <4>1. PICK l \in Nat \ {0} : l = Len(w)
        BY <3>1
      <4>2. w[l] \in Calls /\ Merged(w[l], p).id = w[l].id
        BY <2>2, <2>3, <4>1, CallIs
      <4>3. PICK c : c = Merged(w[l], p)
        OBVIOUS
      <4>4. r = [w EXCEPT ![l] = c] /\ c.id = w[l].id /\ c.id = p.id
        BY <3>1, <4>1, <4>2, <4>3
      <4>5. Len(r) = l /\ \A i \in 1..l : r[i] = IF i = l THEN c ELSE w[i]
        BY <4>1, <4>4
      <4>6. r # <<>> /\ r[Len(r)].id = p.id /\ Len(r) \in 1..Len(r) /\ Len(r) = Len(w)
        BY <4>1, <4>4, <4>5
      <4>7. \A i \in 1..Len(w) : r[i].id = w[i].id
        BY <4>1, <4>4, <4>5
      <4> QED BY <4>1, <4>5, <4>6, <4>7
    <3>2. CASE /\ \A i \in 1..Len(w) : w[i].id # p.id
               /\ r = Append(w, NewCall(w, p))
      <4>1. NewCall(w, p) \in Calls /\ NewCall(w, p).id = p.id
        BY <2>2, <2>3, CallIs
      <4>2. PICK c \in Calls : c = NewCall(w, p)
        BY <4>1
      <4>3. r = Append(w, c) /\ c.id = p.id
        BY <3>2, <4>1, <4>2
      <4>4. Len(r) = Len(w) + 1 /\ r[Len(w) + 1] = c /\ \A i \in 1..Len(w) : r[i] = w[i]
        BY <4>3, AppendProperties
      <4>5. Len(w) \in Nat
        OBVIOUS
      <4> QED BY <3>2, <4>3, <4>4, <4>5
    <3> QED BY <2>2, <2>3, <2>4, <3>1, <3>2, AppliedLast
  <2>9. \A i \in 1..Len(r) : \E a \in 1..n + 1 : HasPart(q, a) /\ q[a].tool.id = r[i].id
    <3> SUFFICES ASSUME NEW i \in 1..Len(r)
                 PROVE  \E a \in 1..n + 1 : HasPart(q, a) /\ q[a].tool.id = r[i].id
      OBVIOUS
    <3>1. CASE i = Len(r)
      BY <2>7, <2>8, <3>1
    <3>2. CASE i \in 1..Len(w)
      <4>1. PICK a \in 1..n : HasPart(fed, a) /\ fed[a].tool.id = w[i].id
        BY <1>2, <3>2 DEF InOrder, AllParts
      <4> QED BY <1>4, <1>5, <2>8, <3>2, <4>1
    <3> QED BY <2>8, <3>1, <3>2
  <2>10. ASSUME NEW i \in 1..Len(r), NEW j \in 1..Len(r), r[i].id = r[j].id PROVE i = j
    <3>1. CASE i \in 1..Len(w) /\ j \in 1..Len(w)
      BY <2>8, <2>10, <3>1 DEF InOrder, Distinct
    <3>2. CASE ~(i \in 1..Len(w) /\ j \in 1..Len(w))
      <4>1. Len(w) \in Nat /\ Len(r) \in Nat
        BY <2>5
      <4>2. Len(r) > Len(w)
        BY <2>8, <3>2, <4>1
      <4>3. \A m \in 1..Len(r) : m \in 1..Len(w) => r[m].id # p.id
        BY <2>8, <4>2
      <4>4. CASE i \in 1..Len(w)
        <5>1. j = Len(r)
          BY <2>8, <3>2, <4>4
        <5> QED BY <2>8, <2>10, <4>3, <4>4, <5>1
      <4>5. CASE i = Len(r)
        <5>1. j \notin 1..Len(w)
          BY <2>8, <2>10, <4>3, <4>5
        <5> QED BY <2>8, <4>5, <5>1
      <4> QED BY <2>8, <4>4, <4>5
    <3> QED BY <3>1, <3>2
  <2>11. \E b \in 1..n + 1 : /\ HasPart(q, b) /\ q[b].tool.id = r[Len(r)].id
                             /\ \A a \in 1..n + 1 : HasPart(q, a) => a <= b
    <3>1. n + 1 \in 1..n + 1 /\ \A a \in 1..n + 1 : a <= n + 1
      OBVIOUS
    <3> QED BY <2>7, <2>8, <3>1
  <2>12. \A x \in DoneAfter(k, f) : \E a \in 1..n + 1 :
            HasPart(q, a) /\ q[a].tool.id = x /\ q[a].tool.complete
    <3> SUFFICES ASSUME NEW x \in DoneAfter(k, f)
                 PROVE  \E a \in 1..n + 1 :
                          HasPart(q, a) /\ q[a].tool.id = x /\ q[a].tool.complete
      OBVIOUS
    <3>1. CASE x \in k
      <4>1. PICK a \in 1..n : HasPart(fed, a) /\ fed[a].tool.id = x /\ fed[a].tool.complete
        BY <1>2, <3>1 DEF InOrder, DoneParts
      <4> QED BY <1>4, <1>5, <4>1
    <3>2. CASE x = p.id /\ p.complete
      BY <2>7, <3>2
    <3> QED BY <2>6, <3>1, <3>2
  <2>13. \A x \in DoneAfter(k, f) : \E i \in 1..Len(r) : r[i].id = x
    <3> SUFFICES ASSUME NEW x \in DoneAfter(k, f) PROVE \E i \in 1..Len(r) : r[i].id = x
      OBVIOUS
    <3>1. CASE x \in k
      <4>1. PICK i \in 1..Len(w) : w[i].id = x
        BY <3>1 DEF InOrder, DoneCalls
      <4>2. i \in 1..Len(r)
        BY <2>5, <2>8
      <4> QED BY <2>8, <4>1, <4>2
    <3>2. CASE x = p.id
      BY <2>8, <3>2
    <3> QED BY <2>6, <3>1, <3>2
  <2>14. AllParts(q, r)
    BY <1>4, <2>9 DEF AllParts
  <2>15. Distinct(r)
    BY <2>10 DEF Distinct
  <2>16. LastPart(q, r)
    BY <1>4, <2>11 DEF LastPart
  <2>17. DoneParts(q, DoneAfter(k, f))
    BY <1>4, <2>12 DEF DoneParts
  <2>18. DoneCalls(r, DoneAfter(k, f))
    BY <2>13 DEF DoneCalls
  <2> QED BY <1>3, <2>6, <2>14, <2>15, <2>16, <2>17, <2>18 DEF InOrder
<1> QED BY <1>6, <1>7

\* Of each call the client has heard the arguments and of no other anything.
CallTold(t, i) == Heard(t.sent, {t.out.tools[i].id}) = t.out.tools[i].args
AllTold(t) == \A i \in 1..Len(t.out.tools) : CallTold(t, i)
Noticed(t) ==
    /\ AllTold(t)
    /\ \A i \in 1..Len(t.out.tools) : Emitted(t, t.out.tools[i].id) = t.out.tools[i].args
    /\ \A x \in Ids : (\A i \in 1..Len(t.out.tools) : t.out.tools[i].id # x) =>
          Heard(t.sent, {x}) = <<>> /\ Emitted(t, x) = <<>>

\* A fragment continues the arguments.
LEMMA FragmentContinues ==
    ASSUME NEW a \in Texts, NEW b \in Texts, b \notin DOMAIN Fields
    PROVE  IsPrefix(a, merge_tool_arg_text(a, b))
<1>1. a \in Seq(Tokens) /\ b \in Seq(Tokens)
  BY DEF Texts
<1>2. IsPrefix(a, a) /\ IsPrefix(a, a \o b)
  BY <1>1, PrefixSelf, PrefixConcat
<1>3. CASE IsPrefix(a, b)
  BY <1>3 DEF merge_tool_arg_text
<1>4. CASE ~IsPrefix(a, b) /\ IsPrefix(b, a)
  BY <1>2, <1>4 DEF merge_tool_arg_text
<1>5. CASE ~IsPrefix(a, b) /\ ~IsPrefix(b, a)
  <2>1. merge_tool_arg_text(a, b) = a \o b
    BY <1>5 DEF merge_tool_arg_text
  <2> QED BY <1>2, <2>1
<1> QED BY <1>3, <1>4, <1>5

\* What is heard with the rest are all the arguments.
LEMMA UnsentIs ==
    ASSUME NEW b \in Texts, NEW a \in Texts, IsPrefix(b, a)
    PROVE  b \o Unsent(b, a) = a /\ (Unsent(b, a) = <<>> => a = b)
<1>1. b \in Seq(Tokens) /\ a \in Seq(Tokens)
  BY DEF Texts
<1>2. a = b \o SubSeq(a, Len(b) + 1, Len(a))
  BY <1>1, PrefixIs
<1>3. b \o <<>> = b
  BY <1>1, ConcatEmptySeq
<1> QED BY <1>2, <1>3 DEF Unsent

\* A fragment of the last call, or of a new one, is heard.
LEMMA ToolNoticed ==
    ASSUME NEW t \in Trans, NEW p, Part(p), p # NoPart, NEW u, u = FeedTool(t, p),
           p.id # NoText, p.args \notin DOMAIN Fields, Distinct(t.out.tools),
           \A i \in 1..Len(t.out.tools) : t.out.tools[i].id = p.id => i = Len(t.out.tools),
           Noticed(t)
    PROVE  Noticed(u)
<1>1. PICK m \in Trans : \E c \in Calls : FedTool(t, p, u, m, c)
  BY FeedToolHeard
<1>2. PICK c \in Calls : FedTool(t, p, u, m, c)
  BY <1>1
<1>3. PICK w : w = t.out.tools
  OBVIOUS
<1>4. w \in Seq(Calls) /\ t.out \in Outs
  BY <1>3 DEF Trans, Translators, Outs
<1>5. PICK r : r = Applied(w, p)
  OBVIOUS
<1>6. m.out.tools = r
  <2>1. PICK o : o = apply_tool_call_part(t.out, p)
    OBVIOUS
  <2>2. o.tools = r
    BY <1>3, <1>4, <1>5, <2>1, ApplyType
  <2> QED BY <1>2, <2>1, <2>2 DEF FedTool
<1>7. /\ m.emitted = t.emitted /\ m.sent = t.sent /\ c = r[Len(r)]
      /\ u.out = m.out /\ u.emitted = Noted(m, c)
  BY <1>2, <1>6 DEF FedTool, CallShown
<1>8. \A C : Heard(u.sent, C) = IF c.id \in C
               THEN Heard(t.sent, C) \o Unsent(Emitted(m, c.id), c.args) ELSE Heard(t.sent, C)
  BY <1>2, <1>7 DEF FedTool, CallShown
<1>9. PICK b : b = Emitted(t, c.id)
  OBVIOUS
<1>10. Emitted(m, c.id) = b
  BY <1>7, <1>9 DEF Emitted
<1>11. r \in Seq(Calls) /\ c.id \in Ids /\ c.args \in Texts
  BY <1>4, <1>5, AppliedType DEF Calls
<1>12. PICK n \in Nat : n = Len(w)
  BY <1>4
<1>13. /\ b \in Texts /\ IsPrefix(b, c.args) /\ c.id = p.id
       /\ Heard(t.sent, {c.id}) = b
       /\ Len(r) \in Nat /\ r[Len(r)] = c
       /\ \A i \in 1..Len(r) : i = Len(r) \/ (i \in 1..n /\ r[i] = w[i] /\ w[i].id # c.id)
       /\ \A x \in Ids : (\A i \in 1..Len(r) : r[i].id # x) =>
             x # c.id /\ \A i \in 1..n : w[i].id # x
  <2>1. CASE /\ w # <<>> /\ w[Len(w)].id = p.id
             /\ r = [w EXCEPT ![Len(w)] = Merged(w[Len(w)], p)]
    <3>1. n # 0 /\ w[n] \in Calls /\ w[n].id = p.id /\ w[n].args \in Texts
      <4>1. n # 0 /\ w[n] \in Calls /\ w[n].id = p.id
        BY <1>4, <1>12, <2>1
      <4>2. \A h \in Calls : h.args \in Texts
        BY DEF Calls
      <4> QED BY <4>1, <4>2
    <3>2. PICK e : e = Merged(w[n], p)
      OBVIOUS
    <3>3. e.id = w[n].id /\ e.args = merge_tool_arg_text(w[n].args, p.args)
      BY <1>4, <3>1, <3>2, CallIs
    <3>4. r = [w EXCEPT ![n] = e]
      BY <1>12, <2>1, <3>2
    <3>5. Len(r) = n /\ \A i \in 1..n : r[i] = IF i = n THEN e ELSE w[i]
      BY <1>4, <1>12, <3>1, <3>4
    <3>6. c = e
      BY <1>7, <3>1, <3>5
    <3>7. b = w[n].args /\ Heard(t.sent, {c.id}) = b
      <4>1. n \in 1..Len(t.out.tools) /\ t.out.tools[n].id = c.id
        BY <1>3, <1>12, <3>1, <3>3, <3>6
      <4> QED BY <1>3, <1>9, <4>1 DEF Noticed, AllTold, CallTold
    <3>8. IsPrefix(b, c.args)
      <4>1. p.args \in Texts
        BY DEF Part
      <4> QED BY <3>1, <3>3, <3>6, <3>7, <4>1, FragmentContinues
    <3>9. \A i \in 1..n : i # n => w[i].id # p.id
      BY <1>3, <1>12
    <3>10. \A i \in 1..n : r[i].id = w[i].id
      BY <3>3, <3>5
    <3>11. b \in Texts /\ c.id = p.id
      BY <3>1, <3>3, <3>6, <3>7
    <3>12. \A i \in 1..Len(r) : i = Len(r) \/ (i \in 1..n /\ r[i] = w[i] /\ w[i].id # c.id)
      BY <3>5, <3>9, <3>11
    <3>13. \A x \in Ids : (\A i \in 1..Len(r) : r[i].id # x) =>
             x # c.id /\ \A i \in 1..n : w[i].id # x
      BY <3>1, <3>5, <3>10, <3>11
    <3> QED BY <1>7, <3>5, <3>7, <3>8, <3>11, <3>12, <3>13
  <2>2. CASE /\ \A i \in 1..Len(w) : w[i].id # p.id
             /\ r = Append(w, NewCall(w, p))
    <3>1. PICK e : e = NewCall(w, p)
      OBVIOUS
    <3>2. e \in Calls /\ e.id = p.id /\ e.args = p.args
      BY <1>4, <3>1, CallIs
    <3>3. Len(r) = n + 1 /\ r[n + 1] = e /\ \A i \in 1..n : r[i] = w[i]
      BY <1>4, <1>12, <2>2, <3>1, <3>2, AppendProperties
    <3>4. c = e
      BY <1>7, <3>3
    <3>5. b = <<>> /\ Heard(t.sent, {c.id}) = <<>>
      <4>1. \A i \in 1..Len(t.out.tools) : t.out.tools[i].id # c.id
        BY <1>3, <2>2, <3>2, <3>4
      <4> QED BY <1>9, <1>11, <4>1 DEF Noticed
    <3>6. IsPrefix(<<>>, c.args)
      <4>1. <<>> \in Seq(Tokens) /\ c.args \in Seq(Tokens) /\ <<>> \o c.args = c.args
        BY <1>11, ConcatEmptySeq, EmptySeq DEF Texts
      <4>2. IsPrefix(<<>>, <<>> \o c.args)
        BY <4>1, PrefixConcat
      <4> QED BY <4>1, <4>2
    <3>7. \A i \in 1..Len(r) : i = Len(r) \/ (i \in 1..n /\ r[i] = w[i] /\ w[i].id # c.id)
      BY <1>12, <2>2, <3>2, <3>3, <3>4
    <3>8. \A x \in Ids : (\A i \in 1..Len(r) : r[i].id # x) =>
             x # c.id /\ \A i \in 1..n : w[i].id # x
      BY <3>3, <3>4
    <3> QED BY <1>7, <3>2, <3>3, <3>4, <3>5, <3>6, <3>7, <3>8, NoTextIsText
  <2>3. \A i \in 1..Len(w) : w[i].id = p.id => i = Len(w)
    BY <1>3
  <2> QED BY <1>4, <1>5, <2>1, <2>2, <2>3, AppliedLast
<1>14. PICK g : g = Unsent(b, c.args)
  OBVIOUS
<1>15. b \o g = c.args /\ (g = <<>> => c.args = b)
  BY <1>11, <1>13, <1>14, UnsentIs
<1>16. Heard(u.sent, {c.id}) = c.args
  BY <1>8, <1>10, <1>13, <1>14, <1>15
<1>17. \A x \in Ids : x # c.id => Heard(u.sent, {x}) = Heard(t.sent, {x})
  BY <1>8
<1>18. Emitted(u, c.id) = c.args
  <2>1. CASE g # <<>> \/ b = <<>>
    BY <1>7, <1>10, <1>14, <2>1 DEF Noted, Emitted
  <2>2. CASE ~(g # <<>> \/ b = <<>>)
    <3>1. u.emitted = t.emitted
      BY <1>7, <1>10, <1>14, <2>2 DEF Noted
    <3> QED BY <1>9, <1>15, <2>2, <3>1 DEF Emitted
  <2> QED BY <2>1, <2>2
<1>19. \A x \in Ids : x # c.id => Emitted(u, x) = Emitted(t, x)
  BY <1>7 DEF Noted, Emitted
<1>20. ASSUME NEW i \in 1..Len(r)
       PROVE  Heard(u.sent, {r[i].id}) = r[i].args /\ Emitted(u, r[i].id) = r[i].args
  <2>1. CASE i = Len(r)
    BY <1>13, <1>16, <1>18, <2>1
  <2>2. CASE i \in 1..n /\ r[i] = w[i] /\ w[i].id # c.id
    <3>1. w[i].id \in Ids
      <4>1. w[i] \in Calls
        BY <1>4, <1>12, <2>2
      <4>2. \A h \in Calls : h.id \in Ids
        BY DEF Calls
      <4> QED BY <4>1, <4>2
    <3>2. Heard(t.sent, {w[i].id}) = w[i].args /\ Emitted(t, w[i].id) = w[i].args
      BY <1>3, <1>12, <2>2 DEF Noticed, AllTold, CallTold
    <3> QED BY <1>17, <1>19, <2>2, <3>1, <3>2
  <2> QED BY <1>13, <2>1, <2>2
<1>21. ASSUME NEW x \in Ids, \A i \in 1..Len(r) : r[i].id # x
       PROVE  Heard(u.sent, {x}) = <<>> /\ Emitted(u, x) = <<>>
  <2>1. x # c.id /\ \A i \in 1..Len(t.out.tools) : t.out.tools[i].id # x
    BY <1>3, <1>12, <1>13, <1>21
  <2> QED BY <1>17, <1>19, <2>1 DEF Noticed
<1>22. u.out.tools = r
  BY <1>6, <1>7
<1> QED BY <1>20, <1>21, <1>22 DEF Noticed, AllTold, CallTold

\* In an orderly answer the calls are in order, and the client is told of them.
CallsInv ==
    /\ Orderly /\ result = "none" => InOrder(fed, tr.out.tools, tr.completed)
    /\ Orderly /\ OnlyFragments /\ result = "none" => Noticed(tr)
    /\ Orderly /\ OnlyFragments => AllTold(tr)

\* Calls have ids.
LEMMA CallsHaveIds == \A w \in Seq(Calls) : \A i \in 1..Len(w) : w[i].id \in Ids
<1>1. \A c \in Calls : c.id \in Ids
  BY DEF Calls
<1> QED BY <1>1

\* The parts before a tool call leave what the client knows of calls.
LEMMA NoticedSame ==
    ASSUME NEW t \in Trans, NEW d \in Trans, d.out.tools = t.out.tools, d.emitted = t.emitted,
           \A x \in Ids : Heard(d.sent, {x}) = Heard(t.sent, {x})
    PROVE  (Noticed(t) => Noticed(d)) /\ (AllTold(t) => AllTold(d))
<1>1. PICK w : w = t.out.tools
  OBVIOUS
<1>2. w \in Seq(Calls)
  BY <1>1 DEF Trans, Translators, Outs
<1>3. \A i \in 1..Len(w) : w[i].id \in Ids
  BY <1>2, CallsHaveIds
<1>4. \A x \in Ids : Emitted(d, x) = Emitted(t, x)
  BY DEF Emitted
<1>5. AllTold(t) => AllTold(d)
  BY <1>1, <1>3 DEF AllTold, CallTold
<1>6. Noticed(t) => Noticed(d)
  BY <1>1, <1>3, <1>4, <1>5 DEF Noticed
<1> QED BY <1>5, <1>6

\* The stages of a frame, for the calls.
LEMMA MidCalls ==
    ASSUME NEW t \in Trans, NEW f \in Frames
    PROVE  \E d \in Trans :
             /\ Mid(t, f) = FeedTool(d, f.tool)
             /\ \A x \in Ids : Heard(d.sent, {x}) = Heard(t.sent, {x})
             /\ d.completed = t.completed /\ d.emitted = t.emitted
             /\ d.out.tools = t.out.tools
BY MidStages

\* A frame before its last part keeps the client informed.
LEMMA MidNoticed ==
    ASSUME NEW f \in Frames, fed \in Seq(Frames), fed' = Append(fed, f), Orderly',
           tr \in Trans, InOrder(fed, tr.out.tools, tr.completed), NEW m, m = Mid(tr, f)
    PROVE  /\ InOrder(fed', m.out.tools, m.completed)
           /\ OnlyFragments' /\ Noticed(tr) => Noticed(m)
<1>1. PICK d \in Trans :
             /\ Mid(tr, f) = FeedTool(d, f.tool)
             /\ \A x \in Ids : Heard(d.sent, {x}) = Heard(tr.sent, {x})
             /\ d.completed = tr.completed /\ d.emitted = tr.emitted
             /\ d.out.tools = tr.out.tools
  BY MidCalls
<1>2. tr.out.tools \in Seq(Calls)
  BY DEF Trans, Translators, Outs
<1>3. m.out.tools = CallsAfter(tr.out.tools, f)
  BY MidHeard
<1>4. m.completed = DoneAfter(tr.completed, f)
  <2>1. CASE f.tool = NoPart
    BY <1>1, <2>1 DEF FeedTool, DoneAfter
  <2>2. CASE f.tool # NoPart
    <3>1. PICK p : p = f.tool
      OBVIOUS
    <3>2. Part(p) /\ p # NoPart
      BY <2>2, <3>1, StreamAssumption DEF StreamAssumption, Frame, Part
    <3>3. m = FeedTool(d, p)
      BY <1>1, <3>1
    <3>4. PICK h \in Trans : \E c \in Calls : FedTool(d, p, m, h, c)
      BY <3>2, <3>3, FeedToolHeard
    <3>5. PICK c \in Calls : FedTool(d, p, m, h, c)
      BY <3>4
    <3>6. /\ h.completed = IF p.complete THEN d.completed \cup {p.id} ELSE d.completed
          /\ m.completed = h.completed
      BY <3>5 DEF FedTool, CallShown
    <3> QED BY <1>1, <2>2, <3>1, <3>6 DEF DoneAfter
  <2> QED BY <2>1, <2>2
<1>5. InOrder(fed', m.out.tools, m.completed)
  BY <1>2, <1>3, <1>4, InOrderKept
<1>6. ASSUME OnlyFragments', Noticed(tr) PROVE Noticed(m)
  <2>1. Noticed(d)
    BY <1>1, <1>6, NoticedSame
  <2>2. CASE f.tool = NoPart
    BY <1>1, <2>1, <2>2 DEF FeedTool
  <2>3. CASE f.tool # NoPart
    <3>1. PICK p : p = f.tool
      OBVIOUS
    <3>2. Part(p) /\ p # NoPart
      BY <2>3, <3>1, StreamAssumption DEF StreamAssumption, Frame, Part
    <3>3. m = FeedTool(d, p)
      BY <1>1, <3>1
    <3>4. /\ p.id # NoText
          /\ \A i \in 1..Len(tr.out.tools) : tr.out.tools[i].id = p.id => i = Len(tr.out.tools)
      BY <1>2, <2>3, <3>1, OrderlyPart
    <3>5. p.args \notin DOMAIN Fields
      <4>1. fed'[Len(fed) + 1] = f /\ Len(fed) + 1 \in DOMAIN fed'
        BY AppendProperties
      <4> QED BY <1>6, <2>3, <3>1, <4>1 DEF OnlyFragments
    <3>6. Distinct(d.out.tools)
      BY <1>1 DEF InOrder
    <3>7. \A i \in 1..Len(d.out.tools) : d.out.tools[i].id = p.id => i = Len(d.out.tools)
      BY <1>1, <3>4
    <3> QED BY <2>1, <3>2, <3>3, <3>4, <3>5, <3>6, <3>7, ToolNoticed
  <2> QED BY <2>2, <2>3
<1> QED BY <1>5, <1>6

\* It holds in the beginning.
LEMMA CallsInvInit == StreamInit => CallsInv
<1> SUFFICES ASSUME StreamInit PROVE CallsInv
  OBVIOUS
<1>1. fed = <<>> /\ tr.out.tools = <<>> /\ tr.completed = {} /\ tr.sent = <<>> /\ tr.emitted = <<>>
  BY DEF StreamInit, NewTranslator, EmptyOut
<1>2. InOrder(fed, tr.out.tools, tr.completed)
  BY <1>1 DEF InOrder, AllParts, Distinct, LastPart, DoneParts, DoneCalls
<1>3. AllTold(tr)
  BY <1>1 DEF AllTold
<1>4. \A x \in Ids : Heard(tr.sent, {x}) = <<>> /\ Emitted(tr, x) = <<>>
  BY <1>1, HeardNone DEF Emitted
<1>5. Noticed(tr)
  BY <1>1, <1>3, <1>4 DEF Noticed
<1> QED BY <1>2, <1>3, <1>5 DEF CallsInv

\* Every step keeps it.
LEMMA CallsInvNext == StreamInv /\ CallsInv /\ [StreamNext]_streamVars => CallsInv'
<1> SUFFICES ASSUME StreamInv, CallsInv, [StreamNext]_streamVars PROVE CallsInv'
  OBVIOUS
<1>1. CASE UNCHANGED <<fed, tr, result>>
  <2>1. (Orderly' <=> Orderly) /\ (OnlyFragments' <=> OnlyFragments)
    BY <1>1 DEF Orderly, OnlyFragments
  <2>2. (Noticed(tr)' <=> Noticed(tr)) /\ (AllTold(tr)' <=> AllTold(tr))
    BY <1>1 DEF Noticed, AllTold, CallTold, Emitted
  <2> QED BY <1>1, <2>1, <2>2 DEF CallsInv
<1>2. CASE Peek \/ Fail
  <2>1. UNCHANGED <<fed, tr>> /\ (result' = result \/ result' \in {"error", "rejected"})
    BY <1>2 DEF Peek, Fail
  <2>2. (Orderly' <=> Orderly) /\ (OnlyFragments' <=> OnlyFragments)
    BY <2>1 DEF Orderly, OnlyFragments
  <2>3. CASE result' = result
    BY <2>1, <2>2, <2>3 DEF CallsInv
  <2>4. CASE result' \in {"error", "rejected"}
    BY <2>1, <2>2, <2>4 DEF CallsInv
  <2> QED BY <2>1, <2>3, <2>4
<1>3. CASE EndOfStream
  <2>1. fed' = fed /\ tr' = finalize_events(tr) /\ result' = "ok" /\ tr \in Trans
    BY <1>3 DEF EndOfStream, StreamInv, StreamTypes
  <2>2. (Orderly' <=> Orderly) /\ (OnlyFragments' <=> OnlyFragments)
    BY <2>1 DEF Orderly, OnlyFragments
  <2>3. tr' \in Trans /\ tr'.out = tr.out /\ \A C : Heard(tr'.sent, C) = Heard(tr.sent, C)
    BY <2>1, FinalizeHeard
  <2>4. AllTold(tr) => AllTold(tr')
    BY <2>3 DEF AllTold, CallTold
  <2>5. AllTold(tr') => AllTold(tr)'
    BY DEF AllTold, CallTold
  <2> QED BY <2>1, <2>2, <2>4, <2>5 DEF CallsInv
<1>4. CASE Feed
  <2>1. PICK f : f = Head(buf)
    OBVIOUS
  <2>2. /\ fed' = Append(fed, f) /\ tr' = IF f.error THEN tr ELSE feed(tr, f)
        /\ result' = IF f.error THEN "error" ELSE IF Terminal(f) THEN "ok" ELSE result
        /\ phase = "stream" /\ buf # <<>>
    BY <1>4, <2>1 DEF Feed, HasObject
  <2>3. /\ buf \in Seq(Frames) /\ fed \in Seq(Frames) /\ tr \in Trans /\ result = "none"
    BY <2>2 DEF StreamInv, StreamTypes
  <2>4. f \in Frames
    BY <2>1, <2>2, <2>3
  <2>5. Frame(f)
    BY <2>4, StreamAssumption DEF StreamAssumption
  <2> SUFFICES ASSUME Orderly' PROVE CallsInv'
    BY DEF CallsInv
  <2>6. Orderly /\ (OnlyFragments' => OnlyFragments)
    BY <2>2, <2>3, <2>4, OrderlyPast
  <2>7. CASE f.error
    <3>1. tr' = tr /\ result' = "error"
      BY <2>2, <2>7
    <3> QED BY <2>6, <3>1 DEF CallsInv
  <2>8. CASE ~f.error
    <3>1. PICK m : m = Mid(tr, f)
      OBVIOUS
    <3>2. InOrder(fed, tr.out.tools, tr.completed)
      BY <2>3, <2>6 DEF CallsInv
    <3>3. InOrder(fed', m.out.tools, m.completed) /\ (OnlyFragments' /\ Noticed(tr) => Noticed(m))
      BY <2>2, <2>3, <2>4, <3>1, <3>2, MidNoticed
    <3>4. OnlyFragments' => Noticed(tr)
      BY <2>3, <2>6 DEF CallsInv
    <3>5. tr' = FeedInfo(m, f.info)
      BY <2>2, <2>8, <3>1, FeedIs
    <3>6. CASE f.info = NoPart
      <4>1. tr' = m
        BY <3>5, <3>6 DEF FeedInfo
      <4>2. InOrder(fed', tr'.out.tools, tr'.completed)
        BY <3>3, <4>1
      <4>3. OnlyFragments' => Noticed(tr')
        BY <3>3, <3>4, <4>1
      <4>4. (Noticed(tr') => Noticed(tr)') /\ (Noticed(tr') => AllTold(tr)')
        BY DEF Noticed, AllTold, CallTold, Emitted
      <4> QED BY <4>2, <4>3, <4>4 DEF CallsInv
    <3>7. CASE f.info # NoPart
      <4>1. result' = "ok"
        BY <2>2, <2>8, <3>7 DEF Terminal
      <4>2. m \in Trans /\ Heard(m.sent, {"thinking"} \X Int) = m.out.thinking
        <5>1. Heard(tr.sent, {"thinking"} \X Int) = tr.out.thinking
          BY <2>3 DEF StreamInv, StreamHeard, ThinkKind
        <5>2. /\ m \in Trans
              /\ Heard(m.sent, {"thinking"} \X Int)
                   = Heard(tr.sent, {"thinking"} \X Int) \o ThinkOf(f.think)
              /\ m.out.thinking = tr.out.thinking \o ThinkOf(f.think)
          BY <2>3, <2>4, <3>1, MidHeard
        <5> QED BY <5>1, <5>2
      <4>3. tr' \in Trans /\ tr'.out.tools = m.out.tools
            /\ \A x \in Ids : Heard(tr'.sent, {x}) = Heard(m.sent, {x})
        <5>1. PICK j : j = f.info
          OBVIOUS
        <5>2. j # NoPart /\ j.reason \in Texts /\ j.truncated \in BOOLEAN /\ j.signed \in BOOLEAN
          BY <2>5, <3>7, <5>1 DEF Frame
        <5>3. PICK u : u = FeedInfo(m, j)
          OBVIOUS
        <5>4. u \in Trans /\ u.out.tools = m.out.tools
              /\ \A x \in Ids : Heard(u.sent, {x}) = Heard(m.sent, {x})
          <6> HIDE <5>1
          <6> QED BY <4>2, <5>2, <5>3, FeedInfoCalls
        <5> QED BY <3>5, <5>1, <5>3, <5>4
      <4>4. m.out.tools \in Seq(Calls)
        BY <4>2 DEF Trans, Translators, Outs
      <4>5. \A i \in 1..Len(m.out.tools) : m.out.tools[i].id \in Ids
        BY <4>4, CallsHaveIds
      <4>6. AllTold(m) => AllTold(tr')
        BY <4>3, <4>5 DEF AllTold, CallTold
      <4>7. AllTold(tr') => AllTold(tr)'
        BY DEF AllTold, CallTold
      <4> QED BY <3>3, <3>4, <4>1, <4>6, <4>7 DEF CallsInv, Noticed
    <3> QED BY <3>6, <3>7
  <2> QED BY <2>5, <2>7, <2>8 DEF Frame
<1>5. ReadChunk \/ BodyEnds \/ SkipEmpty => UNCHANGED <<fed, tr, result>>
  BY DEF ReadChunk, BodyEnds, SkipEmpty, consumer
<1>6. UNCHANGED streamVars => UNCHANGED <<fed, tr, result>>
  BY DEF streamVars
<1> QED BY <1>1, <1>2, <1>3, <1>4, <1>5, <1>6 DEF StreamNext

\* It holds of every answer.
LEMMA CallsInvHolds == StreamSpec => []CallsInv
<1>1. StreamInit => CallsInv
  BY CallsInvInit
<1>2. StreamInv /\ CallsInv /\ [StreamNext]_streamVars => CallsInv'
  BY CallsInvNext
<1> QED BY <1>1, <1>2, StreamInvHolds, PTL DEF StreamSpec

\* What a client puts together from the increments.
LEMMA ToldIs ==
    ASSUME tr.sent \in Seq(Events)
    PROVE  /\ ToldKind("text") = Heard(tr.sent, TextKind)
           /\ ToldKind("thinking") = Heard(tr.sent, ThinkKind)
           /\ \A x \in Ids : Told(x) = Heard(tr.sent, {x})
<1>1. PICK s \in Seq(Events) : s = tr.sent
  OBVIOUS
<1>2. DOMAIN s = 1..Len(s)
  OBVIOUS
<1>3. \A i \in 1..Len(s) : s[i].ev = "delta" => s[i].item \in Items
  BY DEF Events
<1>4. \A i \in 1..Len(s) : s[i].ev = "delta" =>
         /\ s[i].item[1] = "text" <=> s[i].item \in TextKind
         /\ s[i].item[1] = "thinking" <=> s[i].item \in ThinkKind
  BY <1>3, ItemKinds DEF TextKind, ThinkKind
<1>5. [i \in DOMAIN s |-> IF s[i].ev = "delta" /\ s[i].item[1] = "text" THEN s[i].data ELSE <<>>]
      = [i \in 1..Len(s) |-> IF s[i].ev = "delta" /\ s[i].item \in TextKind THEN s[i].data ELSE <<>>]
  BY <1>2, <1>4
<1>6. [i \in DOMAIN s |-> IF s[i].ev = "delta" /\ s[i].item[1] = "thinking" THEN s[i].data ELSE <<>>]
      = [i \in 1..Len(s) |-> IF s[i].ev = "delta" /\ s[i].item \in ThinkKind THEN s[i].data ELSE <<>>]
  BY <1>2, <1>4
<1>7. ASSUME NEW x \in Ids
      PROVE  [i \in DOMAIN s |-> IF s[i].ev = "delta" /\ s[i].item = x THEN s[i].data ELSE <<>>]
             = [i \in 1..Len(s) |-> IF s[i].ev = "delta" /\ s[i].item \in {x} THEN s[i].data ELSE <<>>]
  BY <1>2
<1>8. ToldKind("text") = Heard(tr.sent, TextKind)
  BY <1>1, <1>5, Zenon DEF ToldKind, Heard
<1>9. ToldKind("thinking") = Heard(tr.sent, ThinkKind)
  BY <1>1, <1>6, Zenon DEF ToldKind, Heard
<1>10. \A x \in Ids : Told(x) = Heard(tr.sent, {x})
  BY <1>1, <1>7, Zenon DEF Told, Heard
<1> QED BY <1>8, <1>9, <1>10

\* What the client puts together from the increments is what was collected: the
\* text, the thinking, and the arguments of calls that come one after the other in
\* fragments (feed, emit_thinking_backfill).
THEOREM ClientReadsAll == StreamSpec => []ClientReadsAnswer
<1>1. ASSUME StreamInv, CallsInv PROVE ClientReadsAnswer
  <2>1. tr.sent \in Seq(Events) /\ tr.out.tools \in Seq(Calls)
    BY <1>1 DEF StreamInv, StreamTypes, Trans, Translators, Outs
  <2>2. /\ ToldKind("text") = Heard(tr.sent, TextKind)
        /\ ToldKind("thinking") = Heard(tr.sent, ThinkKind)
        /\ \A x \in Ids : Told(x) = Heard(tr.sent, {x})
    BY <2>1, ToldIs
  <2>3. \A i \in DOMAIN tr.out.tools : i \in 1..Len(tr.out.tools) /\ tr.out.tools[i].id \in Ids
    BY <2>1, CallsHaveIds
  <2>4. Orderly /\ OnlyFragments =>
          \A i \in DOMAIN tr.out.tools : Told(tr.out.tools[i].id) = tr.out.tools[i].args
    BY <1>1, <2>2, <2>3 DEF CallsInv, AllTold, CallTold
  <2> QED BY <1>1, <2>2, <2>4 DEF ClientReadsAnswer, StreamInv, StreamHeard
<1> QED BY <1>1, StreamInvHolds, CallsInvHolds, PTL

-----------------------------------------------------------------------------
(* Blocks. *)

\* A block x of the item v that is open, or stopped.
Inside == {"delta", "signature", "content"}
Opened(s, x, v) ==
    \E a \in 1..Len(s) :
        /\ s[a].ev = "start" /\ s[a].idx = x /\ s[a].item = v
        /\ \A i \in 1..Len(s) : s[i].idx = x /\ i # a =>
              a < i /\ s[i].ev \in Inside /\ s[i].item = v
StoppedAt(s, x, v, a, b) ==
    /\ a < b
    /\ s[a].ev = "start" /\ s[a].idx = x /\ s[a].item = v
    /\ s[b].ev = "stop" /\ s[b].idx = x
    /\ \A i \in 1..Len(s) : s[i].idx = x /\ i # a /\ i # b =>
          a < i /\ i < b /\ s[i].ev \in Inside /\ s[i].item = v
Stopped(s, x, v) == \E a \in 1..Len(s) : \E b \in 1..Len(s) : StoppedAt(s, x, v, a, b)
Block(s, x, v, open) == IF open THEN Opened(s, x, v) ELSE Stopped(s, x, v)

\* The blocks of an answer have the items f, one index after the other, and those
\* in O are open.
Marked(e) == e.idx = NoIdx /\ e.ev \in {"begin", "final"}
Tidy(s, f, O) ==
    /\ \A i \in 1..Len(s) : Marked(s[i]) \/ s[i].idx \in 0..(Len(f) - 1)
    /\ \A x \in 0..(Len(f) - 1) : Block(s, x, f[x + 1], x \in O)

\* An event of another block leaves a block as it is.
LEMMA BlockKept ==
    ASSUME NEW s \in Seq(Events), NEW e \in Events, NEW x, NEW v, e.idx # x,
           NEW open \in BOOLEAN, Block(s, x, v, open)
    PROVE  Block(Append(s, e), x, v, open)
<1>1. PICK q : q = Append(s, e)
  OBVIOUS
<1>2. PICK n \in Nat : n = Len(s)
  OBVIOUS
<1>3. Len(q) = n + 1 /\ q[n + 1] = e /\ \A i \in 1..n : q[i] = s[i]
  BY <1>1, <1>2, AppendProperties
<1>4. CASE open
  <2>1. PICK a \in 1..n :
            /\ s[a].ev = "start" /\ s[a].idx = x /\ s[a].item = v
            /\ \A i \in 1..n : s[i].idx = x /\ i # a =>
                  a < i /\ s[i].ev \in Inside /\ s[i].item = v
    BY <1>2, <1>4 DEF Block, Opened
  <2>2. a \in 1..Len(q) /\ q[a] = s[a]
    BY <1>3
  <2>3. \A i \in 1..Len(q) : q[i].idx = x /\ i # a =>
           a < i /\ q[i].ev \in Inside /\ q[i].item = v
    <3> SUFFICES ASSUME NEW i \in 1..Len(q), q[i].idx = x, i # a
                 PROVE  a < i /\ q[i].ev \in Inside /\ q[i].item = v
      OBVIOUS
    <3>1. i \in 1..n /\ q[i] = s[i]
      BY <1>3
    <3> QED BY <2>1, <3>1
  <2>4. Opened(q, x, v)
    BY <2>1, <2>2, <2>3 DEF Opened
  <2> QED BY <1>1, <1>4, <2>4 DEF Block
<1>5. CASE ~open
  <2>1. PICK a \in 1..n : \E b \in 1..n : StoppedAt(s, x, v, a, b)
    BY <1>2, <1>5 DEF Block, Stopped
  <2>2. PICK b \in 1..n : StoppedAt(s, x, v, a, b)
    BY <2>1
  <2>3. a \in 1..Len(q) /\ q[a] = s[a] /\ b \in 1..Len(q) /\ q[b] = s[b]
    BY <1>3
  <2>4. \A i \in 1..Len(q) : q[i].idx = x /\ i # a /\ i # b =>
           a < i /\ i < b /\ q[i].ev \in Inside /\ q[i].item = v
    <3> SUFFICES ASSUME NEW i \in 1..Len(q), q[i].idx = x, i # a, i # b
                 PROVE  a < i /\ i < b /\ q[i].ev \in Inside /\ q[i].item = v
      OBVIOUS
    <3>1. i \in 1..n /\ q[i] = s[i]
      BY <1>3
    <3> QED BY <1>2, <2>2, <3>1 DEF StoppedAt
  <2>5. StoppedAt(q, x, v, a, b)
    BY <2>2, <2>3, <2>4 DEF StoppedAt
  <2>6. Stopped(q, x, v)
    BY <2>3, <2>5 DEF Stopped
  <2> QED BY <1>1, <1>5, <2>6 DEF Block
<1> QED BY <1>4, <1>5

\* An increment, or what repeats the content, of an open block.
LEMMA BlockInside ==
    ASSUME NEW s \in Seq(Events), NEW e \in Events, NEW x, NEW v, e.idx = x, e.item = v,
           e.ev \in Inside, Opened(s, x, v)
    PROVE  Opened(Append(s, e), x, v)
<1>1. PICK q : q = Append(s, e)
  OBVIOUS
<1>2. PICK n \in Nat : n = Len(s)
  OBVIOUS
<1>3. Len(q) = n + 1 /\ q[n + 1] = e /\ \A i \in 1..n : q[i] = s[i]
  BY <1>1, <1>2, AppendProperties
<1>4. PICK a \in 1..n :
          /\ s[a].ev = "start" /\ s[a].idx = x /\ s[a].item = v
          /\ \A i \in 1..n : s[i].idx = x /\ i # a =>
                a < i /\ s[i].ev \in Inside /\ s[i].item = v
  BY <1>2 DEF Opened
<1>5. a \in 1..Len(q) /\ q[a] = s[a]
  BY <1>3
<1>6. \A i \in 1..Len(q) : q[i].idx = x /\ i # a =>
         a < i /\ q[i].ev \in Inside /\ q[i].item = v
  <2> SUFFICES ASSUME NEW i \in 1..Len(q), q[i].idx = x, i # a
               PROVE  a < i /\ q[i].ev \in Inside /\ q[i].item = v
    OBVIOUS
  <2>1. CASE i = n + 1
    BY <1>3, <2>1
  <2>2. CASE i # n + 1
    <3>1. i \in 1..n /\ q[i] = s[i]
      BY <1>3, <2>2
    <3> QED BY <1>4, <3>1
  <2> QED BY <2>1, <2>2
<1>7. Opened(q, x, v)
  BY <1>4, <1>5, <1>6 DEF Opened
<1> QED BY <1>1, <1>7

\* The stop of an open block.
LEMMA BlockStop ==
    ASSUME NEW s \in Seq(Events), NEW e \in Events, NEW x, NEW v, e.idx = x,
           e.ev = "stop", Opened(s, x, v)
    PROVE  Stopped(Append(s, e), x, v)
<1>1. PICK q : q = Append(s, e)
  OBVIOUS
<1>2. PICK n \in Nat : n = Len(s)
  OBVIOUS
<1>3. Len(q) = n + 1 /\ q[n + 1] = e /\ \A i \in 1..n : q[i] = s[i]
  BY <1>1, <1>2, AppendProperties
<1>4. PICK a \in 1..n :
          /\ s[a].ev = "start" /\ s[a].idx = x /\ s[a].item = v
          /\ \A i \in 1..n : s[i].idx = x /\ i # a =>
                a < i /\ s[i].ev \in Inside /\ s[i].item = v
  BY <1>2 DEF Opened
<1>5. a \in 1..Len(q) /\ q[a] = s[a] /\ n + 1 \in 1..Len(q) /\ a < n + 1
  BY <1>3
<1>6. \A i \in 1..Len(q) : q[i].idx = x /\ i # a /\ i # n + 1 =>
         a < i /\ i < n + 1 /\ q[i].ev \in Inside /\ q[i].item = v
  <2> SUFFICES ASSUME NEW i \in 1..Len(q), q[i].idx = x, i # a, i # n + 1
               PROVE  a < i /\ i < n + 1 /\ q[i].ev \in Inside /\ q[i].item = v
    OBVIOUS
  <2>1. i \in 1..n /\ q[i] = s[i]
    BY <1>3
  <2> QED BY <1>4, <2>1
<1>7. StoppedAt(q, x, v, a, n + 1)
  BY <1>3, <1>4, <1>5, <1>6 DEF StoppedAt
<1>8. Stopped(q, x, v)
  BY <1>5, <1>7 DEF Stopped
<1> QED BY <1>1, <1>8

\* The start of a block.
LEMMA BlockStart ==
    ASSUME NEW s \in Seq(Events), NEW e \in Events, e.ev = "start",
           \A i \in 1..Len(s) : s[i].idx # e.idx
    PROVE  Opened(Append(s, e), e.idx, e.item)
<1>1. PICK q : q = Append(s, e)
  OBVIOUS
<1>2. PICK n \in Nat : n = Len(s)
  OBVIOUS
<1>3. Len(q) = n + 1 /\ q[n + 1] = e /\ \A i \in 1..n : q[i] = s[i]
  BY <1>1, <1>2, AppendProperties
<1>4. \A i \in 1..Len(q) : q[i].idx = e.idx => i = n + 1
  <2> SUFFICES ASSUME NEW i \in 1..Len(q), q[i].idx = e.idx, i # n + 1 PROVE FALSE
    OBVIOUS
  <2>1. i \in 1..n /\ q[i] = s[i]
    BY <1>3
  <2> QED BY <1>2, <2>1
<1>5. n + 1 \in 1..Len(q)
  BY <1>3
<1>6. Opened(q, e.idx, e.item)
  BY <1>3, <1>4, <1>5 DEF Opened
<1> QED BY <1>1, <1>6

\* Which blocks are open decides, not how the set is written.
LEMMA TidySame ==
    ASSUME NEW s, NEW f, NEW O, NEW P, Tidy(s, f, O),
           \A x \in 0..(Len(f) - 1) : x \in O <=> x \in P
    PROVE  Tidy(s, f, P)
<1>1. ASSUME NEW x \in 0..(Len(f) - 1) PROVE Block(s, x, f[x + 1], x \in P)
  <2>1. Block(s, x, f[x + 1], x \in O)
    BY DEF Tidy
  <2>2. x \in O <=> x \in P
    OBVIOUS
  <2> QED BY <2>1, <2>2 DEF Block
<1> QED BY <1>1 DEF Tidy

\* Events that belong to no block.
LEMMA TidyMark ==
    ASSUME NEW s \in Seq(Events), NEW f \in Seq(Items), NEW O, Tidy(s, f, O),
           NEW e \in Events, Marked(e)
    PROVE  Tidy(Append(s, e), f, O)
<1>1. PICK n \in Nat : n = Len(s)
  OBVIOUS
<1>2. PICK q : q = Append(s, e)
  OBVIOUS
<1>3. Len(q) = n + 1 /\ q[n + 1] = e /\ \A i \in 1..n : q[i] = s[i]
  BY <1>1, <1>2, AppendProperties
<1>4. \A i \in 1..Len(q) : Marked(q[i]) \/ q[i].idx \in 0..(Len(f) - 1)
  <2> SUFFICES ASSUME NEW i \in 1..Len(q) PROVE Marked(q[i]) \/ q[i].idx \in 0..(Len(f) - 1)
    OBVIOUS
  <2>1. CASE i = n + 1
    BY <1>3, <2>1
  <2>2. CASE i # n + 1
    <3>1. i \in 1..n /\ q[i] = s[i]
      BY <1>3, <2>2
    <3> QED BY <1>1, <3>1 DEF Tidy
  <2> QED BY <2>1, <2>2
<1>5. ASSUME NEW x \in 0..(Len(f) - 1) PROVE Block(q, x, f[x + 1], x \in O)
  <2>1. e.idx # x
    BY DEF Marked, NoIdx
  <2>2. Block(s, x, f[x + 1], x \in O)
    BY DEF Tidy
  <2>3. (x \in O) \in BOOLEAN
    OBVIOUS
  <2>4. PICK on \in BOOLEAN : on = (x \in O)
    BY <2>3
  <2> QED BY <1>2, <2>1, <2>2, <2>4, BlockKept
<1>6. Tidy(q, f, O)
  BY <1>4, <1>5 DEF Tidy
<1> QED BY <1>2, <1>6

\* A new block.
LEMMA TidyStart ==
    ASSUME NEW s \in Seq(Events), NEW f \in Seq(Items), NEW O, Tidy(s, f, O),
           NEW e \in Events, e.ev = "start", e.idx = Len(f), e.item \in Items
    PROVE  Tidy(Append(s, e), Append(f, e.item), O \cup {Len(f)})
<1>1. PICK n \in Nat : n = Len(s)
  OBVIOUS
<1>2. PICK q : q = Append(s, e)
  OBVIOUS
<1>3. Len(q) = n + 1 /\ q[n + 1] = e /\ \A i \in 1..n : q[i] = s[i]
  BY <1>1, <1>2, AppendProperties
<1>4. PICK m \in Nat : m = Len(f)
  OBVIOUS
<1>5. PICK g : g = Append(f, e.item)
  OBVIOUS
<1>6. Len(g) = m + 1 /\ g[m + 1] = e.item /\ \A i \in 1..m : g[i] = f[i]
  BY <1>4, <1>5, AppendProperties
<1>7. \A i \in 1..n : Marked(s[i]) \/ s[i].idx \in 0..(m - 1)
  BY <1>1, <1>4 DEF Tidy
<1>8. \A i \in 1..Len(q) : Marked(q[i]) \/ q[i].idx \in 0..(Len(g) - 1)
  <2> SUFFICES ASSUME NEW i \in 1..Len(q) PROVE Marked(q[i]) \/ q[i].idx \in 0..(Len(g) - 1)
    OBVIOUS
  <2>1. CASE i = n + 1
    BY <1>3, <1>4, <1>6, <2>1
  <2>2. CASE i # n + 1
    <3>1. i \in 1..n /\ q[i] = s[i]
      BY <1>3, <2>2
    <3> QED BY <1>6, <1>7, <3>1
  <2> QED BY <2>1, <2>2
<1>9. ASSUME NEW x \in 0..(Len(g) - 1) PROVE Block(q, x, g[x + 1], x \in O \cup {m})
  <2>1. CASE x = m
    <3>1. \A i \in 1..Len(s) : s[i].idx # e.idx
      BY <1>1, <1>4, <1>7 DEF Marked, NoIdx
    <3>2. Opened(q, e.idx, e.item)
      BY <1>2, <3>1, BlockStart
    <3> QED BY <1>4, <1>6, <2>1, <3>2 DEF Block
  <2>2. CASE x # m
    <3>1. x \in 0..(m - 1) /\ x + 1 \in 1..m /\ e.idx # x
      BY <1>4, <1>6, <2>2
    <3>2. g[x + 1] = f[x + 1]
      BY <1>6, <3>1
    <3>3. Block(s, x, f[x + 1], x \in O)
      BY <1>4, <3>1 DEF Tidy
    <3>4. PICK on \in BOOLEAN : on = (x \in O)
      <4>1. (x \in O) \in BOOLEAN
        OBVIOUS
      <4> QED BY <4>1
    <3>5. Block(q, x, f[x + 1], on)
      BY <1>2, <3>1, <3>3, <3>4, BlockKept
    <3>6. (x \in O \cup {m}) <=> on
      BY <2>2, <3>4
    <3> QED BY <3>2, <3>5, <3>6 DEF Block
  <2> QED BY <2>1, <2>2
<1>10. Tidy(q, g, O \cup {m})
  BY <1>8, <1>9 DEF Tidy
<1> QED BY <1>2, <1>4, <1>5, <1>10

\* An event of an open block, which may stop it.
LEMMA TidyBlock ==
    ASSUME NEW s \in Seq(Events), NEW f \in Seq(Items), NEW O, Tidy(s, f, O),
           NEW e \in Events, NEW x \in 0..(Len(f) - 1), x \in O, e.idx = x, e.item = f[x + 1],
           e.ev \in Inside \cup {"stop"}
    PROVE  /\ e.ev \in Inside => Tidy(Append(s, e), f, O)
           /\ e.ev = "stop" => Tidy(Append(s, e), f, O \ {x})
<1>1. PICK n \in Nat : n = Len(s)
  OBVIOUS
<1>2. PICK q : q = Append(s, e)
  OBVIOUS
<1>3. Len(q) = n + 1 /\ q[n + 1] = e /\ \A i \in 1..n : q[i] = s[i]
  BY <1>1, <1>2, AppendProperties
<1>4. \A i \in 1..Len(q) : Marked(q[i]) \/ q[i].idx \in 0..(Len(f) - 1)
  <2> SUFFICES ASSUME NEW i \in 1..Len(q) PROVE Marked(q[i]) \/ q[i].idx \in 0..(Len(f) - 1)
    OBVIOUS
  <2>1. CASE i = n + 1
    BY <1>3, <2>1
  <2>2. CASE i # n + 1
    <3>1. i \in 1..n /\ q[i] = s[i]
      BY <1>3, <2>2
    <3> QED BY <1>1, <3>1 DEF Tidy
  <2> QED BY <2>1, <2>2
<1>5. ASSUME NEW y \in 0..(Len(f) - 1), y # x PROVE Block(q, y, f[y + 1], y \in O)
  <2>1. Block(s, y, f[y + 1], y \in O)
    BY DEF Tidy
  <2>2. PICK on \in BOOLEAN : on = (y \in O)
    <3>1. (y \in O) \in BOOLEAN
      OBVIOUS
    <3> QED BY <3>1
  <2> QED BY <1>2, <1>5, <2>1, <2>2, BlockKept
<1>6. Opened(s, x, f[x + 1])
  <2>1. Block(s, x, f[x + 1], x \in O)
    BY DEF Tidy
  <2> QED BY <2>1 DEF Block
<1>7. ASSUME e.ev \in Inside PROVE Tidy(q, f, O)
  <2>1. Opened(q, x, f[x + 1])
    BY <1>2, <1>6, <1>7, BlockInside
  <2>2. ASSUME NEW y \in 0..(Len(f) - 1) PROVE Block(q, y, f[y + 1], y \in O)
    <3>1. CASE y = x
      BY <2>1, <3>1 DEF Block
    <3>2. CASE y # x
      BY <1>5, <3>2
    <3> QED BY <3>1, <3>2
  <2> QED BY <1>4, <2>2 DEF Tidy
<1>8. ASSUME e.ev = "stop" PROVE Tidy(q, f, O \ {x})
  <2>1. Stopped(q, x, f[x + 1])
    BY <1>2, <1>6, <1>8, BlockStop
  <2>2. ASSUME NEW y \in 0..(Len(f) - 1) PROVE Block(q, y, f[y + 1], y \in O \ {x})
    <3>1. CASE y = x
      BY <2>1, <3>1 DEF Block
    <3>2. CASE y # x
      <4>1. Block(q, y, f[y + 1], y \in O)
        BY <1>5, <3>2
      <4> QED BY <3>2, <4>1 DEF Block
    <3> QED BY <3>1, <3>2
  <2> QED BY <1>4, <2>2 DEF Tidy
<1> QED BY <1>2, <1>7, <1>8

-----------------------------------------------------------------------------
(* The blocks of a translator. *)

ThinkBlocks(t) == IF t.thinkIdx = NoIdx THEN 0 ELSE 1
TextBlocks(t) == IF t.textIdx = NoIdx THEN 0 ELSE 1
Ahead(t) == ThinkBlocks(t) + TextBlocks(t)

\* The blocks f are one of thinking, one of text, and one for each of the calls w.
Shows(t, f, w) ==
    /\ f \in Seq(Items) /\ w \in Seq(Calls) /\ Len(f) = Ahead(t) + Len(w)
    /\ t.thinkIdx \in {NoIdx, 0} /\ t.textIdx \in {NoIdx, ThinkBlocks(t)}
    /\ t.thinkIdx = 0 => f[1] = t.thinkItem
    /\ t.textIdx # NoIdx => f[t.textIdx + 1] = t.textItem
    /\ \A i \in 1..Len(w) : f[Ahead(t) + i] = w[i].id
    /\ dialect = "Responses" => t.nextIdx = Len(f)
Board(t, f, w, O) == t \in Trans /\ Shows(t, f, w) /\ Tidy(t.sent, f, O)

\* From t to u no block is begun.
Keeps(t, u) ==
    /\ u.out = t.out /\ u.completed = t.completed /\ u.started = t.started
    /\ u.thinkIdx = t.thinkIdx /\ u.textIdx = t.textIdx /\ u.nextIdx = t.nextIdx
    /\ u.thinkItem = t.thinkItem /\ u.textItem = t.textItem
SameOpen(t, u) == u.thinkOpen = t.thinkOpen /\ u.textOpen = t.textOpen

\* One event more.
LEMMA EmitIs ==
    ASSUME NEW t \in Trans, NEW e \in Events, NEW u, u = Emit(t, <<e>>)
    PROVE  u \in Trans /\ u.sent = Append(t.sent, e) /\ Keeps(t, u) /\ SameOpen(t, u)
<1>1. t \in Translators /\ t.sent \in Seq(Events)
  BY DEF Trans, Translators
<1>2. PICK q : q = Append(t.sent, e)
  OBVIOUS
<1>3. q = t.sent \o <<e>> /\ q \in Seq(Events)
  BY <1>1, <1>2, AppendIsConcat, AppendProperties
<1>4. u = [t EXCEPT !.sent = q]
  BY <1>3 DEF Emit
<1>5. u \in Translators /\ u.sent = q
  BY <1>1, <1>3, <1>4 DEF Translators
<1>6. Keeps(t, u) /\ SameOpen(t, u)
  BY <1>1, <1>4 DEF Translators, Keeps, SameOpen
<1> QED BY <1>2, <1>5, <1>6 DEF Trans, Keeps, SameOpen

\* Two events more are one and one.
LEMMA EmitBoth ==
    ASSUME NEW t \in Trans, NEW a \in Events, NEW b \in Events
    PROVE  Emit(t, <<a, b>>) = Emit(Emit(t, <<a>>), <<b>>)
<1>1. t \in Translators /\ t.sent \in Seq(Events)
  BY DEF Trans, Translators
<1>2. PICK q : q = t.sent \o <<a, b>>
  OBVIOUS
<1>3. q = (t.sent \o <<a>>) \o <<b>>
  <2>1. <<a>> \in Seq(Events) /\ <<b>> \in Seq(Events)
    OBVIOUS
  <2>2. <<a, b>> = <<a>> \o <<b>>
    BY PairIs
  <2>3. q = t.sent \o (<<a>> \o <<b>>)
    BY <1>2, <2>2
  <2> HIDE <1>2
  <2> QED BY <1>1, <2>1, <2>3, ConcatAssociative
<1> QED BY <1>1, <1>2, <1>3 DEF Emit, Translators

\* What is kept shows the same blocks.
LEMMA ShowsKept ==
    ASSUME NEW t, NEW u, Keeps(t, u), NEW f, NEW w, Shows(t, f, w)
    PROVE  Shows(u, f, w)
BY DEF Keeps, Shows, Ahead, ThinkBlocks, TextBlocks

\* The index of a call is behind the blocks of thinking and text.
LEMMA AllocIs ==
    ASSUME NEW t, NEW n \in Nat PROVE AllocToolIdx(t, n) = n + Ahead(t)
<1>1. PICK S : S = {x \in {"think", "text"} :
                       (IF x = "think" THEN t.thinkIdx ELSE t.textIdx) # NoIdx}
  OBVIOUS
<1>2. AllocToolIdx(t, n) = n + Cardinality(S)
  BY <1>1, Zenon DEF AllocToolIdx
<1>3. Cardinality({}) = 0
  BY FS_EmptySet
<1>4. /\ IsFiniteSet({"think"}) /\ Cardinality({"think"}) = 1
      /\ Cardinality({"text"}) = 1
  BY FS_Singleton
<1>5. Cardinality({"think"} \cup {"text"}) = 2
  <2>1. "text" \notin {"think"}
    OBVIOUS
  <2>2. Cardinality({"think"} \cup {"text"}) = Cardinality({"think"}) + 1
    BY <1>4, <2>1, FS_AddElement
  <2> QED BY <1>4, <2>2
<1>6. /\ "think" \in S <=> t.thinkIdx # NoIdx
      /\ "text" \in S <=> t.textIdx # NoIdx
      /\ S \subseteq {"think", "text"}
  BY <1>1
<1>7. Cardinality(S) = Ahead(t)
  <2>1. CASE t.thinkIdx = NoIdx /\ t.textIdx = NoIdx
    <3>1. S = {}
      BY <1>6, <2>1
    <3> QED BY <1>3, <2>1, <3>1 DEF Ahead, ThinkBlocks, TextBlocks
  <2>2. CASE t.thinkIdx # NoIdx /\ t.textIdx = NoIdx
    <3>1. S = {"think"}
      BY <1>6, <2>2
    <3> QED BY <1>4, <2>2, <3>1 DEF Ahead, ThinkBlocks, TextBlocks
  <2>3. CASE t.thinkIdx = NoIdx /\ t.textIdx # NoIdx
    <3>1. S = {"text"}
      BY <1>6, <2>3
    <3> QED BY <1>4, <2>3, <3>1 DEF Ahead, ThinkBlocks, TextBlocks
  <2>4. CASE t.thinkIdx # NoIdx /\ t.textIdx # NoIdx
    <3>1. S = {"think"} \cup {"text"}
      BY <1>6, <2>4
    <3> QED BY <1>5, <2>4, <3>1 DEF Ahead, ThinkBlocks, TextBlocks
  <2> QED BY <2>1, <2>2, <2>3, <2>4
<1> QED BY <1>2, <1>7

\* An event of an open block.
LEMMA BoardBlock ==
    ASSUME NEW t, NEW f, NEW w, NEW O, Board(t, f, w, O),
           NEW e \in Events, NEW x \in 0..(Len(f) - 1), x \in O, e.idx = x, e.item = f[x + 1],
           NEW u \in Trans, u.sent = Append(t.sent, e), Keeps(t, u)
    PROVE  /\ e.ev \in Inside => Board(u, f, w, O)
           /\ e.ev = "stop" => Board(u, f, w, O \ {x})
<1>1. Shows(u, f, w)
  BY ShowsKept DEF Board
<1>2. t.sent \in Seq(Events) /\ f \in Seq(Items) /\ Tidy(t.sent, f, O)
  BY DEF Board, Trans, Translators, Shows
<1>3. e.ev \in Inside => Tidy(u.sent, f, O)
  BY <1>2, TidyBlock
<1>4. e.ev = "stop" => Tidy(u.sent, f, O \ {x})
  BY <1>2, TidyBlock
<1> QED BY <1>1, <1>3, <1>4 DEF Board

\* The thinking block is closed.
LEMMA CloseThinkingBoard ==
    ASSUME NEW t, NEW f, NEW w, NEW O, Board(t, f, w, O),
           t.thinkOpen => t.thinkIdx = 0 /\ 0 \in O, NEW u, u = CloseThinking(t)
    PROVE  /\ Board(u, f, w, IF t.thinkOpen THEN O \ {0} ELSE O)
           /\ Keeps(t, u) /\ ~u.thinkOpen /\ u.textOpen = t.textOpen
<1>0. t \in Trans
  BY DEF Board
<1>1. CASE ~t.thinkOpen
  BY <1>1 DEF CloseThinking, Keeps
<1>2. CASE t.thinkOpen
  <2>1. PICK a : a = IF dialect = "Anthropic"
                     THEN Event("signature", t.thinkItem, t.thinkIdx, <<>>)
                     ELSE Event("content", t.thinkItem, t.thinkIdx, t.out.thinking)
    OBVIOUS
  <2>2. PICK b : b = Event("stop", t.thinkItem, t.thinkIdx, <<>>)
    OBVIOUS
  <2>3. PICK m : m = [t EXCEPT !.thinkOpen = FALSE]
    OBVIOUS
  <2>4. u = Emit(m, <<a, b>>)
    BY <1>2, <2>1, <2>2, <2>3 DEF CloseThinking
  <2>5. t.thinkItem \in Items \cup Marks /\ t.thinkIdx \in Int /\ t.out.thinking \in Datas
    BY <1>0, <1>2, ItemKinds, TextIsData DEF Trans, Translators, Outs
  <2>6. a \in Events /\ a.ev \in Inside /\ a.item = t.thinkItem /\ a.idx = t.thinkIdx
    <3>1. CASE dialect = "Anthropic"
      BY <3>1, <2>1, <2>5, EventIs, NoTextIsText DEF Inside
    <3>2. CASE dialect # "Anthropic"
      BY <3>2, <2>1, <2>5, EventIs DEF Inside
    <3> QED BY <3>1, <3>2
  <2>7. b \in Events /\ b.ev = "stop" /\ b.item = t.thinkItem /\ b.idx = t.thinkIdx
    BY <2>2, <2>5, EventIs, NoTextIsText
  <2>8. m \in Trans /\ m.sent = t.sent /\ Keeps(t, m) /\ ~m.thinkOpen /\ m.textOpen = t.textOpen
    BY <1>0, <2>3 DEF Trans, Translators, Keeps
  <2>9. Board(m, f, w, O)
    BY <2>8, ShowsKept DEF Board
  <2>10. f[0 + 1] = t.thinkItem /\ 0 \in 0..(Len(f) - 1)
    BY <1>2 DEF Board, Shows, Ahead, ThinkBlocks, TextBlocks, NoIdx
  <2>11. PICK h : h = Emit(m, <<a>>)
    OBVIOUS
  <2>12. h \in Trans /\ h.sent = Append(m.sent, a) /\ Keeps(m, h) /\ SameOpen(m, h)
    BY <2>6, <2>8, <2>11, EmitIs
  <2>13. Board(h, f, w, O)
    BY <1>2, <2>6, <2>9, <2>10, <2>12, BoardBlock
  <2>14. u = Emit(h, <<b>>)
    BY <2>4, <2>6, <2>7, <2>8, <2>11, EmitBoth
  <2>15. u \in Trans /\ u.sent = Append(h.sent, b) /\ Keeps(h, u) /\ SameOpen(h, u)
    BY <2>7, <2>12, <2>14, EmitIs
  <2>16. Board(u, f, w, O \ {0})
    BY <1>2, <2>7, <2>10, <2>13, <2>15, BoardBlock
  <2>17. Keeps(t, u)
    BY <2>8, <2>12, <2>15 DEF Keeps
  <2> QED BY <1>2, <2>8, <2>12, <2>15, <2>16, <2>17 DEF SameOpen
<1> QED BY <1>1, <1>2

\* The text block is closed.
LEMMA CloseTextBoard ==
    ASSUME NEW t, NEW f, NEW w, NEW O, Board(t, f, w, O),
           t.textOpen => t.textIdx # NoIdx /\ t.textIdx \in O, NEW u, u = CloseText(t)
    PROVE  /\ Board(u, f, w, IF t.textOpen THEN O \ {t.textIdx} ELSE O)
           /\ Keeps(t, u) /\ ~u.textOpen /\ u.thinkOpen = t.thinkOpen
<1>0. t \in Trans
  BY DEF Board
<1>1. CASE ~t.textOpen
  BY <1>1 DEF CloseText, Keeps
<1>2. CASE t.textOpen
  <2>1. PICK a : a = Event("content", t.textItem, t.textIdx, t.out.text)
    OBVIOUS
  <2>2. PICK b : b = Event("stop", t.textItem, t.textIdx, <<>>)
    OBVIOUS
  <2>3. PICK m : m = [t EXCEPT !.textOpen = FALSE]
    OBVIOUS
  <2>4. t.textItem \in Items \cup Marks /\ t.textIdx \in Int /\ t.out.text \in Datas
    BY <1>0, <1>2, ItemKinds, TextIsData DEF Trans, Translators, Outs
  <2>5. a \in Events /\ a.ev \in Inside /\ a.item = t.textItem /\ a.idx = t.textIdx
    BY <2>1, <2>4, EventIs DEF Inside
  <2>6. b \in Events /\ b.ev = "stop" /\ b.item = t.textItem /\ b.idx = t.textIdx
    BY <2>2, <2>4, EventIs, NoTextIsText
  <2>7. m \in Trans /\ m.sent = t.sent /\ Keeps(t, m) /\ ~m.textOpen /\ m.thinkOpen = t.thinkOpen
    BY <1>0, <2>3 DEF Trans, Translators, Keeps
  <2>8. Board(m, f, w, O)
    BY <2>7, ShowsKept DEF Board
  <2>9. PICK x : x = t.textIdx
    OBVIOUS
  <2>10. f[x + 1] = t.textItem /\ x \in 0..(Len(f) - 1)
    BY <1>2, <2>9 DEF Board, Shows, Ahead, ThinkBlocks, TextBlocks, NoIdx
  <2>11. PICK h : /\ Board(h, f, w, O) /\ Keeps(m, h) /\ SameOpen(m, h)
                  /\ u = Emit(h, <<b>>)
    <3>1. CASE dialect = "Anthropic"
      <4>1. <<>> \o <<b>> = <<b>>
        BY <2>6, ConcatEmptySeq
      <4>2. u = Emit(m, <<b>>)
        BY <1>2, <2>2, <2>3, <3>1, <4>1 DEF CloseText
      <4>3. Keeps(m, m) /\ SameOpen(m, m)
        BY DEF Keeps, SameOpen
      <4> QED BY <2>8, <4>2, <4>3
    <3>2. CASE dialect # "Anthropic"
      <4>1. <<a>> \o <<b>> = <<a, b>>
        BY <2>5, <2>6, PairIs
      <4>2. u = Emit(m, <<a, b>>)
        BY <1>2, <2>1, <2>2, <2>3, <3>2, <4>1 DEF CloseText
      <4>3. PICK h : h = Emit(m, <<a>>)
        OBVIOUS
      <4>4. h \in Trans /\ h.sent = Append(m.sent, a) /\ Keeps(m, h) /\ SameOpen(m, h)
        BY <2>5, <2>7, <4>3, EmitIs
      <4>5. Board(h, f, w, O)
        BY <1>2, <2>5, <2>8, <2>9, <2>10, <4>4, BoardBlock
      <4>6. u = Emit(h, <<b>>)
        BY <2>5, <2>6, <2>7, <4>2, <4>3, EmitBoth
      <4> QED BY <4>4, <4>5, <4>6
    <3> QED BY <3>1, <3>2
  <2>12. h \in Trans
    BY <2>11 DEF Board
  <2>13. u \in Trans /\ u.sent = Append(h.sent, b) /\ Keeps(h, u) /\ SameOpen(h, u)
    BY <2>6, <2>11, <2>12, EmitIs
  <2>14. Board(u, f, w, O \ {x})
    BY <1>2, <2>6, <2>9, <2>10, <2>11, <2>13, BoardBlock
  <2>15. Keeps(t, u)
    BY <2>7, <2>11, <2>13 DEF Keeps
  <2> QED BY <1>2, <2>7, <2>9, <2>11, <2>13, <2>14, <2>15 DEF SameOpen
<1> QED BY <1>1, <1>2

\* The thinking block is begun, before any other.
LEMMA OpenThinkingBoard ==
    ASSUME NEW t, NEW f, NEW O, Board(t, f, <<>>, O), dialect \in {"Anthropic", "Responses"},
           ~t.thinkOpen, t.thinkIdx = NoIdx, t.textIdx = NoIdx, NEW u, u = OpenThinking(t)
    PROVE  \E g : /\ Board(u, g, <<>>, {0}) /\ Len(g) = 1
                  /\ u.thinkIdx = 0 /\ u.textIdx = NoIdx /\ u.thinkOpen
                  /\ u.textOpen = t.textOpen /\ u.out = t.out /\ u.started = t.started
                  /\ u.completed = t.completed
<1>0. t \in Trans /\ t \in Translators
  BY DEF Board, Trans
<1>1. Len(f) = 0 /\ f \in Seq(Items) /\ (dialect = "Responses" => t.nextIdx = 0)
  BY DEF Board, Shows, Ahead, ThinkBlocks, TextBlocks
<1>2. PICK n : n = IF dialect = "Responses" THEN t.nextIdx + 1 ELSE t.nextIdx
  OBVIOUS
<1>3. n \in Nat /\ (dialect = "Responses" => n = 1)
  BY <1>0, <1>1, <1>2 DEF Translators
<1>4. PICK v : v = <<"thinking", 0>>
  OBVIOUS
<1> PICK z \in Int : z = 0
  OBVIOUS
<1>5. PICK m : m = [t EXCEPT !.thinkOpen = TRUE, !.thinkIdx = z, !.thinkItem = v, !.nextIdx = n]
  OBVIOUS
<1>6. PICK e : e = Event("start", v, 0, <<>>)
  OBVIOUS
<1>7. u = Emit(m, <<e>>)
  BY <1>1, <1>2, <1>4, <1>5, <1>6 DEF OpenThinking, AllocThinkingIdx
<1>8. e \in Events /\ e.ev = "start" /\ e.item = v /\ e.idx = 0 /\ v \in Items
  BY <1>4, <1>6, EventIs, ItemKinds, NoTextIsText
<1>9. /\ m \in Trans /\ m.sent = t.sent /\ m.thinkOpen /\ m.textOpen = t.textOpen
      /\ m.thinkIdx = 0 /\ m.textIdx = NoIdx /\ m.thinkItem = v /\ m.nextIdx = n
      /\ m.out = t.out /\ m.started = t.started /\ m.completed = t.completed
  <2>1. m \in Translators
    <3>1. v \in {"thinking"} \X Int
      BY <1>4
    <3>2. n \in Nat
      BY <1>3
    <3> HIDE <1>1
    <3> QED BY <1>0, <1>5, <3>1, <3>2 DEF Translators
  <2>2. /\ m.sent = t.sent /\ m.thinkOpen /\ m.textOpen = t.textOpen
        /\ m.thinkIdx = 0 /\ m.textIdx = NoIdx /\ m.thinkItem = v /\ m.nextIdx = n
        /\ m.out = t.out /\ m.started = t.started /\ m.completed = t.completed
        /\ m.textItem = t.textItem
    BY <1>0, <1>5 DEF Translators
  <2> QED BY <1>0, <1>4, <2>1, <2>2 DEF Trans
<1>10. u \in Trans /\ u.sent = Append(m.sent, e) /\ Keeps(m, u) /\ SameOpen(m, u)
  BY <1>7, <1>8, <1>9, EmitIs
<1>11. PICK g : g = Append(f, v)
  OBVIOUS
<1>12. g \in Seq(Items) /\ Len(g) = 1 /\ g[1] = v
  BY <1>1, <1>8, <1>11, AppendProperties
<1>13. Tidy(u.sent, g, {0})
  <2>1. Tidy(t.sent, f, O) /\ t.sent \in Seq(Events)
    BY <1>0 DEF Board, Translators
  <2>2. Tidy(u.sent, g, O \cup {0})
    BY <1>1, <1>8, <1>9, <1>10, <1>11, <2>1, TidyStart
  <2>3. \A x \in 0..(Len(g) - 1) : x \in O \cup {0} <=> x \in {0}
    BY <1>12
  <2> QED BY <2>2, <2>3, TidySame
<1>14. Shows(u, g, <<>>)
  <2>1. <<>> \in Seq(Calls) /\ Len(<<>>) = 0
    BY EmptySeq
  <2> QED BY <1>3, <1>9, <1>10, <1>12, <2>1 DEF Shows, Keeps, Ahead, ThinkBlocks, TextBlocks, NoIdx
<1> QED BY <1>9, <1>10, <1>12, <1>13, <1>14 DEF Board, Keeps, SameOpen

\* From t to u the text block is begun.
TextBegun(t, u, f, g, O) ==
    /\ Board(u, g, <<>>, O \cup {Len(f)}) /\ Len(g) = Len(f) + 1
    /\ u.thinkIdx = t.thinkIdx /\ u.textIdx = Len(f) /\ u.textOpen
    /\ u.thinkOpen = t.thinkOpen /\ u.out = t.out /\ u.started = t.started

\* The text block is begun, after that of the thinking.
LEMMA OpenTextBoard ==
    ASSUME NEW t, NEW f, NEW O, Board(t, f, <<>>, O), dialect \in {"Anthropic", "Responses"},
           ~t.textOpen, t.textIdx = NoIdx, NEW u, u = OpenText(t)
    PROVE  \E g : TextBegun(t, u, f, g, O)
<1>0. t \in Trans /\ t \in Translators
  BY DEF Board, Trans
<1>1. PICK k \in Nat : k = Len(f)
  BY DEF Board, Shows
<1>2. /\ f \in Seq(Items) /\ k = ThinkBlocks(t) /\ (dialect = "Responses" => t.nextIdx = k)
      /\ t.thinkIdx \in {NoIdx, 0} /\ (t.thinkIdx = 0 => f[1] = t.thinkItem)
  BY <1>1 DEF Board, Shows, Ahead, ThinkBlocks, TextBlocks
<1>3. PICK n : n = IF dialect = "Responses" THEN t.nextIdx + 1 ELSE t.nextIdx
  OBVIOUS
<1>4. n \in Nat /\ (dialect = "Responses" => n = k + 1)
  BY <1>0, <1>2, <1>3 DEF Translators
<1>5. PICK v : v = <<"text", k>>
  OBVIOUS
<1>6. PICK m : m = [t EXCEPT !.textOpen = TRUE, !.textIdx = k, !.textItem = v, !.nextIdx = n]
  OBVIOUS
<1>7. PICK e : e = Event("start", v, k, <<>>)
  OBVIOUS
<1>8. u = Emit(m, <<e>>)
  <2>1. AllocTextIdx(t) = k
    BY <1>2 DEF AllocTextIdx, ThinkBlocks
  <2> QED BY <1>2, <1>3, <1>5, <1>6, <1>7, <2>1 DEF OpenText
<1>9. e \in Events /\ e.ev = "start" /\ e.item = v /\ e.idx = k /\ v \in Items
  BY <1>1, <1>5, <1>7, EventIs, ItemKinds, NoTextIsText
<1>10. /\ m \in Trans /\ m.sent = t.sent /\ m.textOpen /\ m.thinkOpen = t.thinkOpen
       /\ m.textIdx = k /\ m.thinkIdx = t.thinkIdx /\ m.textItem = v /\ m.nextIdx = n
       /\ m.out = t.out /\ m.started = t.started /\ m.completed = t.completed
       /\ m.thinkItem = t.thinkItem
  <2>1. m \in Translators
    <3>1. v \in {"text"} \X Int /\ k \in Int
      BY <1>1, <1>5
    <3> QED BY <1>0, <1>4, <1>6, <3>1 DEF Translators
  <2>2. /\ m.sent = t.sent /\ m.textOpen /\ m.thinkOpen = t.thinkOpen
        /\ m.textIdx = k /\ m.thinkIdx = t.thinkIdx /\ m.textItem = v /\ m.nextIdx = n
        /\ m.out = t.out /\ m.started = t.started /\ m.completed = t.completed
        /\ m.thinkItem = t.thinkItem
    BY <1>0, <1>6 DEF Translators
  <2> QED BY <1>0, <1>1, <1>5, <2>1, <2>2 DEF Trans
<1>11. u \in Trans /\ u.sent = Append(m.sent, e) /\ Keeps(m, u) /\ SameOpen(m, u)
  BY <1>8, <1>9, <1>10, EmitIs
<1>12. PICK g : g = Append(f, v)
  OBVIOUS
<1>13. g \in Seq(Items) /\ Len(g) = k + 1 /\ g[k + 1] = v /\ \A i \in 1..k : g[i] = f[i]
  <2>1. f \in Seq(Items) /\ v \in Items
    BY <1>2, <1>9
  <2> QED BY <1>1, <1>12, <2>1, AppendProperties
<1>14. Tidy(u.sent, g, O \cup {k})
  <2>1. Tidy(t.sent, f, O) /\ t.sent \in Seq(Events)
    BY <1>0 DEF Board, Translators
  <2> QED BY <1>1, <1>2, <1>9, <1>10, <1>11, <1>12, <2>1, TidyStart
<1>15. Shows(u, g, <<>>)
  <2>1. <<>> \in Seq(Calls) /\ Len(<<>>) = 0
    BY EmptySeq
  <2>2. u.thinkIdx = t.thinkIdx /\ u.thinkItem = t.thinkItem /\ u.textIdx = k /\ u.textItem = v
        /\ u.nextIdx = n
    BY <1>10, <1>11 DEF Keeps
  <2>3. ThinkBlocks(u) = k /\ TextBlocks(u) = 1 /\ Ahead(u) = k + 1
    BY <1>1, <1>2, <2>2 DEF ThinkBlocks, TextBlocks, Ahead, NoIdx
  <2>4. u.thinkIdx = 0 => g[1] = u.thinkItem
    <3>1. u.thinkIdx = 0 => k = 1
      BY <1>2, <2>2 DEF ThinkBlocks, NoIdx
    <3> QED BY <1>2, <1>13, <2>2, <3>1
  <2> QED BY <1>1, <1>2, <1>4, <1>13, <2>1, <2>2, <2>3, <2>4 DEF Shows
<1>16. TextBegun(t, u, f, g, O)
  BY <1>1, <1>10, <1>11, <1>13, <1>14, <1>15 DEF Board, Keeps, SameOpen, TextBegun
<1> QED BY <1>16

\* What shows the blocks is where they are, not what was collected.
LEMMA NewOutBoard ==
    ASSUME NEW t, NEW f, NEW w, NEW O, Board(t, f, w, O), NEW o \in Outs,
           NEW m, m = [t EXCEPT !.out = o]
    PROVE  /\ Board(m, f, w, O) /\ SameOpen(t, m) /\ m.out = o
           /\ m.started = t.started /\ m.completed = t.completed
           /\ m.thinkIdx = t.thinkIdx /\ m.textIdx = t.textIdx
           /\ m.thinkItem = t.thinkItem /\ m.textItem = t.textItem
<1>1. t \in Trans /\ Shows(t, f, w) /\ Tidy(t.sent, f, O)
  BY DEF Board
<1>2. m \in Trans
  BY <1>1, NewOut
<1>3. /\ m.out = o /\ m.completed = t.completed /\ m.started = t.started
      /\ m.thinkIdx = t.thinkIdx /\ m.textIdx = t.textIdx /\ m.nextIdx = t.nextIdx
      /\ m.thinkItem = t.thinkItem /\ m.textItem = t.textItem /\ m.sent = t.sent
      /\ m.thinkOpen = t.thinkOpen /\ m.textOpen = t.textOpen
  BY <1>1 DEF Trans, Translators
<1>4. Shows(m, f, w)
  BY <1>1, <1>3 DEF Shows, Ahead, ThinkBlocks, TextBlocks
<1> QED BY <1>1, <1>2, <1>3, <1>4 DEF Board, SameOpen

\* An increment of an open thinking block.
LEMMA ThinkingDeltaBoard ==
    ASSUME NEW t, NEW f, NEW w, NEW O, Board(t, f, w, O), dialect # "Chat",
           t.thinkOpen, t.thinkIdx = 0, 0 \in O, NEW d \in Texts, NEW u, u = ThinkingDelta(t, d)
    PROVE  Board(u, f, w, O) /\ Keeps(t, u) /\ SameOpen(t, u)
<1>1. PICK e : e = Event("delta", t.thinkItem, t.thinkIdx, d)
  OBVIOUS
<1>2. u = Emit(t, <<e>>)
  BY <1>1 DEF ThinkingDelta, OpenThinking
<1>3. t \in Trans /\ t.thinkItem \in Items
  BY ItemKinds DEF Board, Trans, Translators
<1>4. e \in Events /\ e.ev \in Inside /\ e.item = t.thinkItem /\ e.idx = 0
  BY <1>1, <1>3, DeltaIs DEF Inside
<1>5. f[0 + 1] = t.thinkItem /\ 0 \in 0..(Len(f) - 1)
  BY DEF Board, Shows, Ahead, ThinkBlocks, TextBlocks, NoIdx
<1>6. u \in Trans /\ u.sent = Append(t.sent, e) /\ Keeps(t, u) /\ SameOpen(t, u)
  BY <1>2, <1>3, <1>4, EmitIs
<1> QED BY <1>4, <1>5, <1>6, BoardBlock

\* Which blocks are open: the last one, until there are calls, and then those of
\* the calls that are not complete.
OpenBlock(t, f, x) ==
    IF t.out.tools = <<>> THEN x = Len(f) - 1
    ELSE \E i \in 1..Len(t.out.tools) :
            x = Ahead(t) + i - 1 /\ t.out.tools[i].id \notin t.completed
Laid(t, f, O) ==
    /\ Board(t, f, t.out.tools, O)
    /\ t.thinkOpen <=> t.thinkIdx # NoIdx /\ t.textIdx = NoIdx /\ t.out.tools = <<>>
    /\ t.textOpen <=> t.textIdx # NoIdx /\ t.out.tools = <<>>
    /\ t.thinkIdx # NoIdx => t.out.thinking # <<>>
    /\ t.textIdx # NoIdx => t.out.text # <<>>
    /\ t.started = {t.out.tools[i].id : i \in 1..Len(t.out.tools)}
    /\ \A x \in 0..(Len(f) - 1) : x \in O <=> OpenBlock(t, f, x)
LaidOut(t) == \E f : \E O : Laid(t, f, O)

\* Text that is added to is not empty.
LEMMA AddedText ==
    ASSUME NEW a \in Texts, NEW d \in Texts PROVE (a # <<>> \/ d # <<>>) => a \o d # <<>>
<1>1. a \in Seq(Tokens) /\ d \in Seq(Tokens)
  BY DEF Texts
<1> QED BY <1>1, ConcatProperties, EmptySeq

\* Thinking that comes before all else.
LEMMA FeedThinkingLaid ==
    ASSUME NEW t, LaidOut(t), dialect \in {"Anthropic", "Responses"}, NEW p,
           p # NoPart => /\ p.text \in Texts /\ p.signed \in BOOLEAN
                         /\ t.out.tools = <<>> /\ t.textIdx = NoIdx,
           NEW u, u = FeedThinking(t, p)
    PROVE  LaidOut(u) /\ u.textIdx = t.textIdx
<1>0. PICK f : \E O : Laid(t, f, O)
  BY DEF LaidOut
<1>1. PICK O : Laid(t, f, O)
  BY <1>0
<1>2. Board(t, f, t.out.tools, O) /\ t \in Trans /\ t.out \in Outs /\ t.out.thinking \in Texts
  BY <1>1 DEF Laid, Board, Trans, Translators, Outs
<1>3. CASE p = NoPart \/ p.text = <<>>
  BY <1>3 DEF FeedThinking
<1>4. CASE p # NoPart /\ p.text # <<>>
  <2>1. PICK d \in Texts : d = p.text
    BY <1>4
  <2>2. PICK x : x = t.out.thinking \o d
    OBVIOUS
  <2>3. x \in Texts /\ x # <<>>
    <3>1. x \in Texts
      BY <1>2, <2>1, <2>2, ConcatProperties DEF Texts
    <3> QED BY <1>2, <1>4, <2>1, <2>2, <3>1, AddedText
  <2>4. PICK g \in BOOLEAN : g = (t.out.signed \/ p.signed)
    BY <1>2, <1>4 DEF Outs
  <2>5. PICK o : o = [t.out EXCEPT !.thinking = x, !.signed = g]
    OBVIOUS
  <2>6. o \in Outs /\ o.thinking = x /\ o.text = t.out.text /\ o.tools = <<>>
    BY <1>2, <1>4, <2>3, <2>4, <2>5 DEF Outs
  <2>7. PICK m : m = [t EXCEPT !.out = o]
    OBVIOUS
  <2>8. m = [t EXCEPT !.out.thinking = @ \o p.text, !.out.signed = @ \/ p.signed]
    BY <1>2, <2>1, <2>2, <2>4, <2>5, <2>7 DEF Trans, Translators, Outs
  <2>9. u = ThinkingDelta(m, d)
    BY <1>4, <2>1, <2>8 DEF FeedThinking
  <2>10. /\ Board(m, f, <<>>, O) /\ SameOpen(t, m) /\ m.out = o
         /\ m.started = t.started /\ m.completed = t.completed
         /\ m.thinkIdx = t.thinkIdx /\ m.textIdx = NoIdx
    BY <1>2, <1>4, <2>6, <2>7, NewOutBoard
  <2>11. ~t.textOpen /\ t.started = {} /\ (t.thinkOpen <=> t.thinkIdx # NoIdx)
    BY <1>1, <1>4 DEF Laid
  <2>12. PICK h : /\ u = ThinkingDelta(h, d)
                  /\ h.thinkOpen /\ ~h.textOpen /\ h.thinkIdx = 0 /\ h.textIdx = NoIdx
                  /\ h.out = o /\ h.started = {}
                  /\ \E k : Board(h, k, <<>>, {0}) /\ Len(k) = 1
    <3>1. CASE t.thinkOpen
      <4>1. Len(f) = 1 /\ t.thinkIdx = 0
        <5>1. Shows(t, f, t.out.tools)
          BY <1>1 DEF Laid, Board
        <5>2. t.out.tools = <<>> /\ t.textIdx = NoIdx /\ t.thinkIdx # NoIdx
          BY <1>4, <2>11, <3>1
        <5> QED BY <5>1, <5>2 DEF Shows, Ahead, ThinkBlocks, TextBlocks
      <4>2. \A y \in 0..(Len(f) - 1) : y \in O <=> y \in {0}
        BY <1>1, <1>4, <4>1 DEF Laid, OpenBlock
      <4>3. Board(m, f, <<>>, {0})
        BY <2>10, <4>2, TidySame DEF Board
      <4> QED BY <2>9, <2>10, <2>11, <3>1, <4>1, <4>3 DEF SameOpen
    <3>2. CASE ~t.thinkOpen
      <4>1. m.thinkIdx = NoIdx /\ ~m.thinkOpen /\ ~m.textOpen
        BY <2>10, <2>11, <3>2 DEF SameOpen
      <4>2. PICK h : h = OpenThinking(m)
        OBVIOUS
      <4>3. PICK k : /\ Board(h, k, <<>>, {0}) /\ Len(k) = 1
                     /\ h.thinkIdx = 0 /\ h.textIdx = NoIdx /\ h.thinkOpen
                     /\ h.textOpen = m.textOpen /\ h.out = m.out /\ h.started = m.started
        BY <2>10, <4>1, <4>2, OpenThinkingBoard
      <4>4. OpenThinking(h) = h
        BY <4>3 DEF OpenThinking
      <4>5. ThinkingDelta(m, d) = ThinkingDelta(h, d)
        BY <4>2, <4>4 DEF ThinkingDelta
      <4> QED BY <2>9, <2>10, <2>11, <4>1, <4>3, <4>5
    <3> QED BY <3>1, <3>2
  <2>13. PICK k : Board(h, k, <<>>, {0}) /\ Len(k) = 1
    BY <2>12
  <2>14. Board(u, k, <<>>, {0}) /\ Keeps(h, u) /\ SameOpen(h, u)
    BY <2>1, <2>12, <2>13, ThinkingDeltaBoard
  <2>15. /\ u.thinkOpen /\ ~u.textOpen /\ u.thinkIdx = 0 /\ u.textIdx = NoIdx
         /\ u.out = o /\ u.started = {}
    BY <2>12, <2>14 DEF Keeps, SameOpen
  <2>16. u.out.tools = <<>> /\ u.out.thinking # <<>>
    BY <2>3, <2>6, <2>15
  <2>17. \A y \in 0..(Len(k) - 1) : y \in {0} <=> OpenBlock(u, k, y)
    BY <2>13, <2>16 DEF OpenBlock
  <2>18. u.started = {u.out.tools[i].id : i \in 1..Len(u.out.tools)}
    BY <2>15, <2>16
  <2>19. Laid(u, k, {0})
    BY <2>14, <2>15, <2>16, <2>17, <2>18 DEF Laid, NoIdx
  <2> QED BY <1>4, <2>15, <2>19 DEF LaidOut
<1> QED BY <1>3, <1>4

\* Text that comes before all calls.
LEMMA FeedTextLaid ==
    ASSUME NEW t, LaidOut(t), dialect \in {"Anthropic", "Responses"}, NEW d \in Texts,
           d # <<>> => t.out.tools = <<>>, NEW u, u = FeedText(t, d)
    PROVE  LaidOut(u) /\ (u.textIdx # t.textIdx => d # <<>>)
<1>0. PICK f : \E O : Laid(t, f, O)
  BY DEF LaidOut
<1>1. PICK O : Laid(t, f, O)
  BY <1>0
<1>2. Board(t, f, t.out.tools, O) /\ t \in Trans /\ t.out \in Outs /\ t.out.text \in Texts
  BY <1>1 DEF Laid, Board, Trans, Translators, Outs
<1>3. CASE d = <<>>
  BY <1>3 DEF FeedText
<1>4. CASE d # <<>>
  <2>1. PICK x : x = t.out.text \o d
    OBVIOUS
  <2>2. x \in Texts /\ x # <<>>
    <3>1. x \in Texts
      BY <1>2, <2>1, ConcatProperties DEF Texts
    <3> QED BY <1>2, <1>4, <2>1, <3>1, AddedText
  <2>3. PICK o : o = [t.out EXCEPT !.text = x]
    OBVIOUS
  <2>4. o \in Outs /\ o.text = x /\ o.thinking = t.out.thinking /\ o.tools = <<>>
    BY <1>2, <1>4, <2>2, <2>3 DEF Outs
  <2>5. PICK m : m = [t EXCEPT !.out = o]
    OBVIOUS
  <2>6. m = [t EXCEPT !.out.text = @ \o d]
    BY <1>2, <2>1, <2>3, <2>5 DEF Trans, Translators, Outs
  <2>7. /\ Board(m, f, <<>>, O) /\ SameOpen(t, m) /\ m.out = o
        /\ m.started = t.started /\ m.completed = t.completed
        /\ m.thinkIdx = t.thinkIdx /\ m.textIdx = t.textIdx
    BY <1>2, <1>4, <2>4, <2>5, NewOutBoard
  <2>8. Shows(t, f, t.out.tools) /\ t.out.tools = <<>> /\ Len(t.out.tools) = 0
    BY <1>2, <1>4 DEF Board
  <2>9. PICK k \in Nat : k = Len(f)
    BY <2>8 DEF Shows
  <2>10. /\ t.started = {} /\ (t.thinkOpen <=> t.thinkIdx # NoIdx /\ t.textIdx = NoIdx)
         /\ (t.textOpen <=> t.textIdx # NoIdx) /\ (t.thinkIdx # NoIdx => t.out.thinking # <<>>)
         /\ \A y \in 0..(k - 1) : y \in O <=> y = k - 1
    BY <1>1, <2>8, <2>9 DEF Laid, OpenBlock
  <2>11. /\ k = Ahead(t) /\ t.thinkIdx \in {NoIdx, 0} /\ t.textIdx \in {NoIdx, ThinkBlocks(t)}
    <3>1. Ahead(t) \in Nat
      BY DEF Ahead, ThinkBlocks, TextBlocks
    <3> QED BY <2>8, <2>9, <3>1 DEF Shows
  <2>12. PICK c : c = CloseThinking(m)
    OBVIOUS
  <2>13. m.thinkOpen => m.thinkIdx = 0 /\ 0 \in O
    <3> SUFFICES ASSUME m.thinkOpen PROVE m.thinkIdx = 0 /\ 0 \in O
      OBVIOUS
    <3>1. t.thinkOpen /\ t.thinkIdx = 0 /\ t.textIdx = NoIdx
      BY <2>7, <2>10, <2>11 DEF SameOpen
    <3>2. k = 1
      BY <2>11, <3>1 DEF Ahead, ThinkBlocks, TextBlocks, NoIdx
    <3> QED BY <2>7, <2>10, <3>1, <3>2
  <2>14. PICK P : P = IF m.thinkOpen THEN O \ {0} ELSE O
    OBVIOUS
  <2>15. /\ Board(c, f, <<>>, P) /\ Keeps(m, c) /\ ~c.thinkOpen /\ c.textOpen = m.textOpen
    BY <2>7, <2>12, <2>13, <2>14, CloseThinkingBoard
  <2>16. PICK b : b = OpenText(c)
    OBVIOUS
  <2>17. PICK g : /\ \E Q : /\ Board(b, g, <<>>, Q)
                            /\ \A y \in 0..(Len(g) - 1) : y \in Q <=> y = Len(g) - 1
                  /\ b.textIdx # NoIdx /\ b.thinkIdx = t.thinkIdx /\ b.out = o
                  /\ b.started = {} /\ b.textOpen /\ ~b.thinkOpen
    <3>1. CASE t.textOpen
      <4>1. c.textOpen /\ b = c /\ P = O
        BY <2>7, <2>10, <2>14, <2>15, <2>16, <3>1 DEF SameOpen, OpenText
      <4>2. c.textIdx = t.textIdx /\ c.thinkIdx = t.thinkIdx /\ c.out = o /\ c.started = {}
        BY <2>7, <2>10, <2>15 DEF Keeps
      <4>3. t.textIdx # NoIdx
        BY <2>10, <3>1
      <4> QED BY <2>9, <2>10, <2>15, <4>1, <4>2, <4>3
    <3>2. CASE ~t.textOpen
      <4>1. c.textIdx = NoIdx /\ ~c.textOpen /\ c.thinkIdx = t.thinkIdx /\ c.out = o /\ c.started = {}
        BY <2>7, <2>10, <2>15, <3>2 DEF Keeps, SameOpen
      <4>2. PICK g : TextBegun(c, b, f, g, P)
        BY <2>15, <2>16, <4>1, OpenTextBoard
      <4>3. \A y \in 0..(Len(g) - 1) : y \in P \cup {Len(f)} <=> y = Len(g) - 1
        <5>1. \A y \in 0..(k - 1) : y \notin P
          <6>1. CASE t.thinkOpen
            <7>1. k = 1 /\ m.thinkOpen
              BY <2>7, <2>10, <2>11, <6>1 DEF Ahead, ThinkBlocks, TextBlocks, SameOpen
            <7> QED BY <2>10, <2>14, <7>1
          <6>2. CASE ~t.thinkOpen
            <7>1. k = 0
              BY <2>10, <2>11, <3>2, <6>2 DEF Ahead, ThinkBlocks, TextBlocks
            <7> QED BY <7>1
          <6> QED BY <6>1, <6>2
        <5> QED BY <2>9, <4>2, <5>1 DEF TextBegun
      <4>4. b.textIdx # NoIdx
        BY <2>9, <4>2 DEF NoIdx, TextBegun
      <4> QED BY <2>15, <4>1, <4>2, <4>3, <4>4 DEF TextBegun
    <3> QED BY <3>1, <3>2
  <2>18. PICK Q : /\ Board(b, g, <<>>, Q)
                  /\ \A y \in 0..(Len(g) - 1) : y \in Q <=> y = Len(g) - 1
    BY <2>17
  <2>19. PICK e : e = Event("delta", b.textItem, b.textIdx, d)
    OBVIOUS
  <2>20. b \in Trans /\ b.textItem \in Items /\ b.textIdx \in Int
    BY <2>17, <2>18, ItemKinds DEF Board, Trans, Translators
  <2>21. e \in Events /\ e.ev \in Inside /\ e.item = b.textItem /\ e.idx = b.textIdx
    BY <2>19, <2>20, DeltaIs DEF Inside
  <2>22. u = Emit(b, <<e>>)
    BY <1>4, <2>6, <2>12, <2>16, <2>19 DEF FeedText
  <2>23. u \in Trans /\ u.sent = Append(b.sent, e) /\ Keeps(b, u) /\ SameOpen(b, u)
    BY <2>20, <2>21, <2>22, EmitIs
  <2>24. PICK y : y = b.textIdx
    OBVIOUS
  <2>25. y \in 0..(Len(g) - 1) /\ y \in Q /\ g[y + 1] = b.textItem
    <3>1. Shows(b, g, <<>>) /\ Len(<<>>) = 0
      BY <2>18 DEF Board
    <3>2. y \in 0..(Len(g) - 1) /\ y = Len(g) - 1 /\ g[y + 1] = b.textItem
      BY <2>17, <2>24, <3>1 DEF Shows, Ahead, ThinkBlocks, TextBlocks, NoIdx
    <3> QED BY <2>18, <3>2
  <2>26. Board(u, g, <<>>, Q)
    BY <2>18, <2>21, <2>23, <2>24, <2>25, BoardBlock
  <2>27. /\ u.textOpen /\ ~u.thinkOpen /\ u.thinkIdx = t.thinkIdx /\ u.textIdx # NoIdx
         /\ u.out = o /\ u.started = {}
    BY <2>17, <2>23 DEF Keeps, SameOpen
  <2>28. u.out.tools = <<>> /\ u.out.text # <<>> /\ u.out.thinking = t.out.thinking
    BY <2>2, <2>4, <2>27
  <2>29. \A z \in 0..(Len(g) - 1) : z \in Q <=> OpenBlock(u, g, z)
    BY <2>18, <2>28 DEF OpenBlock
  <2>30. u.started = {u.out.tools[i].id : i \in 1..Len(u.out.tools)}
    BY <2>27, <2>28
  <2>31. Laid(u, g, Q)
    BY <2>10, <2>26, <2>27, <2>28, <2>29, <2>30 DEF Laid
  <2> QED BY <1>4, <2>31 DEF LaidOut
<1> QED BY <1>3, <1>4

\* The first event, and the count of tokens, belong to no block.
LEMMA PreambleLaid ==
    ASSUME NEW t, LaidOut(t), NEW a,
           a = t \/ \E g \in Usages : a = [t EXCEPT !.usage = g], NEW u, u = Preamble(a)
    PROVE  LaidOut(u) /\ u.textIdx = t.textIdx /\ u.out = t.out
<1>0. PICK f : \E O : Laid(t, f, O)
  BY DEF LaidOut
<1>1. PICK O : Laid(t, f, O)
  BY <1>0
<1>2. t \in Trans /\ t \in Translators /\ Shows(t, f, t.out.tools) /\ Tidy(t.sent, f, O)
  BY <1>1 DEF Laid, Board, Trans
<1>3. a \in Trans /\ a.sent = t.sent /\ Keeps(t, a) /\ SameOpen(t, a)
  <2>1. CASE a = t
    BY <1>2, <2>1 DEF Keeps, SameOpen
  <2>2. CASE \E g \in Usages : a = [t EXCEPT !.usage = g]
    <3>1. PICK g \in Usages : a = [t EXCEPT !.usage = g]
      BY <2>2
    <3>2. Keeps(t, a) /\ SameOpen(t, a) /\ a.sent = t.sent
      BY <1>2, <3>1 DEF Translators, Keeps, SameOpen
    <3>3. a \in Translators
      BY <1>2, <3>1 DEF Translators
    <3> QED BY <1>2, <3>2, <3>3 DEF Trans, Keeps, SameOpen
  <2> QED BY <2>1, <2>2
<1>4. /\ u \in Trans /\ Keeps(a, u) /\ SameOpen(a, u)
      /\ Tidy(u.sent, f, O)
  <2>1. CASE a.begun \/ dialect = "Chat"
    BY <1>2, <1>3, <2>1 DEF Preamble, Keeps, SameOpen
  <2>2. CASE ~(a.begun \/ dialect = "Chat")
    <3>1. PICK m : m = [a EXCEPT !.begun = TRUE]
      OBVIOUS
    <3>2. PICK e : e = Mark("begin")
      OBVIOUS
    <3>3. u = Emit(m, <<e>>)
      BY <2>2, <3>1, <3>2 DEF Preamble
    <3>4. m \in Trans /\ m.sent = a.sent /\ Keeps(a, m) /\ SameOpen(a, m)
      BY <1>3, <3>1 DEF Trans, Translators, Keeps, SameOpen
    <3>5. e \in Events /\ Marked(e)
      <4>1. e = Event("begin", NoText, NoIdx, <<>>) /\ NoIdx \in Int
        BY <3>2 DEF Mark, NoIdx
      <4>2. e \in Events /\ e.ev = "begin" /\ e.idx = NoIdx
        BY <4>1, EventIs, ItemKinds, NoTextIsText
      <4> QED BY <4>2 DEF Marked
    <3>6. u \in Trans /\ u.sent = Append(m.sent, e) /\ Keeps(m, u) /\ SameOpen(m, u)
      BY <3>3, <3>4, <3>5, EmitIs
    <3>7. Tidy(u.sent, f, O)
      <4>1. t.sent \in Seq(Events) /\ f \in Seq(Items)
        BY <1>2 DEF Translators, Shows
      <4> QED BY <1>2, <1>3, <3>4, <3>5, <3>6, <4>1, TidyMark
    <3> QED BY <3>4, <3>6, <3>7 DEF Keeps, SameOpen
  <2> QED BY <2>1, <2>2
<1>5. Keeps(t, u) /\ SameOpen(t, u)
  BY <1>3, <1>4 DEF Keeps, SameOpen
<1>6. Shows(u, f, t.out.tools)
  BY <1>2, <1>5, ShowsKept
<1>7. u.out = t.out /\ u.textIdx = t.textIdx
  BY <1>5 DEF Keeps
<1>8. \A x \in 0..(Len(f) - 1) : OpenBlock(u, f, x) <=> OpenBlock(t, f, x)
  BY <1>5 DEF OpenBlock, Keeps, Ahead, ThinkBlocks, TextBlocks
<1>9. Laid(u, f, O)
  BY <1>1, <1>4, <1>5, <1>6, <1>8 DEF Laid, Board, Keeps, SameOpen
<1> QED BY <1>7, <1>9 DEF LaidOut

-----------------------------------------------------------------------------
(* The blocks of calls. *)

\* From t to u the blocks of thinking and text are closed and that of a call begun.
ClosedBy(t) ==
    (IF t.thinkOpen THEN {0} ELSE {}) \cup (IF t.textOpen THEN {t.textIdx} ELSE {})
CallBegun(t, u, f, w, c, O) ==
    /\ Board(u, Append(f, c.id), Append(w, c), (O \ ClosedBy(t)) \cup {Len(f)})
    /\ ~u.thinkOpen /\ ~u.textOpen /\ u.out = t.out /\ u.completed = t.completed
    /\ u.started = t.started \cup {c.id} /\ u.thinkIdx = t.thinkIdx /\ u.textIdx = t.textIdx

\* StartTool does that.
LEMMA StartToolBoard ==
    ASSUME NEW t, NEW f, NEW w, NEW O, Board(t, f, w, O), dialect \in {"Anthropic", "Responses"},
           t.thinkOpen => t.thinkIdx = 0 /\ 0 \in O,
           t.textOpen => t.textIdx # NoIdx /\ t.textIdx \in O /\ ~t.thinkOpen,
           NEW c \in Calls, NEW n \in Nat, n = Len(w), NEW u, u = StartTool(t, c, n)
    PROVE  CallBegun(t, u, f, w, c, O)
<1>0. t \in Trans /\ t \in Translators /\ c.id \in Ids
  BY DEF Board, Trans, Calls
<1>1. PICK b : b = [t EXCEPT !.started = t.started \cup {c.id}]
  OBVIOUS
<1>2. /\ b \in Trans /\ b.sent = t.sent /\ b.started = t.started \cup {c.id}
      /\ b.out = t.out /\ b.completed = t.completed
      /\ b.thinkIdx = t.thinkIdx /\ b.textIdx = t.textIdx /\ b.nextIdx = t.nextIdx
      /\ b.thinkItem = t.thinkItem /\ b.textItem = t.textItem
      /\ b.thinkOpen = t.thinkOpen /\ b.textOpen = t.textOpen
  BY <1>0, <1>1 DEF Trans, Translators
<1>3. Board(b, f, w, O)
  BY <1>2 DEF Board, Shows, Ahead, ThinkBlocks, TextBlocks
<1>4. PICK h : h = CloseThinking(b)
  OBVIOUS
<1>5. PICK P : P = IF b.thinkOpen THEN O \ {0} ELSE O
  OBVIOUS
<1>6. Board(h, f, w, P) /\ Keeps(b, h) /\ ~h.thinkOpen /\ h.textOpen = b.textOpen
  BY <1>2, <1>3, <1>4, <1>5, CloseThinkingBoard
<1>7. PICK k : k = CloseText(h)
  OBVIOUS
<1>8. h.textIdx = t.textIdx
  BY <1>2, <1>6 DEF Keeps
<1>9. PICK Q : Q = IF h.textOpen THEN P \ {h.textIdx} ELSE P
  OBVIOUS
<1>10. Board(k, f, w, Q) /\ Keeps(h, k) /\ ~k.textOpen /\ k.thinkOpen = h.thinkOpen
  <2>1. h.textOpen => h.textIdx # NoIdx /\ h.textIdx \in P
    BY <1>2, <1>5, <1>6, <1>8
  <2> QED BY <1>6, <1>7, <1>9, <2>1, CloseTextBoard
<1>11. Q = O \ ClosedBy(t)
  BY <1>2, <1>5, <1>6, <1>8, <1>9 DEF ClosedBy
<1>12. /\ k \in Trans /\ Shows(k, f, w) /\ Tidy(k.sent, f, Q) /\ f \in Seq(Items)
       /\ w \in Seq(Calls) /\ k.sent \in Seq(Events)
  BY <1>10 DEF Board, Shows, Trans, Translators
<1>13. PICK x \in Nat : x = Len(f)
  BY <1>12
<1>14. Ahead(k) \in Nat /\ x = Ahead(k) + n /\ (dialect = "Responses" => k.nextIdx = x)
  <2>1. Ahead(k) \in Nat
    BY DEF Ahead, ThinkBlocks, TextBlocks
  <2> QED BY <1>12, <1>13, <2>1 DEF Shows
<1>15. AllocToolIdx(k, n) = x
  <2>1. AllocToolIdx(k, n) = n + Ahead(k)
    BY AllocIs
  <2> QED BY <1>14, <2>1
<1>16. PICK j \in Nat : j = IF dialect = "Responses" THEN k.nextIdx + 1 ELSE k.nextIdx
  BY <1>12 DEF Trans, Translators
<1>17. PICK m : m = [k EXCEPT !.nextIdx = j]
  OBVIOUS
<1>18. /\ m \in Trans /\ m.sent = k.sent /\ m.started = k.started
       /\ m.out = k.out /\ m.completed = k.completed
       /\ m.thinkIdx = k.thinkIdx /\ m.textIdx = k.textIdx /\ m.nextIdx = j
       /\ m.thinkItem = k.thinkItem /\ m.textItem = k.textItem
       /\ m.thinkOpen = k.thinkOpen /\ m.textOpen = k.textOpen
  BY <1>12, <1>17 DEF Trans, Translators
<1>19. PICK e : e = Event("start", c.id, x, <<>>)
  OBVIOUS
<1>20. e \in Events /\ e.ev = "start" /\ e.item = c.id /\ e.idx = x /\ c.id \in Items
  BY <1>0, <1>13, <1>19, EventIs, ItemKinds, NoTextIsText
<1>21. u = Emit(m, <<e>>)
  BY <1>1, <1>4, <1>7, <1>14, <1>15, <1>16, <1>17, <1>19 DEF StartTool
<1>22. u \in Trans /\ u.sent = Append(m.sent, e) /\ Keeps(m, u) /\ SameOpen(m, u)
  BY <1>18, <1>20, <1>21, EmitIs
<1>23. PICK g : g = Append(f, c.id)
  OBVIOUS
<1>24. g \in Seq(Items) /\ Len(g) = x + 1 /\ g[x + 1] = c.id /\ \A i \in 1..x : g[i] = f[i]
  <2>1. f \in Seq(Items) /\ c.id \in Items
    BY <1>12, <1>20
  <2> QED BY <1>13, <1>23, <2>1, AppendProperties
<1>25. PICK r : r = Append(w, c)
  OBVIOUS
<1>26. r \in Seq(Calls) /\ Len(r) = n + 1 /\ r[n + 1] = c /\ \A i \in 1..n : r[i] = w[i]
  <2>1. w \in Seq(Calls)
    BY <1>12
  <2> QED BY <1>25, <2>1, AppendProperties
<1>27. Tidy(u.sent, g, Q \cup {x})
  BY <1>12, <1>13, <1>18, <1>20, <1>22, <1>23, TidyStart
<1>28. Shows(u, g, r)
  <2>1. /\ u.thinkIdx = k.thinkIdx /\ u.textIdx = k.textIdx /\ u.nextIdx = j
        /\ u.thinkItem = k.thinkItem /\ u.textItem = k.textItem
    BY <1>18, <1>22 DEF Keeps
  <2>2. Ahead(u) = Ahead(k) /\ ThinkBlocks(u) = ThinkBlocks(k)
    BY <2>1 DEF Ahead, ThinkBlocks, TextBlocks
  <2>3. Len(g) = Ahead(u) + Len(r)
    BY <1>14, <1>24, <1>26, <2>2
  <2>4. \A i \in 1..Len(r) : g[Ahead(u) + i] = r[i].id
    <3> SUFFICES ASSUME NEW i \in 1..Len(r) PROVE g[Ahead(u) + i] = r[i].id
      OBVIOUS
    <3>1. CASE i = n + 1
      BY <1>14, <1>24, <1>26, <2>2, <3>1
    <3>2. CASE i # n + 1
      <4>1. i \in 1..n /\ Ahead(k) + i \in 1..x
        BY <1>14, <1>26, <3>2
      <4>2. f[Ahead(k) + i] = w[i].id
        BY <1>12, <4>1 DEF Shows
      <4> QED BY <1>24, <1>26, <2>2, <4>1, <4>2
    <3> QED BY <3>1, <3>2
  <2>5. u.thinkIdx = 0 => g[1] = u.thinkItem
    <3> SUFFICES ASSUME u.thinkIdx = 0 PROVE g[1] = u.thinkItem
      OBVIOUS
    <3>1. f[1] = u.thinkItem /\ Ahead(k) >= 1
      BY <1>12, <2>1 DEF Shows, Ahead, ThinkBlocks, TextBlocks, NoIdx
    <3>2. 1 \in 1..x
      BY <1>14, <3>1
    <3> QED BY <1>24, <3>1, <3>2
  <2>6. u.textIdx # NoIdx => g[u.textIdx + 1] = u.textItem
    <3> SUFFICES ASSUME u.textIdx # NoIdx PROVE g[u.textIdx + 1] = u.textItem
      OBVIOUS
    <3>1. f[u.textIdx + 1] = u.textItem /\ u.textIdx \in Nat /\ Ahead(k) >= u.textIdx + 1
      BY <1>12, <2>1 DEF Shows, Ahead, ThinkBlocks, TextBlocks, NoIdx
    <3>2. u.textIdx + 1 \in 1..x
      BY <1>14, <3>1
    <3> QED BY <1>24, <3>1, <3>2
  <2>7. u.thinkIdx \in {NoIdx, 0} /\ u.textIdx \in {NoIdx, ThinkBlocks(u)}
    BY <1>12, <2>1, <2>2 DEF Shows
  <2>8. dialect = "Responses" => u.nextIdx = Len(g)
    BY <1>14, <1>16, <1>24, <2>1
  <2> QED BY <1>24, <1>26, <2>3, <2>4, <2>5, <2>6, <2>7, <2>8 DEF Shows
<1>29. Board(u, g, r, Q \cup {x})
  BY <1>22, <1>27, <1>28 DEF Board
<1>30. /\ ~u.thinkOpen /\ ~u.textOpen /\ u.out = t.out /\ u.completed = t.completed
       /\ u.started = t.started \cup {c.id} /\ u.thinkIdx = t.thinkIdx /\ u.textIdx = t.textIdx
  BY <1>2, <1>6, <1>10, <1>18, <1>22 DEF Keeps, SameOpen
<1> QED BY <1>11, <1>13, <1>23, <1>25, <1>29, <1>30 DEF CallBegun

\* The events of a call that was begun.
CallEvents(h, c, n, d, k) ==
    LET x == ToolIdx(h, n)
        s == IF d = <<>> THEN h ELSE Emit(h, <<Event("delta", c.id, x, d)>>)
    IN  IF ~k \/ dialect = "Chat" THEN s
        ELSE Emit(s, (IF dialect = "Responses"
                      THEN <<Event("content", c.id, x, c.args)>> ELSE <<>>)
                     \o <<Event("stop", c.id, x, <<>>)>>)

\* They are of the last block.
LEMMA CallEventsBoard ==
    ASSUME NEW h, NEW g, NEW r, NEW P, Board(h, g, r, P), dialect \in {"Anthropic", "Responses"},
           NEW c \in Calls, NEW n \in Nat, n + 1 = Len(r), g[Len(g)] = c.id, Len(g) - 1 \in P,
           NEW d \in Texts, NEW k \in BOOLEAN, NEW u, u = CallEvents(h, c, n, d, k)
    PROVE  /\ Board(u, g, r, IF k THEN P \ {Len(g) - 1} ELSE P)
           /\ Keeps(h, u) /\ SameOpen(h, u)
<1>1. c.id \in Ids /\ c.args \in Texts /\ c.id \in Items
  BY ItemKinds DEF Calls
<1>2. h \in Trans /\ Shows(h, g, r)
  BY DEF Board
<1>3. Ahead(h) \in Nat /\ Len(g) = Ahead(h) + n + 1 /\ (dialect = "Responses" => h.nextIdx = Len(g))
  <2>1. Ahead(h) \in Nat
    BY DEF Ahead, ThinkBlocks, TextBlocks
  <2>2. Len(g) = Ahead(h) + Len(r) /\ (dialect = "Responses" => h.nextIdx = Len(g))
    BY <1>2 DEF Shows
  <2>3. Len(g) = Ahead(h) + n + 1
    BY <2>1, <2>2
  <2> QED BY <2>1, <2>2, <2>3
<1>4. PICK x : x = Len(g) - 1
  OBVIOUS
<1>5. x \in Nat /\ x \in 0..(Len(g) - 1) /\ g[x + 1] = c.id /\ x \in P
  BY <1>3, <1>4
<1>6. ToolIdx(h, n) = x
  <2>1. CASE dialect = "Anthropic"
    <3>1. AllocToolIdx(h, n) = n + Ahead(h)
      BY AllocIs
    <3> QED BY <1>3, <1>4, <2>1, <3>1 DEF ToolIdx
  <2>2. CASE dialect = "Responses"
    <3>1. Saturating(h.nextIdx, 1) = x
      BY <1>3, <1>4, <2>2 DEF Saturating
    <3> QED BY <2>2, <3>1 DEF ToolIdx
  <2> QED BY <2>1, <2>2
<1>7. PICK s : s = IF d = <<>> THEN h ELSE Emit(h, <<Event("delta", c.id, x, d)>>)
  OBVIOUS
<1>8. Board(s, g, r, P) /\ Keeps(h, s) /\ SameOpen(h, s)
  <2>1. CASE d = <<>>
    BY <1>7, <2>1 DEF Keeps, SameOpen
  <2>2. CASE d # <<>>
    <3>1. PICK e : e = Event("delta", c.id, x, d)
      OBVIOUS
    <3>2. e \in Events /\ e.ev \in Inside /\ e.item = c.id /\ e.idx = x
      BY <1>1, <1>5, <3>1, DeltaIs DEF Inside
    <3>3. s = Emit(h, <<e>>)
      BY <1>7, <2>2, <3>1
    <3>4. s \in Trans /\ s.sent = Append(h.sent, e) /\ Keeps(h, s) /\ SameOpen(h, s)
      BY <1>2, <3>2, <3>3, EmitIs
    <3> QED BY <1>5, <3>2, <3>4, BoardBlock
  <2> QED BY <2>1, <2>2
<1>9. CASE ~k
  <2>1. u = s
    BY <1>6, <1>7, <1>9 DEF CallEvents
  <2> QED BY <1>8, <1>9, <2>1
<1>10. CASE k
  <2>1. PICK e : e = Event("stop", c.id, x, <<>>)
    OBVIOUS
  <2>2. e \in Events /\ e.ev = "stop" /\ e.item = c.id /\ e.idx = x
    <3>1. c.id \in Items \cup Marks /\ x \in Int
      BY <1>1, <1>5
    <3> QED BY <2>1, <3>1, EventIs, NoTextIsText
  <2>3. PICK a : a = Event("content", c.id, x, c.args)
    OBVIOUS
  <2>4. a \in Events /\ a.ev \in Inside /\ a.item = c.id /\ a.idx = x
    <3>1. c.id \in Items \cup Marks /\ x \in Int /\ c.args \in Datas
      BY <1>1, <1>5, TextIsData
    <3> QED BY <2>3, <3>1, EventIs DEF Inside
  <2>5. s \in Trans
    BY <1>8 DEF Board
  <2>6. PICK v : /\ Board(v, g, r, P) /\ Keeps(h, v) /\ SameOpen(h, v) /\ u = Emit(v, <<e>>)
    <3>1. CASE dialect = "Responses"
      <4>1. u = Emit(s, <<a>> \o <<e>>)
        BY <1>6, <1>7, <1>10, <2>1, <2>3, <3>1 DEF CallEvents
      <4>2. u = Emit(s, <<a, e>>)
        BY <2>2, <2>4, <4>1, PairIs
      <4>3. PICK v : v = Emit(s, <<a>>)
        OBVIOUS
      <4>4. v \in Trans /\ v.sent = Append(s.sent, a) /\ Keeps(s, v) /\ SameOpen(s, v)
        BY <2>4, <2>5, <4>3, EmitIs
      <4>5. Board(v, g, r, P)
        BY <1>5, <1>8, <2>4, <4>4, BoardBlock
      <4>6. u = Emit(v, <<e>>)
        BY <2>2, <2>4, <2>5, <4>2, <4>3, EmitBoth
      <4>7. Keeps(h, v) /\ SameOpen(h, v)
        BY <1>8, <4>4 DEF Keeps, SameOpen
      <4> QED BY <4>5, <4>6, <4>7
    <3>2. CASE dialect = "Anthropic"
      <4>1. u = Emit(s, <<>> \o <<e>>)
        BY <1>6, <1>7, <1>10, <2>1, <3>2 DEF CallEvents
      <4>2. <<>> \o <<e>> = <<e>>
        BY <2>2, ConcatEmptySeq
      <4> QED BY <1>8, <4>1, <4>2
    <3> QED BY <3>1, <3>2
  <2>7. v \in Trans
    BY <2>6 DEF Board
  <2>8. u \in Trans /\ u.sent = Append(v.sent, e) /\ Keeps(v, u) /\ SameOpen(v, u)
    BY <2>2, <2>6, <2>7, EmitIs
  <2>9. Board(u, g, r, P \ {x})
    BY <1>5, <2>2, <2>6, <2>8, BoardBlock
  <2> QED BY <1>4, <1>10, <2>6, <2>8, <2>9 DEF Keeps, SameOpen
<1> QED BY <1>9, <1>10

\* Reporting a call begins it, unless it was begun, and sends its events.
LEMMA ReportCallIs ==
    ASSUME NEW t \in Trans, NEW c \in Calls, NEW n \in Nat, NEW k \in BOOLEAN,
           NEW u, u = ReportCall(t, c, n, k)
    PROVE  \E g, d : /\ g = [t EXCEPT !.emitted = Noted(t, c)] /\ g \in Trans /\ d \in Texts
                     /\ g.sent = t.sent /\ Keeps(t, g) /\ SameOpen(t, g)
                     /\ u = CallEvents(IF c.id \in t.started THEN g ELSE StartTool(g, c, n),
                                       c, n, d, k)
<1>1. c.id \in Ids /\ c.args \in Texts
  BY DEF Calls
<1>2. PICK b : b = Emitted(t, c.id)
  OBVIOUS
<1>3. PICK d : d = Unsent(b, c.args)
  OBVIOUS
<1>4. d \in Texts
  BY <1>1, <1>2, <1>3, UnsentType
<1>5. PICK w : w = Noted(t, c)
  OBVIOUS
<1>6. w \in UNION {[S -> Texts] : S \in SUBSET Ids}
  BY <1>5, NotedType
<1>7. PICK g : g = [t EXCEPT !.emitted = w]
  OBVIOUS
<1>8. g \in Trans /\ g.sent = t.sent /\ Keeps(t, g) /\ SameOpen(t, g)
  BY <1>6, <1>7 DEF Trans, Translators, Keeps, SameOpen
<1>9. g = IF d # <<>> \/ b = <<>>
             THEN [t EXCEPT !.emitted = [y \in DOMAIN @ \cup {c.id} |->
                                            IF y = c.id THEN c.args ELSE @[y]]]
             ELSE t
  BY <1>2, <1>3, <1>5, <1>7 DEF Noted, Trans, Translators
<1>10. PICK h : h = IF c.id \in t.started THEN g ELSE StartTool(g, c, n)
  OBVIOUS
<1>11. PICK x : x = ToolIdx(h, n)
  OBVIOUS
<1>12. PICK s : s = IF d = <<>> THEN h ELSE Emit(h, <<Event("delta", c.id, x, d)>>)
  OBVIOUS
<1>13. u = IF ~k \/ dialect = "Chat" THEN s
           ELSE Emit(s, (IF dialect = "Responses"
                         THEN <<Event("content", c.id, x, c.args)>> ELSE <<>>)
                        \o <<Event("stop", c.id, x, <<>>)>>)
  BY <1>2, <1>3, <1>9, <1>10, <1>11, <1>12 DEF ReportCall
<1>14. u = CallEvents(h, c, n, d, k)
  BY <1>11, <1>12, <1>13 DEF CallEvents
<1> QED BY <1>4, <1>5, <1>7, <1>8, <1>10, <1>14

\* A part of the last call, which is not complete, or of a new one.
LEMMA FeedToolLaid ==
    ASSUME NEW t, LaidOut(t), dialect \in {"Anthropic", "Responses"},
           NEW p, Part(p), p # NoPart, p.id # NoText, p.id \notin t.completed,
           Distinct(t.out.tools), DoneCalls(t.out.tools, t.completed),
           \A i \in 1..Len(t.out.tools) : t.out.tools[i].id = p.id => i = Len(t.out.tools),
           NEW u, u = FeedTool(t, p)
    PROVE  LaidOut(u) /\ u.textIdx = t.textIdx
<1>0. PICK f : \E O : Laid(t, f, O)
  BY DEF LaidOut
<1>1. PICK O : Laid(t, f, O)
  BY <1>0
<1>2. PICK w : w = t.out.tools
  OBVIOUS
<1>3. /\ Board(t, f, w, O) /\ t \in Trans /\ t.out \in Outs /\ w \in Seq(Calls)
      /\ Shows(t, f, w)
  BY <1>1, <1>2 DEF Laid, Board, Trans, Translators, Outs
<1>4. PICK m \in Trans : \E c \in Calls : FedTool(t, p, u, m, c)
  BY <1>3, FeedToolHeard
<1>5. PICK c \in Calls : FedTool(t, p, u, m, c)
  BY <1>4
<1>6. PICK r : r = Applied(w, p)
  OBVIOUS
<1>7. /\ m.out.tools = r /\ m.out.text = t.out.text /\ m.out.thinking = t.out.thinking
      /\ m.out \in Outs
  <2>1. PICK o : o = apply_tool_call_part(t.out, p)
    OBVIOUS
  <2>2. o \in Outs /\ o.tools = r /\ o.text = t.out.text /\ o.thinking = t.out.thinking
    BY <1>2, <1>3, <1>6, <2>1, ApplyType
  <2> QED BY <1>5, <2>1, <2>2 DEF FedTool
<1>8. PICK K : K = m.completed
  OBVIOUS
<1>9. /\ K = IF p.complete THEN t.completed \cup {p.id} ELSE t.completed
      /\ m.sent = t.sent /\ m.started = t.started
      /\ Len(r) \in Nat \ {0} /\ c = r[Len(r)]
      /\ u = ReportCall(m, c, Len(r) - 1, p.complete)
  BY <1>5, <1>7, <1>8 DEF FedTool
<1>10. /\ m.thinkIdx = t.thinkIdx /\ m.textIdx = t.textIdx /\ m.nextIdx = t.nextIdx
       /\ m.thinkItem = t.thinkItem /\ m.textItem = t.textItem /\ SameOpen(t, m)
  <2>1. m = [t EXCEPT !.out = m.out, !.completed = m.completed]
    BY <1>5 DEF FedTool
  <2> QED BY <1>3, <2>1 DEF Trans, Translators, SameOpen
<1>11. PICK n \in Nat : n = Len(r) - 1
  BY <1>9
<1>12. p.complete \in BOOLEAN
  BY DEF Part
<1>13. PICK g, d : /\ g \in Trans /\ d \in Texts
                   /\ g.sent = m.sent /\ Keeps(m, g) /\ SameOpen(m, g)
                   /\ u = CallEvents(IF c.id \in m.started THEN g ELSE StartTool(g, c, n),
                                     c, n, d, p.complete)
  <2>1. PICK z \in BOOLEAN : z = p.complete
    BY <1>12
  <2>2. u = ReportCall(m, c, n, z)
    BY <1>9, <1>11, <2>1
  <2>3. \E g, d : /\ g = [m EXCEPT !.emitted = Noted(m, c)] /\ g \in Trans /\ d \in Texts
                  /\ g.sent = m.sent /\ Keeps(m, g) /\ SameOpen(m, g)
                  /\ u = CallEvents(IF c.id \in m.started THEN g ELSE StartTool(g, c, n),
                                    c, n, d, z)
    BY <2>2, ReportCallIs
  <2> QED BY <2>1, <2>3
<1>14. /\ g.thinkIdx = t.thinkIdx /\ g.textIdx = t.textIdx /\ g.nextIdx = t.nextIdx
       /\ g.thinkItem = t.thinkItem /\ g.textItem = t.textItem /\ SameOpen(t, g)
       /\ g.sent = t.sent /\ g.started = t.started /\ g.out = m.out /\ g.completed = K
  BY <1>8, <1>9, <1>10, <1>13 DEF Keeps, SameOpen
<1>15. Board(g, f, w, O)
  BY <1>3, <1>13, <1>14 DEF Board, Shows, Ahead, ThinkBlocks, TextBlocks
<1>16. /\ t.thinkOpen <=> t.thinkIdx # NoIdx /\ t.textIdx = NoIdx /\ w = <<>>
       /\ t.textOpen <=> t.textIdx # NoIdx /\ w = <<>>
       /\ t.thinkIdx # NoIdx => t.out.thinking # <<>>
       /\ t.textIdx # NoIdx => t.out.text # <<>>
       /\ t.started = {w[i].id : i \in 1..Len(w)}
       /\ \A x \in 0..(Len(f) - 1) : x \in O <=> OpenBlock(t, f, x)
  BY <1>1, <1>2 DEF Laid
<1>17. /\ Ahead(t) \in Nat /\ Len(f) \in Nat /\ Len(w) \in Nat /\ Len(f) = Ahead(t) + Len(w)
       /\ f \in Seq(Items)
       /\ \A i \in 1..Len(w) : f[Ahead(t) + i] = w[i].id
  <2>1. Ahead(t) \in Nat
    BY DEF Ahead, ThinkBlocks, TextBlocks
  <2> QED BY <1>3, <2>1 DEF Shows
<1>18. PICK h : h = IF c.id \in t.started THEN g ELSE StartTool(g, c, n)
  OBVIOUS
\* After this the last block is that of the call, and open.
<1> DEFINE Ready(k, P) ==
        /\ Board(h, k, r, P) /\ k[Len(k)] = c.id /\ Len(k) - 1 \in P
        /\ ~h.thinkOpen /\ ~h.textOpen /\ h.out = m.out /\ h.completed = K
        /\ h.started = {r[i].id : i \in 1..Len(r)}
        /\ h.thinkIdx = t.thinkIdx /\ h.textIdx = t.textIdx
        /\ \A x \in 0..(Len(k) - 2) :
              x \in P <=> \E i \in 1..(Len(r) - 1) :
                             x = Ahead(t) + i - 1 /\ r[i].id \notin t.completed
        /\ \A i \in 1..(Len(r) - 1) : r[i].id # c.id
        /\ c.id = p.id
<1>19. \E k, P : Ready(k, P)
  <2>1. CASE /\ w # <<>> /\ w[Len(w)].id = p.id
             /\ r = [w EXCEPT ![Len(w)] = Merged(w[Len(w)], p)]
    <3>1. PICK N \in Nat : N = Len(w) /\ N # 0 /\ w[N] \in Calls
      BY <1>3, <2>1
    <3>2. PICK e \in Calls : e = Merged(w[N], p) /\ e.id = p.id
      <4>1. Merged(w[N], p).id = w[N].id
        BY <1>3, <3>1, CallIs
      <4>2. Merged(w[N], p) \in Calls
        BY <3>1, MergedType
      <4> QED BY <2>1, <3>1, <4>1, <4>2
    <3>3. r = [w EXCEPT ![N] = e]
      BY <2>1, <3>1, <3>2
    <3>4. r \in Seq(Calls) /\ Len(r) = N /\ r[N] = e /\ \A i \in 1..(N - 1) : r[i] = w[i]
      <4> HIDE <2>1
      <4> QED BY <1>3, <3>1, <3>3
    <3>5. c = e /\ c.id = p.id
      BY <1>9, <3>2, <3>4
    <3>6. \A i \in 1..N : r[i].id = w[i].id
      BY <2>1, <3>1, <3>4, <3>5
    <3>7. h = g
      <4>1. c.id \in t.started
        BY <1>16, <2>1, <3>1, <3>5
      <4> QED BY <1>18, <4>1
    <3>8. Shows(g, f, r)
      <4>1. Shows(g, f, w)
        BY <1>15 DEF Board
      <4> QED BY <3>1, <3>4, <3>6, <4>1 DEF Shows
    <3>9. Board(h, f, r, O)
      BY <1>15, <3>7, <3>8 DEF Board
    <3>10. f[Len(f)] = c.id /\ Len(f) - 1 \in 0..(Len(f) - 1) /\ Len(f) = Ahead(t) + N
      BY <1>17, <2>1, <3>1, <3>5
    <3>11. Len(f) - 1 \in O
      <4>1. OpenBlock(t, f, Len(f) - 1)
        <5>1. N \in 1..Len(t.out.tools) /\ t.out.tools[N].id \notin t.completed
          BY <1>2, <2>1, <3>1
        <5>2. Len(f) - 1 = Ahead(t) + N - 1
          BY <1>17, <3>1, <3>10
        <5> QED BY <1>2, <2>1, <5>1, <5>2 DEF OpenBlock
      <4> QED BY <1>16, <3>10, <4>1
    <3>12. ~h.thinkOpen /\ ~h.textOpen /\ h.out = m.out /\ h.completed = K
           /\ h.thinkIdx = t.thinkIdx /\ h.textIdx = t.textIdx /\ h.started = t.started
      BY <1>14, <1>16, <2>1, <3>7 DEF SameOpen
    <3>13. h.started = {r[i].id : i \in 1..Len(r)}
      BY <1>16, <3>1, <3>4, <3>6, <3>12
    <3>14. ASSUME NEW x \in 0..(Len(f) - 2)
           PROVE  x \in O <=> \E i \in 1..(Len(r) - 1) :
                                 x = Ahead(t) + i - 1 /\ r[i].id \notin t.completed
      <4>1. x \in O <=> OpenBlock(t, f, x)
        BY <1>16, <1>17
      <4>2. OpenBlock(t, f, x) <=> \E i \in 1..N : x = Ahead(t) + i - 1 /\ w[i].id \notin t.completed
        BY <1>2, <2>1, <3>1 DEF OpenBlock
      <4>3. \A i \in 1..N : x = Ahead(t) + i - 1 => i \in 1..(N - 1)
        BY <1>17, <3>10
      <4>4. \A i \in 1..(N - 1) : i \in 1..N /\ r[i].id = w[i].id
        BY <3>6
      <4> QED BY <3>4, <4>1, <4>2, <4>3, <4>4
    <3>15. \A i \in 1..(Len(r) - 1) : r[i].id # c.id
      BY <1>2, <2>1, <3>1, <3>4, <3>5 DEF Distinct
    <3>16. Ready(f, O)
      BY <3>5, <3>9, <3>10, <3>11, <3>12, <3>13, <3>14, <3>15
    <3> QED BY <3>16
  <2>2. CASE (\A i \in 1..Len(w) : w[i].id # p.id) /\ r = Append(w, NewCall(w, p))
    <3>1. PICK e \in Calls : e = NewCall(w, p) /\ e.id = p.id
      BY <1>3, CallIs
    <3>2. r = Append(w, e)
      BY <2>2, <3>1
    <3>3. r \in Seq(Calls) /\ Len(r) = Len(w) + 1 /\ r[Len(w) + 1] = e
          /\ \A i \in 1..Len(w) : r[i] = w[i]
      BY <1>3, <3>2, AppendProperties
    <3>4. c = e /\ c.id = p.id /\ n = Len(w)
      BY <1>9, <1>11, <1>17, <3>1, <3>3
    <3>5. c.id \notin t.started /\ h = StartTool(g, c, n)
      BY <1>16, <1>18, <2>2, <3>4
    <3>6. w = <<>> => \A x \in 0..(Len(f) - 1) : x \in O <=> x = Len(f) - 1
      BY <1>2, <1>16 DEF OpenBlock
    <3>7. t.thinkOpen => t.thinkIdx = 0 /\ Len(f) = 1 /\ 0 \in O /\ ~t.textOpen
      <4> SUFFICES ASSUME t.thinkOpen PROVE t.thinkIdx = 0 /\ Len(f) = 1 /\ 0 \in O /\ ~t.textOpen
        OBVIOUS
      <4>1. t.thinkIdx # NoIdx /\ t.textIdx = NoIdx /\ w = <<>> /\ Len(w) = 0 /\ ~t.textOpen
        BY <1>16
      <4>2. t.thinkIdx = 0
        BY <1>3, <4>1 DEF Shows
      <4>3. Len(f) = 1
        BY <1>17, <4>1 DEF Ahead, ThinkBlocks, TextBlocks
      <4> QED BY <3>6, <4>1, <4>2, <4>3
    <3>8. t.textOpen => t.textIdx # NoIdx /\ t.textIdx = Len(f) - 1 /\ t.textIdx \in O /\ ~t.thinkOpen
      <4> SUFFICES ASSUME t.textOpen
                   PROVE  t.textIdx # NoIdx /\ t.textIdx = Len(f) - 1 /\ t.textIdx \in O /\ ~t.thinkOpen
        OBVIOUS
      <4>1. t.textIdx # NoIdx /\ w = <<>> /\ Len(w) = 0 /\ ~t.thinkOpen
        BY <1>16
      <4>2. t.textIdx = ThinkBlocks(t) /\ ThinkBlocks(t) \in Nat
        BY <1>3, <4>1 DEF Shows, ThinkBlocks
      <4>3. Len(f) = ThinkBlocks(t) + 1
        BY <1>17, <4>1, <4>2 DEF Ahead, TextBlocks
      <4>4. t.textIdx \in 0..(Len(f) - 1) /\ t.textIdx = Len(f) - 1
        BY <4>2, <4>3
      <4> QED BY <3>6, <4>1, <4>4
    <3>9. CallBegun(g, h, f, w, c, O)
      <4>1. g.thinkOpen = t.thinkOpen /\ g.textOpen = t.textOpen
        BY <1>14 DEF SameOpen
      <4>2. g.thinkOpen => g.thinkIdx = 0 /\ 0 \in O
        BY <1>14, <3>7, <4>1
      <4>3. g.textOpen => g.textIdx # NoIdx /\ g.textIdx \in O /\ ~g.thinkOpen
        BY <1>14, <3>8, <4>1
      <4> QED BY <1>15, <3>4, <3>5, <4>2, <4>3, StartToolBoard
    <3>10. PICK k : k = Append(f, c.id)
      OBVIOUS
    <3>11. Len(k) = Len(f) + 1 /\ k[Len(k)] = c.id
      <4>1. c.id \in Items
        BY ItemKinds DEF Calls
      <4> QED BY <1>17, <3>10, <4>1, AppendProperties
    <3>12. PICK P : P = (O \ ClosedBy(g)) \cup {Len(f)}
      OBVIOUS
    <3>13. /\ Board(h, k, r, P)
           /\ ~h.thinkOpen /\ ~h.textOpen /\ h.out = m.out /\ h.completed = K
           /\ h.started = t.started \cup {c.id} /\ h.thinkIdx = t.thinkIdx /\ h.textIdx = t.textIdx
      BY <1>14, <3>2, <3>4, <3>9, <3>10, <3>12 DEF CallBegun
    <3>14. h.started = {r[i].id : i \in 1..Len(r)}
      <4>1. \A i \in 1..Len(r) : i \in 1..Len(w) \/ i = Len(w) + 1
        BY <1>17, <3>3
      <4>2. {r[i].id : i \in 1..Len(r)} = {w[i].id : i \in 1..Len(w)} \cup {c.id}
        <5>1. \A i \in 1..Len(w) : i \in 1..Len(r) /\ r[i].id = w[i].id
          BY <1>17, <3>3
        <5>2. Len(w) + 1 \in 1..Len(r) /\ r[Len(w) + 1].id = c.id
          BY <1>17, <3>3, <3>4
        <5> QED BY <4>1, <5>1, <5>2
      <4> QED BY <1>16, <3>13, <4>2
    <3>15. ASSUME NEW x \in 0..(Len(k) - 2)
           PROVE  x \in P <=> \E i \in 1..(Len(r) - 1) :
                                 x = Ahead(t) + i - 1 /\ r[i].id \notin t.completed
      <4>1. x \in 0..(Len(f) - 1) /\ x # Len(f) /\ Len(r) - 1 = Len(w)
        BY <1>17, <3>3, <3>11
      <4>2. ClosedBy(g) = ClosedBy(t)
        BY <1>14 DEF ClosedBy, SameOpen
      <4>3. x \in P <=> x \in O /\ x \notin ClosedBy(t)
        BY <3>12, <4>1, <4>2
      <4>4. CASE w = <<>>
        <5>1. 1..Len(w) = {}
          BY <4>4
        <5>2. x \in O => x = Len(f) - 1
          BY <3>6, <4>1, <4>4
        <5>3. Len(f) - 1 \in ClosedBy(t)
          <6>1. t.thinkOpen \/ t.textOpen
            <7>1. Len(f) # 0 /\ Len(f) = Ahead(t)
              BY <1>17, <4>1, <4>4
            <7>2. t.thinkIdx # NoIdx \/ t.textIdx # NoIdx
              BY <7>1 DEF Ahead, ThinkBlocks, TextBlocks
            <7> QED BY <1>16, <4>4, <7>2
          <6>2. CASE t.thinkOpen
            <7>1. Len(f) - 1 = 0
              BY <3>7, <6>2
            <7>2. 0 \in ClosedBy(t)
              BY <6>2 DEF ClosedBy
            <7> QED BY <7>1, <7>2
          <6>3. CASE t.textOpen
            <7>1. t.textIdx \in ClosedBy(t)
              BY <6>3 DEF ClosedBy
            <7> QED BY <3>8, <6>3, <7>1
          <6> QED BY <6>1, <6>2, <6>3
        <5> QED BY <4>1, <4>3, <5>1, <5>2, <5>3
      <4>5. CASE w # <<>>
        <5>1. ClosedBy(t) = {}
          BY <1>16, <4>5 DEF ClosedBy
        <5>2. OpenBlock(t, f, x) <=> \E i \in 1..Len(w) : x = Ahead(t) + i - 1 /\ w[i].id \notin t.completed
          BY <1>2, <4>5 DEF OpenBlock
        <5> QED BY <1>16, <3>3, <4>1, <4>3, <5>1, <5>2
      <4> QED BY <4>4, <4>5
    <3>16. \A i \in 1..(Len(r) - 1) : r[i].id # c.id
      BY <1>17, <2>2, <3>3, <3>4
    <3>17. Len(k) - 1 \in P
      BY <1>17, <3>11, <3>12
    <3>18. Ready(k, P)
      BY <3>4, <3>11, <3>13, <3>14, <3>15, <3>16, <3>17
    <3> QED BY <3>18
  <2> QED BY <1>2, <1>3, <1>6, <2>1, <2>2, AppliedLast
<1> HIDE DEF Ready
<1>20. PICK k, P : Ready(k, P)
  BY <1>19
<1>21. /\ Board(h, k, r, P) /\ k[Len(k)] = c.id /\ Len(k) - 1 \in P
       /\ ~h.thinkOpen /\ ~h.textOpen /\ h.out = m.out /\ h.completed = K
       /\ h.started = {r[i].id : i \in 1..Len(r)}
       /\ h.thinkIdx = t.thinkIdx /\ h.textIdx = t.textIdx /\ c.id = p.id
       /\ \A i \in 1..(Len(r) - 1) : r[i].id # c.id
  BY <1>20 DEF Ready
<1>22. \A x \in 0..(Len(k) - 2) :
           x \in P <=> \E i \in 1..(Len(r) - 1) :
                          x = Ahead(t) + i - 1 /\ r[i].id \notin t.completed
  BY <1>20 DEF Ready
<1>23. PICK z \in BOOLEAN : z = p.complete
  BY <1>12
<1>24. u = CallEvents(h, c, n, d, z)
  BY <1>9, <1>13, <1>18, <1>23
<1>25. PICK Q : Q = IF z THEN P \ {Len(k) - 1} ELSE P
  OBVIOUS
<1>26. Board(u, k, r, Q) /\ Keeps(h, u) /\ SameOpen(h, u)
  <2>1. n + 1 = Len(r) /\ d \in Texts
    BY <1>9, <1>11, <1>13
  <2>2. Board(h, k, r, P) /\ k[Len(k)] = c.id /\ Len(k) - 1 \in P
    BY <1>21
  <2>3. /\ Board(u, k, r, IF z THEN P \ {Len(k) - 1} ELSE P)
        /\ Keeps(h, u) /\ SameOpen(h, u)
    BY <1>24, <2>1, <2>2, CallEventsBoard
  <2> QED BY <1>25, <2>3
<1>27. /\ u.out = m.out /\ u.completed = K /\ ~u.thinkOpen /\ ~u.textOpen
       /\ u.started = {r[i].id : i \in 1..Len(r)}
       /\ u.thinkIdx = t.thinkIdx /\ u.textIdx = t.textIdx /\ u.out.tools = r /\ r # <<>>
  BY <1>7, <1>9, <1>21, <1>26 DEF Keeps, SameOpen
<1>28. Ahead(u) = Ahead(t)
  BY <1>27 DEF Ahead, ThinkBlocks, TextBlocks
<1>29. Len(k) = Ahead(t) + Len(r)
  BY <1>21, <1>26, <1>28 DEF Board, Shows
<1>30. ASSUME NEW x \in 0..(Len(k) - 1) PROVE x \in Q <=> OpenBlock(u, k, x)
  <2>1. OpenBlock(u, k, x) <=> \E i \in 1..Len(r) : x = Ahead(t) + i - 1 /\ r[i].id \notin K
    BY <1>27, <1>28 DEF OpenBlock
  <2>2. CASE x = Len(k) - 1
    <3>1. \A i \in 1..Len(r) : x = Ahead(t) + i - 1 <=> i = Len(r)
      BY <1>9, <1>17, <1>29, <2>2
    <3>2. Len(r) \in 1..Len(r)
      BY <1>9
    <3>3. OpenBlock(u, k, x) <=> p.id \notin K
      BY <1>9, <1>21, <2>1, <3>1, <3>2
    <3>4. p.id \notin K <=> ~z
      BY <1>9, <1>23
    <3>5. x \in Q <=> ~z
      BY <1>21, <1>25, <2>2
    <3> QED BY <3>3, <3>4, <3>5
  <2>3. CASE x # Len(k) - 1
    <3>1. x \in 0..(Len(k) - 2)
      BY <1>9, <1>17, <1>29, <2>3
    <3>2. \A i \in 1..Len(r) : x = Ahead(t) + i - 1 => i \in 1..(Len(r) - 1)
      BY <1>9, <1>17, <1>29, <2>3
    <3>3. \A i \in 1..(Len(r) - 1) : i \in 1..Len(r) /\ (r[i].id \notin K <=> r[i].id \notin t.completed)
      BY <1>9, <1>21
    <3>4. x \in Q <=> x \in P
      BY <1>25, <2>3
    <3> QED BY <1>22, <2>1, <3>1, <3>2, <3>3, <3>4
  <2> QED BY <2>2, <2>3
<1>31. Laid(u, k, Q)
  BY <1>7, <1>16, <1>26, <1>27, <1>30 DEF Laid
<1> QED BY <1>27, <1>31 DEF LaidOut

-----------------------------------------------------------------------------
(* The end of an answer. *)

\* The block x is that of a call that is not complete.
CallOpen(t, x) ==
    \E i \in 1..Len(t.out.tools) :
        x = Ahead(t) + i - 1 /\ t.out.tools[i].id \notin t.completed

\* Which blocks are open when the last part of a frame comes.
LEMMA LaidOpen ==
    ASSUME NEW t, NEW f, NEW O, Laid(t, f, O)
    PROVE  /\ t.thinkOpen => t.thinkIdx = 0 /\ 0 \in O
           /\ t.textOpen => t.textIdx # NoIdx /\ t.textIdx \in O /\ ~t.thinkOpen
           /\ \A x \in 0..(Len(f) - 1) : x \in O /\ x \notin ClosedBy(t) <=> CallOpen(t, x)
<1>1. PICK w : w = t.out.tools
  OBVIOUS
<1>2. /\ Board(t, f, w, O) /\ t \in Trans /\ w \in Seq(Calls) /\ Shows(t, f, w)
  BY <1>1 DEF Laid, Board, Trans, Translators, Outs
<1>3. /\ t.thinkOpen <=> t.thinkIdx # NoIdx /\ t.textIdx = NoIdx /\ w = <<>>
      /\ t.textOpen <=> t.textIdx # NoIdx /\ w = <<>>
      /\ \A x \in 0..(Len(f) - 1) : x \in O <=> OpenBlock(t, f, x)
  BY <1>1 DEF Laid
<1>4. Ahead(t) \in Nat /\ Len(f) \in Nat /\ Len(w) \in Nat /\ Len(f) = Ahead(t) + Len(w)
  <2>1. Ahead(t) \in Nat
    BY DEF Ahead, ThinkBlocks, TextBlocks
  <2> QED BY <1>2, <2>1 DEF Shows
<1>5. w = <<>> => \A x \in 0..(Len(f) - 1) : x \in O <=> x = Len(f) - 1
  BY <1>1, <1>3 DEF OpenBlock
<1>6. t.thinkOpen => t.thinkIdx = 0 /\ Len(f) = 1 /\ 0 \in O
  <2> SUFFICES ASSUME t.thinkOpen PROVE t.thinkIdx = 0 /\ Len(f) = 1 /\ 0 \in O
    OBVIOUS
  <2>1. t.thinkIdx # NoIdx /\ t.textIdx = NoIdx /\ w = <<>> /\ Len(w) = 0
    BY <1>3
  <2>2. t.thinkIdx = 0
    BY <1>2, <2>1 DEF Shows
  <2>3. Len(f) = 1
    BY <1>4, <2>1 DEF Ahead, ThinkBlocks, TextBlocks
  <2> QED BY <1>5, <2>1, <2>2, <2>3
<1>7. t.textOpen => t.textIdx # NoIdx /\ t.textIdx = Len(f) - 1 /\ t.textIdx \in O /\ ~t.thinkOpen
  <2> SUFFICES ASSUME t.textOpen
               PROVE  t.textIdx # NoIdx /\ t.textIdx = Len(f) - 1 /\ t.textIdx \in O /\ ~t.thinkOpen
    OBVIOUS
  <2>1. t.textIdx # NoIdx /\ w = <<>> /\ Len(w) = 0 /\ ~t.thinkOpen
    BY <1>3
  <2>2. t.textIdx = ThinkBlocks(t) /\ ThinkBlocks(t) \in Nat
    BY <1>2, <2>1 DEF Shows, ThinkBlocks
  <2>3. Len(f) = ThinkBlocks(t) + 1
    BY <1>4, <2>1, <2>2 DEF Ahead, TextBlocks
  <2>4. t.textIdx \in 0..(Len(f) - 1) /\ t.textIdx = Len(f) - 1
    BY <2>2, <2>3
  <2> QED BY <1>5, <2>1, <2>4
<1>8. ASSUME NEW x \in 0..(Len(f) - 1) PROVE x \in O /\ x \notin ClosedBy(t) <=> CallOpen(t, x)
  <2>1. CASE w = <<>>
    <3>1. ~CallOpen(t, x)
      BY <1>1, <2>1 DEF CallOpen
    <3>2. x \in O => x = Len(f) - 1
      BY <1>5, <2>1
    <3>3. Len(f) - 1 \in ClosedBy(t)
      <4>1. t.thinkOpen \/ t.textOpen
        <5>1. Len(f) # 0 /\ Len(f) = Ahead(t)
          BY <1>4, <2>1
        <5>2. t.thinkIdx # NoIdx \/ t.textIdx # NoIdx
          BY <5>1 DEF Ahead, ThinkBlocks, TextBlocks
        <5> QED BY <1>3, <2>1, <5>2
      <4>2. CASE t.thinkOpen
        <5>1. Len(f) - 1 = 0
          BY <1>6, <4>2
        <5>2. 0 \in ClosedBy(t)
          BY <4>2 DEF ClosedBy
        <5> QED BY <5>1, <5>2
      <4>3. CASE t.textOpen
        <5>1. t.textIdx \in ClosedBy(t)
          BY <4>3 DEF ClosedBy
        <5> QED BY <1>7, <4>3, <5>1
      <4> QED BY <4>1, <4>2, <4>3
    <3> QED BY <3>1, <3>2, <3>3
  <2>2. CASE w # <<>>
    <3>1. ClosedBy(t) = {}
      BY <1>3, <2>2 DEF ClosedBy
    <3>2. OpenBlock(t, f, x) <=> CallOpen(t, x)
      BY <1>1, <2>2 DEF OpenBlock, CallOpen
    <3> QED BY <1>3, <3>1, <3>2
  <2> QED BY <2>1, <2>2
<1> QED BY <1>6, <1>7, <1>8

\* From t to c the blocks of thinking and text are closed.
FrontClosed(t, c, f, Q) ==
    /\ Board(c, f, c.out.tools, Q) /\ Keeps(t, c)
    /\ \A x \in 0..(Len(f) - 1) : x \in Q <=> CallOpen(c, x)

\* CloseThinking and CloseText do that.
LEMMA FrontCloses ==
    ASSUME NEW t, NEW f, NEW O, Laid(t, f, O), NEW c, c = CloseText(CloseThinking(t))
    PROVE  \E Q : FrontClosed(t, c, f, Q)
<1>1. /\ t.thinkOpen => t.thinkIdx = 0 /\ 0 \in O
      /\ t.textOpen => t.textIdx # NoIdx /\ t.textIdx \in O /\ ~t.thinkOpen
  BY LaidOpen
<1>2. \A x \in 0..(Len(f) - 1) : x \in O /\ x \notin ClosedBy(t) <=> CallOpen(t, x)
  BY LaidOpen
<1>3. PICK w : w = t.out.tools
  OBVIOUS
<1>4. Board(t, f, w, O)
  BY <1>3 DEF Laid
<1>5. PICK h : h = CloseThinking(t)
  OBVIOUS
<1>6. PICK P : P = IF t.thinkOpen THEN O \ {0} ELSE O
  OBVIOUS
<1>7. Board(h, f, w, P) /\ Keeps(t, h) /\ ~h.thinkOpen /\ h.textOpen = t.textOpen
  BY <1>1, <1>4, <1>5, <1>6, CloseThinkingBoard
<1>8. h.textIdx = t.textIdx
  BY <1>7 DEF Keeps
<1>9. PICK Q : Q = IF h.textOpen THEN P \ {h.textIdx} ELSE P
  OBVIOUS
<1>10. c = CloseText(h)
  BY <1>5
<1>11. h.textOpen => h.textIdx # NoIdx /\ h.textIdx \in P
  BY <1>1, <1>6, <1>7, <1>8
<1>12. Board(c, f, w, Q) /\ Keeps(h, c)
  BY <1>7, <1>9, <1>10, <1>11, CloseTextBoard
<1>13. Keeps(t, c)
  BY <1>7, <1>12 DEF Keeps
<1>14. c.out.tools = w /\ \A x : CallOpen(c, x) <=> CallOpen(t, x)
  BY <1>3, <1>13 DEF Keeps, CallOpen, Ahead, ThinkBlocks, TextBlocks
<1>15. \A x : x \in Q <=> x \in O /\ x \notin ClosedBy(t)
  BY <1>6, <1>7, <1>8, <1>9 DEF ClosedBy
<1> QED BY <1>2, <1>12, <1>13, <1>14, <1>15 DEF FrontClosed

\* What is known of the completed calls when the indexes of Responses are right.
CountsRight(t) ==
    dialect = "Responses" =>
        t.completed \in {{}, {t.out.tools[i].id : i \in 1..Len(t.out.tools)}}

\* A call is stopped under the index it was begun with.
LEMMA StopIdxIs ==
    ASSUME NEW c \in Trans, NEW f, Shows(c, f, c.out.tools), dialect \in {"Anthropic", "Responses"},
           CountsRight(c), NEW i \in 1..Len(c.out.tools), c.out.tools[i].id \notin c.completed
    PROVE  StopIdx(c, i) = Ahead(c) + i - 1
<1>1. PICK w : w = c.out.tools
  OBVIOUS
<1>2. w \in Seq(Calls) /\ i \in 1..Len(w) /\ Len(w) \in Nat /\ DOMAIN w = 1..Len(w)
  BY <1>1 DEF Trans, Translators, Outs
<1>3. Ahead(c) \in Nat
  BY DEF Ahead, ThinkBlocks, TextBlocks
<1>4. CASE dialect = "Anthropic"
  <2>1. i - 1 \in Nat
    BY <1>2
  <2>2. AllocToolIdx(c, i - 1) = (i - 1) + Ahead(c)
    BY <2>1, AllocIs
  <2> QED BY <1>2, <1>3, <1>4, <2>2 DEF StopIdx
<1>5. CASE dialect = "Responses"
  <2>1. c.completed = {}
    BY <1>1, <1>2, <1>5 DEF CountsRight
  <2>2. PICK open : open = {j \in DOMAIN w : w[j].id \notin c.completed}
    OBVIOUS
  <2>3. open = 1..Len(w)
    BY <1>2, <2>1, <2>2
  <2>4. Cardinality(open) = Len(w)
    BY <1>2, <2>3, FS_Interval
  <2>5. c.nextIdx = Ahead(c) + Len(w)
    BY <1>1, <1>5 DEF Shows
  <2>6. Saturating(c.nextIdx, Cardinality(open)) = Ahead(c)
    BY <1>2, <1>3, <2>4, <2>5 DEF Saturating
  <2>7. StopIdx(c, i) = Saturating(c.nextIdx, Cardinality(open)) + (i - 1)
    BY <1>1, <1>5, <2>2 DEF StopIdx
  <2> QED BY <1>2, <1>3, <2>6, <2>7
<1> QED BY <1>4, <1>5

\* The open blocks of calls from the j-th on.
Left(c, j) == {x \in Nat : x >= Ahead(c) + j /\ CallOpen(c, x)}

\* The events for one call stop its block.
LEMMA StopOne ==
    ASSUME NEW c \in Trans, NEW f, Shows(c, f, c.out.tools), dialect \in {"Anthropic", "Responses"},
           CountsRight(c), NEW j \in Nat, j < Len(c.out.tools),
           NEW s \in Seq(Events), Tidy(s, f, Left(c, j)), NEW e, e = StopEvents(c, j + 1)
    PROVE  e \in Seq(Events) /\ Tidy(s \o e, f, Left(c, j + 1))
<1>1. PICK w : w = c.out.tools
  OBVIOUS
<1>2. w \in Seq(Calls) /\ Len(w) \in Nat
  BY <1>1 DEF Trans, Translators, Outs
<1>3. PICK i \in 1..Len(w) : i = j + 1
  BY <1>1, <1>2
<1>4. PICK n \in Nat : n = Ahead(c)
  BY DEF Ahead, ThinkBlocks, TextBlocks
<1>5. PICK x \in Nat : x = n + j
  OBVIOUS
<1>6. /\ f \in Seq(Items) /\ x \in 0..(Len(f) - 1) /\ f[x + 1] = w[i].id
  <2>1. f \in Seq(Items) /\ Len(f) = n + Len(w) /\ f[n + i] = w[i].id
    BY <1>1, <1>3, <1>4 DEF Shows
  <2>2. n + i = x + 1
    BY <1>3, <1>5
  <2> QED BY <1>2, <1>3, <1>5, <2>1, <2>2
<1>7. CallOpen(c, x) <=> w[i].id \notin c.completed
  <2>1. \A k \in 1..Len(w) : x = n + k - 1 <=> k = i
    BY <1>2, <1>3, <1>5
  <2> QED BY <1>1, <1>4, <2>1 DEF CallOpen
<1>8. x \in Left(c, j) <=> w[i].id \notin c.completed
  BY <1>4, <1>5, <1>7 DEF Left
<1>9. Left(c, j + 1) = Left(c, j) \ {x}
  BY <1>4, <1>5 DEF Left
<1>10. PICK R : R = Left(c, j)
  OBVIOUS
<1>11. CASE w[i].id \in c.completed
  <2>1. e = <<>>
    BY <1>1, <1>3, <1>11, StopEventsIs
  <2>2. s \o e = s /\ e \in Seq(Events)
    BY <2>1, ConcatEmptySeq, EmptySeq
  <2>3. Left(c, j + 1) = Left(c, j)
    BY <1>8, <1>9, <1>11
  <2> QED BY <2>2, <2>3
<1>12. CASE w[i].id \notin c.completed
  <2>1. StopIdx(c, i) = x
    <3>1. StopIdx(c, i) = Ahead(c) + i - 1
      BY <1>1, <1>12, StopIdxIs
    <3> QED BY <1>3, <1>4, <1>5, <3>1
  <2>2. PICK a : a = Event("content", w[i].id, x, w[i].args)
    OBVIOUS
  <2>3. PICK b : b = Event("stop", w[i].id, x, <<>>)
    OBVIOUS
  <2>4. w[i].id \in Items \cup Marks /\ w[i].args \in Datas
    <3>1. PICK g \in Calls : g = w[i]
      BY <1>2
    <3>2. g.id \in Ids /\ g.args \in Texts
      BY DEF Calls
    <3> QED BY <3>1, <3>2, ItemKinds, TextIsData
  <2>5. a \in Events /\ a.ev \in Inside /\ a.idx = x /\ a.item = f[x + 1]
    BY <1>6, <2>2, <2>4, EventIs DEF Inside
  <2>6. b \in Events /\ b.ev = "stop" /\ b.idx = x /\ b.item = f[x + 1]
    BY <1>6, <2>3, <2>4, EventIs, NoTextIsText
  <2>7. e = IF dialect = "Responses" THEN <<a, b>> ELSE <<b>>
    <3>1. dialect = "Responses" => e = <<a, b>>
      BY <1>1, <1>3, <1>12, <2>1, <2>2, <2>3, StopEventsIs
    <3>2. dialect # "Responses" => e = <<b>>
      BY <1>1, <1>3, <1>12, <2>1, <2>3, StopEventsIs
    <3> QED BY <3>1, <3>2
  <2>8. x \in R /\ Tidy(s, f, R)
    BY <1>8, <1>10, <1>12
  <2>9. CASE dialect = "Responses"
    <3>1. PICK p : p = Append(s, a)
      OBVIOUS
    <3>2. p \in Seq(Events) /\ p = s \o <<a>>
      BY <2>5, <3>1, AppendProperties, AppendIsConcat
    <3>3. Tidy(p, f, R)
      BY <1>6, <2>5, <2>8, <3>1, TidyBlock
    <3>4. Tidy(Append(p, b), f, R \ {x})
      BY <1>6, <2>6, <2>8, <3>2, <3>3, TidyBlock
    <3>5. e \in Seq(Events) /\ s \o e = Append(p, b)
      <4>1. e = <<a>> \o <<b>> /\ <<a>> \in Seq(Events) /\ <<b>> \in Seq(Events)
        BY <2>5, <2>6, <2>7, <2>9, PairIs
      <4>2. s \o (<<a>> \o <<b>>) = (s \o <<a>>) \o <<b>>
        <5>1. <<a>> \in Seq(Events) /\ <<b>> \in Seq(Events)
          BY <4>1
        <5> HIDE <2>2, <2>3, <2>7, <4>1
        <5> QED BY <5>1, ConcatAssociative
      <4>3. Append(p, b) = p \o <<b>>
        BY <2>6, <3>2, AppendIsConcat
      <4> QED BY <3>2, <4>1, <4>2, <4>3, ConcatProperties
    <3> QED BY <1>9, <1>10, <3>4, <3>5
  <2>10. CASE dialect # "Responses"
    <3>1. Tidy(Append(s, b), f, R \ {x})
      BY <1>6, <2>6, <2>8, TidyBlock
    <3>2. e \in Seq(Events) /\ s \o e = Append(s, b)
      <4>1. e = <<b>>
        BY <2>7, <2>10
      <4>2. Append(s, b) = s \o <<b>> /\ <<b>> \in Seq(Events)
        <5> HIDE <2>3, <2>7, <4>1
        <5> QED BY <2>6, AppendIsConcat
      <4> QED BY <4>1, <4>2
    <3> QED BY <1>9, <1>10, <3>1, <3>2
  <2> QED BY <2>9, <2>10
<1> QED BY <1>11, <1>12

\* Events sent one after the other.
LEMMA JoinEvents ==
    \A a, b, c \in Seq(Events) : (a \o b) \o c = a \o (b \o c)
<1> SUFFICES ASSUME NEW a \in Seq(Events), NEW b \in Seq(Events), NEW c \in Seq(Events)
             PROVE  (a \o b) \o c = a \o (b \o c)
  OBVIOUS
<1> QED BY ConcatAssociative

\* The events for all the calls stop all the blocks.
LEMMA StopsTidy ==
    ASSUME NEW c \in Trans, NEW f, Shows(c, f, c.out.tools), dialect \in {"Anthropic", "Responses"},
           CountsRight(c), Tidy(c.sent, f, Left(c, 0)), NEW u, u = StopTools(c)
    PROVE  Tidy(u.sent, f, {}) /\ Keeps(c, u)
<1>1. PICK N \in Nat : N = Len(c.out.tools)
  BY DEF Trans, Translators, Outs
<1>2. c.sent \in Seq(Events) /\ c \in Translators
  BY DEF Trans, Translators
<1> DEFINE E(j) == [i \in 1..j |-> StopEvents(c, i)]
           P(j) == /\ E(j) \in Seq(Seq(Events)) /\ Len(E(j)) = j
                   /\ Tidy(c.sent \o FlattenSeq(E(j)), f, Left(c, j))
           S == {j \in Nat : j <= N => P(j)}
<1>3. P(0)
  <2>1. E(0) = <<>>
    OBVIOUS
  <2>2. FlattenSeq(E(0)) = <<>>
    BY <2>1, FlattenNone
  <2>3. c.sent \o FlattenSeq(E(0)) = c.sent
    BY <1>2, <2>2, ConcatEmptySeq
  <2>4. E(0) \in Seq(Seq(Events)) /\ Len(E(0)) = 0
    BY <2>1, EmptySeq
  <2> QED BY <2>3, <2>4
<1>4. ASSUME NEW j \in Nat, j \in S PROVE j + 1 \in S
  <2> SUFFICES ASSUME j + 1 <= N PROVE P(j + 1)
    OBVIOUS
  <2>1. P(j)
    BY <1>4
  <2>2. PICK e : e = StopEvents(c, j + 1)
    OBVIOUS
  <2>3. PICK s : s = c.sent \o FlattenSeq(E(j))
    OBVIOUS
  <2>4. FlattenSeq(E(j)) \in Seq(Events)
    <3> HIDE DEF E
    <3> QED BY <2>1, FlattenType
  <2>5. s \in Seq(Events)
    BY <1>2, <2>3, <2>4, ConcatProperties
  <2>6. e \in Seq(Events) /\ Tidy(s \o e, f, Left(c, j + 1))
    <3>1. j < Len(c.out.tools) /\ Tidy(s, f, Left(c, j))
      BY <1>1, <2>1, <2>3
    <3> QED BY <2>2, <2>5, <3>1, StopOne
  <2>7. PICK g : g = E(j)
    OBVIOUS
  <2>8. g \in Seq(Seq(Events)) /\ Len(g) = j /\ \A i \in 1..j : g[i] = StopEvents(c, i)
    BY <2>1, <2>7
  <2>9. PICK k : k = Append(g, e)
    OBVIOUS
  <2>10. k \in Seq(Seq(Events)) /\ Len(k) = j + 1
    <3> HIDE DEF P, E, S
    <3> QED BY <2>6, <2>8, <2>9, AppendProperties
  <2>11. \A i \in 1..j + 1 : k[i] = StopEvents(c, i)
    <3> SUFFICES ASSUME NEW i \in 1..j + 1 PROVE k[i] = StopEvents(c, i)
      OBVIOUS
    <3> HIDE DEF P, E, S
    <3>1. k[j + 1] = e /\ \A l \in 1..j : k[l] = g[l]
      BY <2>6, <2>8, <2>9, AppendProperties
    <3>2. i \in 1..j \/ i = j + 1
      OBVIOUS
    <3> QED BY <2>2, <2>8, <3>1, <3>2
  <2>12. E(j + 1) = k
    BY <2>10, <2>11
  <2>13. FlattenSeq(k) = FlattenSeq(g) \o e
    BY <2>6, <2>8, <2>9, FlattenAppend
  <2>14. c.sent \o FlattenSeq(k) = s \o e
    <3>1. PICK h \in Seq(Events) : h = FlattenSeq(g)
      BY <2>4, <2>7
    <3>2. (c.sent \o h) \o e = c.sent \o (h \o e)
      BY <1>2, <2>6, JoinEvents, Zenon
    <3>3. s = c.sent \o h /\ FlattenSeq(k) = h \o e
      BY <2>3, <2>7, <2>13, <3>1
    <3> HIDE DEF P, E, S
    <3> QED BY <3>2, <3>3
  <2>15. /\ E(j + 1) \in Seq(Seq(Events)) /\ Len(E(j + 1)) = j + 1
         /\ Tidy(c.sent \o FlattenSeq(E(j + 1)), f, Left(c, j + 1))
    <3> HIDE DEF E
    <3> QED BY <2>6, <2>10, <2>12, <2>14
  <2> HIDE DEF E
  <2> QED BY <2>15
<1>5. 0 \in S
  BY <1>3
<1> HIDE DEF S, P
<1>6. N \in S
  BY <1>4, <1>5, AllNat
<1>7. P(N)
  BY <1>6 DEF S
<1>8. PICK q : q = FlattenSeq(E(N))
  OBVIOUS
<1>9. Tidy(c.sent \o q, f, Left(c, N))
  BY <1>7, <1>8 DEF P
<1>10. q = FlattenSeq([i \in 1..Len(c.out.tools) |-> StopEvents(c, i)])
  BY <1>1, <1>8
<1> HIDE DEF E
<1>11. u = Emit(c, q)
  BY <1>10, StopToolsIs
<1>12. u.sent = c.sent \o q /\ Keeps(c, u)
  BY <1>2, <1>11 DEF Emit, Translators, Keeps
<1>13. Left(c, N) = {}
  <2>1. Ahead(c) \in Nat
    BY DEF Ahead, ThinkBlocks, TextBlocks
  <2> QED BY <1>1, <2>1 DEF Left, CallOpen
<1> QED BY <1>9, <1>12, <1>13

\* The content of an answer names its thinking, its text and its calls.
LEMMA ContentHas ==
    ASSUME NEW o \in Outs, NEW k, NEW C, C = Content(o, k)
    PROVE  /\ o.thinking # <<>> => \E i \in DOMAIN C : C[i][1] = "thinking"
           /\ o.text # <<>> => \E i \in DOMAIN C : C[i][1] = "text"
           /\ \A j \in 1..Len(o.tools) :
                \E i \in DOMAIN C : C[i][1] = "call" /\ C[i][2] = o.tools[j].id
<1>1. o.thinking \in Texts /\ o.text \in Texts /\ o.tools \in Seq(Calls)
  BY DEF Outs
<1>2. PICK a : a = IF o.thinking = <<>> THEN <<>> ELSE <<<<"thinking", o.thinking>>>>
  OBVIOUS
<1>3. PICK h : h = CASE k = "Anthropic" -> o.thinking = <<>> /\ o.tools = <<>>
                     [] k = "Responses" -> o.thinking = <<>> /\ o.tools = <<>>
                     [] OTHER -> FALSE
  OBVIOUS
<1>4. PICK b : b = IF o.text # <<>> \/ h THEN <<<<"text", o.text>>>> ELSE <<>>
  OBVIOUS
<1>5. PICK c : c = [i \in DOMAIN o.tools |-> <<"call", o.tools[i].id, o.tools[i].args>>]
  OBVIOUS
<1>6. C = a \o b \o c
  BY <1>2, <1>3, <1>4, <1>5, Zenon DEF Content
<1>7. PICK A : A = {<<"thinking", o.thinking>>, <<"text", o.text>>}
                   \cup {<<"call", o.tools[i].id, o.tools[i].args>> : i \in DOMAIN o.tools}
  OBVIOUS
<1>8. a \in Seq(A) /\ (o.thinking # <<>> => Len(a) = 1 /\ a[1][1] = "thinking")
  <2>1. PICK p : p = <<"thinking", o.thinking>>
    OBVIOUS
  <2>2. p \in A /\ p[1] = "thinking"
    BY <1>7, <2>1
  <2>3. /\ o.thinking = <<>> => a = <<>>
        /\ o.thinking # <<>> => a = <<p>>
    BY <1>2, <2>1
  <2>4. <<p>> \in Seq(A) /\ <<>> \in Seq(A) /\ Len(<<p>>) = 1 /\ <<p>>[1] = p
    <3> HIDE <1>7, <2>1
    <3> QED BY <2>2, OneIsSeq
  <2> QED BY <2>2, <2>3, <2>4
<1>9. b \in Seq(A) /\ (o.text # <<>> => Len(b) = 1 /\ b[1][1] = "text")
  <2>1. PICK p : p = <<"text", o.text>>
    OBVIOUS
  <2>2. p \in A /\ p[1] = "text"
    BY <1>7, <2>1
  <2>3. /\ b = <<>> \/ b = <<p>>
        /\ o.text # <<>> => b = <<p>>
    BY <1>4, <2>1
  <2>4. <<p>> \in Seq(A) /\ <<>> \in Seq(A) /\ Len(<<p>>) = 1 /\ <<p>>[1] = p
    <3> HIDE <1>7, <2>1
    <3> QED BY <2>2, OneIsSeq
  <2> QED BY <2>2, <2>3, <2>4
<1>10. /\ c \in Seq(A) /\ Len(c) = Len(o.tools)
       /\ \A j \in 1..Len(o.tools) : c[j][1] = "call" /\ c[j][2] = o.tools[j].id
  <2>1. DOMAIN o.tools = 1..Len(o.tools) /\ Len(o.tools) \in Nat
    BY <1>1
  <2>2. \A j \in 1..Len(o.tools) : <<"call", o.tools[j].id, o.tools[j].args>> \in A
    BY <1>7, <2>1
  <2>3. c \in Seq(A) /\ Len(c) = Len(o.tools)
    BY <1>5, <2>1, <2>2
  <2>4. \A j \in 1..Len(o.tools) : c[j] = <<"call", o.tools[j].id, o.tools[j].args>>
    BY <1>5, <2>1
  <2> QED BY <2>3, <2>4
<1>11. PICK d : d = a \o b
  OBVIOUS
<1> HIDE <1>2, <1>4, <1>5, <1>7
<1>12. /\ d \in Seq(A) /\ Len(d) = Len(a) + Len(b)
       /\ \A i \in 1..Len(a) : d[i] = a[i]
       /\ \A i \in 1..Len(b) : d[Len(a) + i] = b[i]
  BY <1>8, <1>9, <1>11, ConcatProperties
<1>13. C = d \o c
  BY <1>6, <1>11
<1>14. /\ C \in Seq(A) /\ Len(C) = Len(d) + Len(c)
       /\ \A i \in 1..Len(d) : C[i] = d[i]
       /\ \A i \in 1..Len(c) : C[Len(d) + i] = c[i]
  <2>1. PICK D : D = d \o c
    OBVIOUS
  <2>2. d \in Seq(A) /\ c \in Seq(A)
    BY <1>10, <1>12
  <2>3. /\ D \in Seq(A) /\ Len(D) = Len(d) + Len(c)
        /\ \A i \in 1..Len(d) : D[i] = d[i]
        /\ \A i \in 1..Len(c) : D[Len(d) + i] = c[i]
    BY <2>1, <2>2, ConcatProperties
  <2> QED BY <1>13, <2>1, <2>3
<1>15. /\ DOMAIN C = 1..Len(C) /\ Len(a) \in Nat /\ Len(b) \in Nat /\ Len(c) \in Nat
       /\ Len(d) \in Nat
  BY <1>8, <1>9, <1>10, <1>12, <1>14
<1>16. ASSUME o.thinking # <<>> PROVE \E i \in DOMAIN C : C[i][1] = "thinking"
  <2>1. 1 \in DOMAIN C /\ 1 \in 1..Len(d) /\ 1 \in 1..Len(a)
    BY <1>8, <1>12, <1>14, <1>15, <1>16
  <2>2. C[1] = a[1]
    BY <1>12, <1>14, <2>1
  <2> QED BY <1>8, <1>16, <2>1, <2>2
<1>17. ASSUME o.text # <<>> PROVE \E i \in DOMAIN C : C[i][1] = "text"
  <2>1. Len(a) + 1 \in DOMAIN C /\ Len(a) + 1 \in 1..Len(d) /\ 1 \in 1..Len(b)
    BY <1>9, <1>12, <1>14, <1>15, <1>17
  <2>2. C[Len(a) + 1] = b[1]
    BY <1>12, <1>14, <2>1
  <2> QED BY <1>9, <1>17, <2>1, <2>2
<1>18. ASSUME NEW j \in 1..Len(o.tools)
       PROVE  \E i \in DOMAIN C : C[i][1] = "call" /\ C[i][2] = o.tools[j].id
  <2>1. Len(d) + j \in DOMAIN C /\ j \in 1..Len(c)
    BY <1>10, <1>14, <1>15
  <2>2. C[Len(d) + j] = c[j]
    BY <1>14, <2>1
  <2> QED BY <1>10, <2>1, <2>2
<1> QED BY <1>16, <1>17, <1>18

\* The last event names an item.
Named(s, v) == \E k \in DOMAIN s[Len(s)].data : s[Len(s)].data[k] = v

\* Every block is stopped, and those of Responses are named by the last event.
SettledBy(s, f) ==
    /\ Tidy(s, f, {})
    /\ dialect = "Responses" => \A x \in 0..(Len(f) - 1) : Named(s, f[x + 1])
Settled(s) == \E f : SettledBy(s, f)

\* finalize_events stops every block.
LEMMA FinalizeSettled ==
    ASSUME NEW t, LaidOut(t), dialect \in {"Anthropic", "Responses"}, CountsRight(t),
           NEW u, u = finalize_events(t)
    PROVE  Settled(u.sent)
<1>0. PICK f : \E O : Laid(t, f, O)
  BY DEF LaidOut
<1>1. PICK O : Laid(t, f, O)
  BY <1>0
<1>2. /\ t \in Trans /\ t.out \in Outs
      /\ t.thinkIdx # NoIdx => t.out.thinking # <<>>
      /\ t.textIdx # NoIdx => t.out.text # <<>>
  BY <1>1 DEF Laid, Board, Trans, Translators
<1>3. PICK c : c = CloseText(CloseThinking(t))
  OBVIOUS
<1>4. PICK Q : FrontClosed(t, c, f, Q)
  BY <1>1, <1>3, FrontCloses
<1>5. /\ c \in Trans /\ Shows(c, f, c.out.tools) /\ Tidy(c.sent, f, Q) /\ Keeps(t, c)
      /\ \A x \in 0..(Len(f) - 1) : x \in Q <=> CallOpen(c, x)
  BY <1>4 DEF FrontClosed, Board
<1>6. CountsRight(c)
  BY <1>5 DEF CountsRight, Keeps
<1>7. Tidy(c.sent, f, Left(c, 0))
  <2>1. Ahead(c) \in Nat
    BY DEF Ahead, ThinkBlocks, TextBlocks
  <2>2. ASSUME NEW x \in 0..(Len(f) - 1) PROVE x \in Q <=> x \in Left(c, 0)
    <3>1. CallOpen(c, x) => x >= Ahead(c) + 0
      BY <2>1 DEF CallOpen
    <3> QED BY <1>5, <3>1 DEF Left
  <2> QED BY <1>5, <2>2, TidySame
<1>8. PICK h : h = StopTools(c)
  OBVIOUS
<1>9. Tidy(h.sent, f, {}) /\ Keeps(c, h)
  BY <1>5, <1>6, <1>7, <1>8, StopsTidy
<1>10. h = Closed(t)
  BY <1>3, <1>8 DEF Closed
<1>11. PICK e : e = Final(h)
  OBVIOUS
<1>12. u.sent = Append(h.sent, e) /\ h \in Trans
  BY <1>2, <1>10, <1>11, FinalizeHeard DEF Silent
<1>13. Keeps(t, h) /\ Shows(h, f, h.out.tools)
  <2>1. Keeps(t, h)
    BY <1>5, <1>9 DEF Keeps
  <2>2. h.out.tools = c.out.tools
    BY <1>9 DEF Keeps
  <2> QED BY <1>5, <1>9, <2>1, <2>2, ShowsKept
<1>14. PICK C : C = Content(h.out, dialect)
  OBVIOUS
<1>15. /\ e \in Events /\ Marked(e)
       /\ dialect = "Responses" => e.data = [i \in DOMAIN C |-> IdOf(h, C[i])]
  BY <1>11, <1>12, <1>14, FinalIs DEF Marked
<1>16. h.sent \in Seq(Events) /\ f \in Seq(Items)
  BY <1>12, <1>13 DEF Trans, Translators, Shows
<1>17. Tidy(u.sent, f, {})
  BY <1>9, <1>12, <1>15, <1>16, TidyMark
<1>18. u.sent[Len(u.sent)] = e
  BY <1>12, <1>15, <1>16, AppendProperties
<1>19. ASSUME dialect = "Responses", NEW x \in 0..(Len(f) - 1) PROVE Named(u.sent, f[x + 1])
  <2>1. PICK w : w = h.out.tools
    OBVIOUS
  <2>2. /\ h.out = t.out /\ h.out \in Outs /\ h.thinkIdx = t.thinkIdx /\ h.textIdx = t.textIdx
    BY <1>2, <1>13 DEF Keeps
  <2>3. /\ h.out.thinking # <<>> => \E i \in DOMAIN C : C[i][1] = "thinking"
        /\ h.out.text # <<>> => \E i \in DOMAIN C : C[i][1] = "text"
        /\ \A j \in 1..Len(w) : \E i \in DOMAIN C : C[i][1] = "call" /\ C[i][2] = w[j].id
    BY <1>14, <2>1, <2>2, ContentHas
  <2>4. \E i \in DOMAIN C : IdOf(h, C[i]) = f[x + 1]
    <3>1. CASE h.thinkIdx # NoIdx /\ x = 0
      <4>1. f[x + 1] = h.thinkItem
        BY <1>13, <3>1 DEF Shows
      <4>2. PICK i \in DOMAIN C : C[i][1] = "thinking"
        BY <1>2, <2>2, <2>3, <3>1
      <4>3. IdOf(h, C[i]) = h.thinkItem
        BY <4>2 DEF IdOf
      <4> QED BY <4>1, <4>3
    <3>2. CASE h.textIdx # NoIdx /\ x = h.textIdx
      <4>1. f[x + 1] = h.textItem
        BY <1>13, <3>2 DEF Shows
      <4>2. PICK i \in DOMAIN C : C[i][1] = "text"
        BY <1>2, <2>2, <2>3, <3>2
      <4>3. IdOf(h, C[i]) = h.textItem
        BY <4>2 DEF IdOf
      <4> QED BY <4>1, <4>3
    <3>3. CASE x >= Ahead(h)
      <4>1. PICK n \in Nat : n = Ahead(h)
        BY DEF Ahead, ThinkBlocks, TextBlocks
      <4>2. /\ w \in Seq(Calls) /\ Len(f) = n + Len(w)
            /\ \A i \in 1..Len(w) : f[n + i] = w[i].id
        BY <1>13, <2>1, <4>1 DEF Shows
      <4>3. PICK j \in 1..Len(w) : x + 1 = n + j
        <5>1. x + 1 - n \in 1..Len(w) /\ x + 1 = n + (x + 1 - n)
          BY <3>3, <4>1, <4>2
        <5> QED BY <5>1
      <4>4. f[x + 1] = w[j].id
        BY <4>2, <4>3
      <4>5. PICK i \in DOMAIN C : C[i][1] = "call" /\ C[i][2] = w[j].id
        BY <2>3
      <4>6. IdOf(h, C[i]) = w[j].id
        BY <4>5 DEF IdOf
      <4> QED BY <4>4, <4>6
    <3>4. \/ h.thinkIdx # NoIdx /\ x = 0
          \/ h.textIdx # NoIdx /\ x = h.textIdx
          \/ x >= Ahead(h)
      <4>1. h.thinkIdx \in {NoIdx, 0} /\ h.textIdx \in {NoIdx, ThinkBlocks(h)}
        BY <1>13 DEF Shows
      <4> QED BY <4>1 DEF Ahead, ThinkBlocks, TextBlocks, NoIdx
    <3> QED BY <3>1, <3>2, <3>3, <3>4
  <2>5. PICK i \in DOMAIN C : IdOf(h, C[i]) = f[x + 1]
    BY <2>4
  <2>6. i \in DOMAIN e.data /\ e.data[i] = f[x + 1]
    BY <1>15, <1>19, <2>5
  <2> QED BY <1>18, <2>6 DEF Named
<1>20. SettledBy(u.sent, f)
  BY <1>17, <1>19 DEF SettledBy
<1> QED BY <1>20 DEF Settled

\* What is collected may change, but for the calls and to nothing.
LEMMA NewOutLaid ==
    ASSUME NEW t, NEW f, NEW O, Laid(t, f, O), NEW o \in Outs, o.tools = t.out.tools,
           t.out.thinking # <<>> => o.thinking # <<>>, t.out.text # <<>> => o.text # <<>>,
           NEW m, m = [t EXCEPT !.out = o]
    PROVE  Laid(m, f, O) /\ m.completed = t.completed /\ m.out = o
<1>1. PICK w : w = t.out.tools
  OBVIOUS
<1>2. Board(t, f, w, O)
  BY <1>1 DEF Laid
<1>3. /\ Board(m, f, w, O) /\ SameOpen(t, m) /\ m.out = o
      /\ m.started = t.started /\ m.completed = t.completed
      /\ m.thinkIdx = t.thinkIdx /\ m.textIdx = t.textIdx
  BY <1>2, NewOutBoard
<1>4. m.out.tools = w
  BY <1>1, <1>3
<1>5. \A x : OpenBlock(m, f, x) <=> OpenBlock(t, f, x)
  BY <1>1, <1>3, <1>4 DEF OpenBlock, Ahead, ThinkBlocks, TextBlocks
<1>6. /\ t.thinkOpen <=> t.thinkIdx # NoIdx /\ t.textIdx = NoIdx /\ w = <<>>
      /\ t.textOpen <=> t.textIdx # NoIdx /\ w = <<>>
      /\ t.thinkIdx # NoIdx => t.out.thinking # <<>>
      /\ t.textIdx # NoIdx => t.out.text # <<>>
      /\ t.started = {w[i].id : i \in 1..Len(w)}
      /\ \A x \in 0..(Len(f) - 1) : x \in O <=> OpenBlock(t, f, x)
  BY <1>1 DEF Laid
<1>7. Laid(m, f, O)
  BY <1>3, <1>4, <1>5, <1>6 DEF Laid, SameOpen
<1> QED BY <1>3, <1>7

\* A backfill goes into the open block or into none.
LEMMA BackfillLaid ==
    ASSUME NEW t, NEW f, NEW O, Laid(t, f, O), dialect \in {"Anthropic", "Responses"},
           NEW r \in Texts, NEW u, u = Backfill(t, r)
    PROVE  Laid(u, f, O) /\ u.completed = t.completed /\ u.out.tools = t.out.tools
<1>1. t \in Trans /\ t.out \in Outs /\ t.out.thinking \in Texts
  BY DEF Laid, Board, Trans, Translators, Outs
<1>2. PICK h \in Texts : h = t.out.thinking
  BY <1>1
<1>3. PICK d : d = SubSeq(r, Len(h) + 1, Len(r))
  OBVIOUS
<1>4. h \in Seq(Tokens) /\ r \in Seq(Tokens) /\ Len(h) \in Nat /\ Len(r) \in Nat
  BY DEF Texts
<1>5. d \in Texts
  BY <1>3, <1>4, SubSeqProperties DEF Texts
<1>6. CASE ~IsPrefix(h, r) \/ d = <<>>
  <2>1. u = t
    BY <1>2, <1>3, <1>6 DEF Backfill
  <2> QED BY <2>1
<1>7. CASE IsPrefix(h, r) /\ d # <<>>
  <2>1. r # <<>>
    <3>1. r = h \o d
      BY <1>3, <1>4, <1>7, PrefixIs DEF Texts
    <3> QED BY <1>5, <1>7, <3>1, AddedText
  <2>2. PICK o : o = [t.out EXCEPT !.thinking = r]
    OBVIOUS
  <2>3. o \in Outs /\ o.thinking = r /\ o.text = t.out.text /\ o.tools = t.out.tools
    BY <1>1, <2>2 DEF Outs
  <2>4. PICK m : m = [t EXCEPT !.out = o]
    OBVIOUS
  <2>5. Backfilled(h, r) = r
    BY <1>7 DEF Backfilled
  <2>6. m = [t EXCEPT !.out.thinking = Backfilled(@, r)]
    BY <1>1, <1>2, <2>2, <2>4, <2>5 DEF Trans, Translators, Outs
  <2>7. Laid(m, f, O) /\ m.completed = t.completed /\ m.out = o
    BY <2>1, <2>3, <2>4, NewOutLaid
  <2>8. m.thinkOpen = t.thinkOpen
    BY <1>1, <2>4 DEF Trans, Translators
  <2>9. CASE t.thinkOpen
    <3>1. u = ThinkingDelta(m, d)
      BY <1>2, <1>3, <1>7, <2>6, <2>9 DEF Backfill
    <3>2. m.thinkOpen /\ m.thinkIdx = 0 /\ 0 \in O
      BY <2>7, <2>8, <2>9, LaidOpen
    <3>3. PICK w : w = m.out.tools
      OBVIOUS
    <3>4. Board(m, f, w, O)
      BY <2>7, <3>3 DEF Laid
    <3>5. Board(u, f, w, O) /\ Keeps(m, u) /\ SameOpen(m, u)
      BY <1>5, <3>1, <3>2, <3>4, ThinkingDeltaBoard
    <3>6. \A x : OpenBlock(u, f, x) <=> OpenBlock(m, f, x)
      BY <3>5 DEF OpenBlock, Keeps, Ahead, ThinkBlocks, TextBlocks
    <3>7. Laid(u, f, O)
      BY <2>7, <3>3, <3>5, <3>6 DEF Laid, Keeps, SameOpen
    <3> QED BY <2>3, <2>7, <3>5, <3>7 DEF Keeps
  <2>10. CASE ~t.thinkOpen
    <3>1. u = m
      BY <1>2, <1>3, <1>7, <2>6, <2>10 DEF Backfill
    <3> QED BY <2>3, <2>7, <3>1
  <2> QED BY <2>9, <2>10
<1> QED BY <1>6, <1>7

\* It completes no call.
LEMMA AnswerSettled ==
    ASSUME NEW t, LaidOut(t), dialect \in {"Anthropic", "Responses"},
           NEW u, u = finalize_events(t)
    PROVE  CountsRight(u) => Settled(u.sent)
<1>1. t \in Trans
  BY DEF LaidOut, Laid, Board
<1>2. u.out = t.out /\ u.completed = t.completed
  BY <1>1, FinalizeHeard
<1>3. CountsRight(u) => CountsRight(t)
  BY <1>2 DEF CountsRight
<1> QED BY <1>3, FinalizeSettled

\* The last part of a frame stops every block.
LEMMA FeedInfoSettled ==
    ASSUME NEW t, LaidOut(t), dialect \in {"Anthropic", "Responses"},
           NEW i, i # NoPart, i.reason \in Texts, i.truncated \in BOOLEAN, i.signed \in BOOLEAN,
           NEW u, u = FeedInfo(t, i)
    PROVE  CountsRight(u) => Settled(u.sent)
<1>0. PICK f : \E O : Laid(t, f, O)
  BY DEF LaidOut
<1>1. PICK O : Laid(t, f, O)
  BY <1>0
<1>2. PICK b : b = Backfill(t, i.reason)
  OBVIOUS
<1>3. Laid(b, f, O) /\ b.completed = t.completed /\ b.out.tools = t.out.tools
  BY <1>1, <1>2, BackfillLaid
<1>4. b \in Trans /\ b.out \in Outs
  BY <1>3 DEF Laid, Board, Trans, Translators
<1>5. PICK g \in BOOLEAN : g = (b.out.signed \/ (i.signed /\ i.reason # <<>>))
  BY <1>4 DEF Outs
<1>6. PICK o : o = [b.out EXCEPT !.truncated = i.truncated, !.signed = g]
  OBVIOUS
<1>7. o \in Outs /\ o.thinking = b.out.thinking /\ o.text = b.out.text /\ o.tools = b.out.tools
  BY <1>4, <1>5, <1>6 DEF Outs
<1>8. PICK m : m = [b EXCEPT !.out = o]
  OBVIOUS
<1>9. m = [b EXCEPT !.out.truncated = i.truncated,
                    !.out.signed = @ \/ (i.signed /\ i.reason # <<>>)]
  BY <1>4, <1>5, <1>6, <1>8 DEF Trans, Translators, Outs
<1>10. u = finalize_events(m)
  BY <1>2, <1>9 DEF FeedInfo
<1>11. Laid(m, f, O) /\ m.completed = b.completed /\ m.out = o
  BY <1>3, <1>7, <1>8, NewOutLaid
<1>12. LaidOut(m)
  BY <1>11 DEF LaidOut
<1> QED BY <1>10, <1>12, AnswerSettled

-----------------------------------------------------------------------------
(* The blocks of an answer whose parts come in order. *)

TextFed(q) == \E i \in 1..Len(q) : q[i].text # <<>>

\* Thinking comes before text and calls, and text before calls.
LEMMA OrderlyRanks ==
    ASSUME NEW f \in Frames, fed \in Seq(Frames), fed' = Append(fed, f), Orderly',
           NEW i \in 1..Len(fed)
    PROVE  /\ f.think # NoPart => fed[i].text = <<>> /\ fed[i].tool = NoPart
           /\ f.text # <<>> => fed[i].tool = NoPart
<1>1. /\ fed' \in Seq(Frames) /\ Len(fed') = Len(fed) + 1 /\ Len(fed) \in Nat
      /\ fed'[Len(fed) + 1] = f /\ fed'[i] = fed[i]
  BY AppendProperties
<1>2. PICK n \in Nat : n = Len(fed)
  BY <1>1
<1>3. i \in DOMAIN fed' /\ n + 1 \in DOMAIN fed' /\ i < n + 1 /\ fed'[n + 1] = f
  BY <1>1, <1>2
<1>4. \A a \in Ranks(fed'[i]), b \in Ranks(fed'[n + 1]) : a <= b
  BY <1>3 DEF Orderly
<1>5. \A a \in Ranks(fed[i]), b \in Ranks(f) : a <= b
  BY <1>1, <1>3, <1>4
<1>6. /\ f.think # NoPart => 1 \in Ranks(f)
      /\ f.text # <<>> => 2 \in Ranks(f)
      /\ fed[i].text # <<>> => 2 \in Ranks(fed[i])
      /\ fed[i].tool # NoPart => 3 \in Ranks(fed[i])
  BY DEF Ranks
<1> QED BY <1>5, <1>6

\* The stages of a frame, for the blocks.
LEMMA MidParts ==
    ASSUME NEW t \in Trans, NEW f \in Frames
    PROVE  \E a, b, c, d :
             /\ a = IF f.usage = NoPart THEN t ELSE [t EXCEPT !.usage = extract_usage(f.usage)]
             /\ b = Preamble(a) /\ b \in Trans
             /\ c = FeedThinking(b, f.think) /\ c \in Trans
             /\ d = FeedText(c, f.text) /\ d \in Trans
             /\ Mid(t, f) = FeedTool(d, f.tool)
             /\ d.completed = t.completed /\ d.out.tools = t.out.tools
<1>1. PICK a, b, c, d :
             /\ a \in Trans /\ a.sent = t.sent /\ Silent(t, a)
             /\ a = IF f.usage = NoPart THEN t ELSE [t EXCEPT !.usage = extract_usage(f.usage)]
             /\ b = Preamble(a) /\ Silent(t, b) /\ b \in Trans
             /\ c = FeedThinking(b, f.think) /\ c \in Trans
             /\ d = FeedText(c, f.text) /\ d \in Trans
             /\ Mid(t, f) = FeedTool(d, f.tool)
             /\ Heard(d.sent, {"text"} \X Int) = Heard(t.sent, {"text"} \X Int) \o f.text
             /\ Heard(d.sent, {"thinking"} \X Int) = Heard(t.sent, {"thinking"} \X Int) \o ThinkOf(f.think)
             /\ \A x \in Ids : Heard(d.sent, {x}) = Heard(t.sent, {x})
             /\ Unended(t.sent) => Unended(d.sent)
             /\ d.completed = t.completed /\ d.emitted = t.emitted
             /\ d.out.thinking = t.out.thinking \o ThinkOf(f.think)
             /\ d.out.text = t.out.text \o f.text
             /\ d.out.tools = t.out.tools /\ d.out.truncated = t.out.truncated
  BY MidStages
<1>2. /\ a = IF f.usage = NoPart THEN t ELSE [t EXCEPT !.usage = extract_usage(f.usage)]
      /\ b = Preamble(a) /\ b \in Trans
      /\ c = FeedThinking(b, f.think) /\ c \in Trans
      /\ d = FeedText(c, f.text) /\ d \in Trans
      /\ Mid(t, f) = FeedTool(d, f.tool)
      /\ d.completed = t.completed /\ d.out.tools = t.out.tools
  BY <1>1
<1> HIDE <1>1
<1> QED BY <1>2

\* A frame before its last part.
LEMMA MidLaid ==
    ASSUME NEW f \in Frames, fed \in Seq(Frames), fed' = Append(fed, f), Orderly',
           dialect \in {"Anthropic", "Responses"}, LaidOut(tr), tr \in Trans,
           tr.textIdx # NoIdx => TextFed(fed),
           InOrder(fed, tr.out.tools, tr.completed), NEW m, m = Mid(tr, f)
    PROVE  LaidOut(m) /\ (m.textIdx # NoIdx => TextFed(fed'))
<1>0. Frame(f)
  BY StreamAssumption DEF StreamAssumption
<1>1. PICK w : w = tr.out.tools
  OBVIOUS
<1>2. w \in Seq(Calls) /\ Len(w) \in Nat /\ InOrder(fed, w, tr.completed)
  BY <1>1 DEF Trans, Translators, Outs
<1>3. (\A i \in 1..Len(fed) : fed[i].tool = NoPart) => w = <<>>
  <2> SUFFICES ASSUME \A i \in 1..Len(fed) : fed[i].tool = NoPart, w # <<>> PROVE FALSE
    OBVIOUS
  <2>1. 1 \in 1..Len(w)
    BY <1>2
  <2>2. AllParts(fed, w)
    BY <1>2 DEF InOrder
  <2>3. PICK a \in 1..Len(fed) : HasPart(fed, a)
    BY <2>1, <2>2 DEF AllParts
  <2> QED BY <2>3 DEF HasPart
<1>4. f.think # NoPart => w = <<>> /\ tr.textIdx = NoIdx
  BY <1>3, OrderlyRanks DEF TextFed
<1>5. f.text # <<>> => w = <<>>
  BY <1>3, OrderlyRanks
<1>6. PICK a, b, c, d :
             /\ a = IF f.usage = NoPart THEN tr ELSE [tr EXCEPT !.usage = extract_usage(f.usage)]
             /\ b = Preamble(a) /\ b \in Trans
             /\ c = FeedThinking(b, f.think) /\ c \in Trans
             /\ d = FeedText(c, f.text) /\ d \in Trans
             /\ Mid(tr, f) = FeedTool(d, f.tool)
             /\ d.completed = tr.completed /\ d.out.tools = tr.out.tools
  BY MidParts
<1>7. LaidOut(b) /\ b.textIdx = tr.textIdx /\ b.out = tr.out
  <2>1. PICK g : g = extract_usage(f.usage)
    OBVIOUS
  <2>2. g \in Usages
    BY <2>1 DEF Usages
  <2>3. a = tr \/ a = [tr EXCEPT !.usage = g]
    BY <1>6, <2>1
  <2>4. a = tr \/ \E e \in Usages : a = [tr EXCEPT !.usage = e]
    BY <2>2, <2>3
  <2>5. PICK t : t = tr
    OBVIOUS
  <2>6. LaidOut(t) /\ (a = t \/ \E e \in Usages : a = [t EXCEPT !.usage = e])
    BY <2>4, <2>5
  <2>7. LaidOut(b) /\ b.textIdx = t.textIdx /\ b.out = t.out
    <3>1. b = Preamble(a)
      BY <1>6
    <3> HIDE <1>6, <2>1, <2>5
    <3> QED BY <2>6, <3>1, PreambleLaid
  <2> QED BY <2>5, <2>7
<1>8. f.think # NoPart => f.think.text \in Texts /\ f.think.signed \in BOOLEAN
  BY <1>0 DEF Frame
<1>9. LaidOut(c) /\ c.textIdx = b.textIdx
  <2>1. PICK p : p = f.think
    OBVIOUS
  <2>2. p # NoPart => /\ p.text \in Texts /\ p.signed \in BOOLEAN
                      /\ b.out.tools = <<>> /\ b.textIdx = NoIdx
    BY <1>1, <1>4, <1>7, <1>8, <2>1
  <2>3. c = FeedThinking(b, p)
    BY <1>6, <2>1
  <2> HIDE <2>1
  <2> QED BY <1>7, <2>2, <2>3, FeedThinkingLaid
<1>10. c.out.tools = w
  <2>1. c.out.tools = b.out.tools
    BY <1>6, <1>8, FeedThinkingHeard
  <2> QED BY <1>1, <1>7, <2>1
<1>11. LaidOut(d) /\ (d.textIdx # c.textIdx => f.text # <<>>)
  <2>1. f.text \in Texts
    BY <1>0 DEF Frame
  <2>2. PICK x \in Texts : x = f.text
    BY <2>1
  <2>3. (x # <<>> => c.out.tools = <<>>) /\ d = FeedText(c, x)
    BY <1>5, <1>6, <1>10, <2>2
  <2>4. LaidOut(d) /\ (d.textIdx # c.textIdx => x # <<>>)
    <3> HIDE <2>2
    <3> QED BY <1>9, <2>3, FeedTextLaid
  <2> QED BY <2>2, <2>4
<1>12. LaidOut(m) /\ m.textIdx = d.textIdx
  <2>1. CASE f.tool = NoPart
    BY <1>6, <1>11, <2>1 DEF FeedTool
  <2>2. CASE f.tool # NoPart
    <3>1. PICK p : p = f.tool
      OBVIOUS
    <3>2. Part(p) /\ p # NoPart
      BY <1>0, <2>2, <3>1 DEF Frame, Part
    <3>3. /\ p.id # NoText /\ p.id \notin tr.completed
          /\ \A i \in 1..Len(w) : w[i].id = p.id => i = Len(w)
      BY <1>2, <2>2, <3>1, OrderlyPart
    <3>4. Distinct(d.out.tools) /\ DoneCalls(d.out.tools, d.completed)
      BY <1>6 DEF InOrder
    <3>5. /\ p.id \notin d.completed /\ m = FeedTool(d, p)
          /\ \A i \in 1..Len(d.out.tools) : d.out.tools[i].id = p.id => i = Len(d.out.tools)
      BY <1>1, <1>6, <3>1, <3>3
    <3>6. LaidOut(d) /\ p.id # NoText
      BY <1>11, <3>3
    <3> HIDE <3>1
    <3> QED BY <3>2, <3>4, <3>5, <3>6, FeedToolLaid
  <2> QED BY <2>1, <2>2
<1>13. ASSUME m.textIdx # NoIdx PROVE TextFed(fed')
  <2>1. /\ Len(fed') = Len(fed) + 1 /\ Len(fed) \in Nat
        /\ fed'[Len(fed) + 1] = f /\ \A i \in 1..Len(fed) : fed'[i] = fed[i]
    BY AppendProperties
  <2>2. CASE f.text # <<>>
    <3>1. Len(fed) + 1 \in 1..Len(fed')
      BY <2>1
    <3> QED BY <2>1, <2>2, <3>1 DEF TextFed
  <2>3. CASE f.text = <<>>
    <3>1. tr.textIdx # NoIdx
      BY <1>7, <1>9, <1>11, <1>12, <1>13, <2>3
    <3>2. PICK i \in 1..Len(fed) : fed[i].text # <<>>
      BY <3>1 DEF TextFed
    <3>3. i \in 1..Len(fed') /\ fed'[i] = fed[i]
      BY <2>1
    <3> QED BY <3>2, <3>3 DEF TextFed
  <2> QED BY <2>2, <2>3
<1> QED BY <1>12, <1>13

\* While the answer goes on its blocks are laid out; when it broke off they are
\* where they were; when it ended all are stopped.
LayoutInv ==
    /\ dialect \in Dialects
    /\ dialect # "Chat" /\ Orderly /\ result = "none" =>
          LaidOut(tr) /\ (tr.textIdx # NoIdx => TextFed(fed))
    /\ dialect # "Chat" /\ Orderly /\ result # "ok" => \E f : \E O : Tidy(tr.sent, f, O)
    /\ dialect # "Chat" /\ Orderly /\ result = "ok" => (CountsRight(tr) => Settled(tr.sent))

\* Blocks that are laid out are tidy.
LEMMA LaidTidy == ASSUME NEW t, LaidOut(t) PROVE \E f : \E O : Tidy(t.sent, f, O)
BY DEF LaidOut, Laid, Board

\* It holds in the beginning.
LEMMA LayoutInvInit == StreamInit => LayoutInv
<1> SUFFICES ASSUME StreamInit PROVE LayoutInv
  OBVIOUS
<1>1. tr = NewTranslator /\ result = "none" /\ dialect \in Dialects
  BY DEF StreamInit
<1>2. tr \in Trans
  BY <1>1, NewTranslatorType
<1>3. /\ tr.sent = <<>> /\ tr.out.tools = <<>> /\ tr.started = {}
      /\ tr.thinkIdx = NoIdx /\ tr.textIdx = NoIdx /\ ~tr.thinkOpen /\ ~tr.textOpen
      /\ tr.nextIdx = 0
  BY <1>1 DEF NewTranslator, EmptyOut
<1>4. <<>> \in Seq(Items) /\ <<>> \in Seq(Calls) /\ Len(<<>>) = 0
  BY EmptySeq
<1>5. Shows(tr, <<>>, tr.out.tools)
  BY <1>3, <1>4 DEF Shows, Ahead, ThinkBlocks, TextBlocks, NoIdx
<1>6. Tidy(tr.sent, <<>>, {})
  BY <1>3 DEF Tidy
<1>7. tr.started = {tr.out.tools[i].id : i \in 1..Len(tr.out.tools)}
  BY <1>3
<1>8. Laid(tr, <<>>, {})
  BY <1>2, <1>3, <1>5, <1>6, <1>7 DEF Laid, Board
<1>9. LaidOut(tr)
  BY <1>8 DEF LaidOut
<1>10. \E f : \E O : Tidy(tr.sent, f, O)
  BY <1>6
<1> QED BY <1>1, <1>3, <1>9, <1>10 DEF LayoutInv

\* A frame keeps it.
LEMMA LayoutInvFeed == ASSUME StreamInv, CallsInv, LayoutInv, Feed PROVE LayoutInv'
<1>1. PICK f : f = Head(buf)
  OBVIOUS
<1>2. /\ fed' = Append(fed, f) /\ tr' = IF f.error THEN tr ELSE feed(tr, f)
      /\ result' = IF f.error THEN "error" ELSE IF Terminal(f) THEN "ok" ELSE result
      /\ phase = "stream" /\ buf # <<>> /\ dialect' = dialect
  BY <1>1 DEF Feed, HasObject
<1>3. buf \in Seq(Frames) /\ fed \in Seq(Frames) /\ tr \in Trans /\ result = "none"
  BY <1>2 DEF StreamInv, StreamTypes
<1>4. f \in Frames
  BY <1>1, <1>2, <1>3
<1>5. Frame(f)
  BY <1>4, StreamAssumption DEF StreamAssumption
<1>6. dialect \in Dialects /\ dialect' \in Dialects
  BY <1>2 DEF LayoutInv
<1> SUFFICES ASSUME Orderly', dialect # "Chat" PROVE LayoutInv'
  BY <1>2, <1>6 DEF LayoutInv
<1>7. dialect \in {"Anthropic", "Responses"}
  BY <1>6, StreamAssumption DEF StreamAssumption
<1>8. Orderly
  BY <1>2, <1>3, <1>4, OrderlyPast
<1>9. LaidOut(tr) /\ (tr.textIdx # NoIdx => TextFed(fed))
  BY <1>3, <1>8 DEF LayoutInv
<1>10. CASE f.error
  <2>1. tr' = tr /\ result' = "error"
    BY <1>2, <1>10
  <2>2. \E g : \E O : Tidy(tr'.sent, g, O)
    BY <1>9, <2>1, LaidTidy
  <2> QED BY <1>6, <2>1, <2>2 DEF LayoutInv
<1>11. CASE ~f.error
  <2>1. PICK m : m = Mid(tr, f)
    OBVIOUS
  <2>2. InOrder(fed, tr.out.tools, tr.completed)
    BY <1>3, <1>8 DEF CallsInv
  <2>3. LaidOut(m) /\ (m.textIdx # NoIdx => TextFed(fed'))
    BY <1>2, <1>3, <1>4, <1>7, <1>9, <2>1, <2>2, MidLaid
  <2>4. tr' = FeedInfo(m, f.info)
    BY <1>2, <1>11, <2>1, FeedIs
  <2>5. CASE f.info = NoPart
    <3>1. tr' = m /\ result' = "none"
      BY <1>2, <1>3, <1>11, <2>4, <2>5 DEF FeedInfo, Terminal
    <3>2. LaidOut(m) => LaidOut(tr)'
      BY <1>2, <3>1 DEF LaidOut, Laid, Board, Shows
    <3>3. \E g : \E O : Tidy(tr'.sent, g, O)
      BY <2>3, <3>1, LaidTidy
    <3> QED BY <1>6, <2>3, <3>1, <3>2, <3>3 DEF LayoutInv
  <2>6. CASE f.info # NoPart
    <3>1. result' = "ok"
      BY <1>2, <1>11, <2>6 DEF Terminal
    <3>2. PICK i : i = f.info
      OBVIOUS
    <3>3. i # NoPart /\ i.reason \in Texts /\ i.truncated \in BOOLEAN /\ i.signed \in BOOLEAN
      BY <1>5, <2>6, <3>2 DEF Frame
    <3>4. PICK u : u = FeedInfo(m, i)
      OBVIOUS
    <3>5. CountsRight(u) => Settled(u.sent)
      <4> HIDE <3>2
      <4> QED BY <1>7, <2>3, <3>3, <3>4, FeedInfoSettled
    <3>6. tr' = u
      BY <2>4, <3>2, <3>4
    <3>7. CountsRight(tr)' => CountsRight(u)
      BY <1>2, <3>6 DEF CountsRight
    <3>8. Settled(u.sent) => Settled(tr.sent)'
      BY <1>2, <3>6 DEF Settled, SettledBy
    <3> QED BY <1>6, <3>1, <3>5, <3>7, <3>8 DEF LayoutInv
  <2> QED BY <2>5, <2>6
<1> QED BY <1>5, <1>10, <1>11 DEF Frame

\* Every step keeps it.
LEMMA LayoutInvNext ==
    StreamInv /\ CallsInv /\ LayoutInv /\ [StreamNext]_streamVars => LayoutInv'
<1> SUFFICES ASSUME StreamInv, CallsInv, LayoutInv, [StreamNext]_streamVars PROVE LayoutInv'
  OBVIOUS
<1>1. CASE /\ dialect' = dialect /\ fed' = fed /\ tr' = tr
           /\ (result' = result \/ (result = "none" /\ result' # "ok"))
  <2>1. Orderly' <=> Orderly
    BY <1>1 DEF Orderly
  <2>2. /\ LaidOut(tr)' <=> LaidOut(tr)
        /\ CountsRight(tr)' <=> CountsRight(tr)
        /\ Settled(tr.sent)' <=> Settled(tr.sent)
    BY <1>1 DEF LaidOut, Laid, Board, Shows, CountsRight, Settled, SettledBy
  <2> QED BY <1>1, <2>1, <2>2 DEF LayoutInv
<1>2. CASE EndOfStream
  <2>1. /\ fed' = fed /\ dialect' = dialect /\ tr' = finalize_events(tr) /\ result' = "ok"
        /\ result = "none"
    BY <1>2 DEF EndOfStream, StreamInv, StreamTypes
  <2>2. dialect \in Dialects /\ dialect' \in Dialects
    BY <2>1 DEF LayoutInv
  <2>3. Orderly' <=> Orderly
    BY <2>1 DEF Orderly
  <2> SUFFICES ASSUME Orderly, dialect # "Chat" PROVE LayoutInv'
    BY <2>1, <2>2, <2>3 DEF LayoutInv
  <2>4. dialect \in {"Anthropic", "Responses"}
    BY <2>2, StreamAssumption DEF StreamAssumption
  <2>5. LaidOut(tr)
    BY <2>1 DEF LayoutInv
  <2>6. PICK u : u = finalize_events(tr)
    OBVIOUS
  <2>7. CountsRight(u) => Settled(u.sent)
    BY <2>4, <2>5, <2>6, AnswerSettled
  <2>8. CountsRight(tr)' => CountsRight(u)
    BY <2>1, <2>6 DEF CountsRight
  <2>9. Settled(u.sent) => Settled(tr.sent)'
    BY <2>1, <2>6 DEF Settled, SettledBy
  <2> QED BY <2>1, <2>2, <2>7, <2>8, <2>9 DEF LayoutInv
<1>3. CASE Feed
  BY <1>3, LayoutInvFeed
<1>4. ReadChunk \/ BodyEnds \/ SkipEmpty =>
        dialect' = dialect /\ fed' = fed /\ tr' = tr /\ result' = result
  BY DEF ReadChunk, BodyEnds, SkipEmpty, consumer
<1>5. UNCHANGED streamVars =>
        dialect' = dialect /\ fed' = fed /\ tr' = tr /\ result' = result
  BY DEF streamVars
<1>6. Peek \/ Fail =>
        /\ dialect' = dialect /\ fed' = fed /\ tr' = tr
        /\ (result' = result \/ (result = "none" /\ result' # "ok"))
  BY DEF Peek, Fail, StreamInv, StreamTypes
<1>7. CASE ReadChunk \/ BodyEnds \/ SkipEmpty
  <2>1. dialect' = dialect /\ fed' = fed /\ tr' = tr /\ result' = result
    BY <1>4, <1>7
  <2> QED BY <1>1, <2>1
<1>8. CASE UNCHANGED streamVars
  <2>1. dialect' = dialect /\ fed' = fed /\ tr' = tr /\ result' = result
    BY <1>5, <1>8
  <2> QED BY <1>1, <2>1
<1>9. CASE Peek \/ Fail
  <2>1. /\ dialect' = dialect /\ fed' = fed /\ tr' = tr
        /\ (result' = result \/ (result = "none" /\ result' # "ok"))
    BY <1>6, <1>9
  <2> QED BY <1>1, <2>1
<1> QED BY <1>2, <1>3, <1>7, <1>8, <1>9 DEF StreamNext

\* It holds of every answer.
LEMMA LayoutInvHolds == StreamSpec => []LayoutInv
<1>1. StreamInit => LayoutInv
  BY LayoutInvInit
<1>2. StreamInv /\ CallsInv /\ LayoutInv /\ [StreamNext]_streamVars => LayoutInv'
  BY LayoutInvNext
<1> QED BY <1>1, <1>2, StreamInvHolds, CallsInvHolds, PTL DEF StreamSpec

\* The events of a block.
At(s, ev, x) == {i \in DOMAIN s : s[i].ev = ev /\ s[i].idx = x}

\* What a tidy block promises the client.
LEMMA BlockIsWell ==
    ASSUME NEW s \in Seq(Events), NEW x, NEW v, NEW open \in BOOLEAN, Block(s, x, v, open)
    PROVE  \E a \in 1..Len(s) :
             /\ At(s, "start", x) = {a} /\ s[a].item = v
             /\ \A i \in DOMAIN s : s[i].idx = x /\ s[i].ev \in Inside => a < i /\ s[i].item = v
             /\ open => At(s, "stop", x) = {}
             /\ ~open => \E b \in 1..Len(s) :
                    /\ At(s, "stop", x) = {b} /\ a < b
                    /\ \A i \in DOMAIN s : s[i].idx = x /\ s[i].ev \in Inside => i < b
<1>0. DOMAIN s = 1..Len(s)
  OBVIOUS
<1>1. "start" \notin Inside /\ "stop" \notin Inside /\ "start" # "stop"
  BY DEF Inside
<1>2. CASE open
  <2>1. PICK a \in 1..Len(s) :
            /\ s[a].ev = "start" /\ s[a].idx = x /\ s[a].item = v
            /\ \A i \in 1..Len(s) : s[i].idx = x /\ i # a =>
                  a < i /\ s[i].ev \in Inside /\ s[i].item = v
    BY <1>2 DEF Block, Opened
  <2>2. At(s, "start", x) = {a} /\ At(s, "stop", x) = {}
    BY <1>0, <1>1, <2>1 DEF At
  <2>3. \A i \in DOMAIN s : s[i].idx = x /\ s[i].ev \in Inside => a < i /\ s[i].item = v
    BY <1>0, <1>1, <2>1
  <2> QED BY <1>2, <2>1, <2>2, <2>3
<1>3. CASE ~open
  <2>1. PICK a \in 1..Len(s), b \in 1..Len(s) : StoppedAt(s, x, v, a, b)
    BY <1>3 DEF Block, Stopped
  <2>2. /\ a < b
        /\ s[a].ev = "start" /\ s[a].idx = x /\ s[a].item = v
        /\ s[b].ev = "stop" /\ s[b].idx = x
        /\ \A i \in 1..Len(s) : s[i].idx = x /\ i # a /\ i # b =>
              a < i /\ i < b /\ s[i].ev \in Inside /\ s[i].item = v
    BY <2>1 DEF StoppedAt
  <2>3. At(s, "start", x) = {a} /\ At(s, "stop", x) = {b}
    BY <1>0, <1>1, <2>2 DEF At
  <2>4. \A i \in DOMAIN s : s[i].idx = x /\ s[i].ev \in Inside => a < i /\ s[i].item = v /\ i < b
    BY <1>0, <1>1, <2>2
  <2> QED BY <1>3, <2>2, <2>3, <2>4
<1> QED BY <1>2, <1>3

\* The blocks of a tidy answer are well formed.
LEMMA TidyIsWell ==
    ASSUME tr.sent \in Seq(Events), NEW f, NEW O, Tidy(tr.sent, f, O), result = "ok" => O = {},
           NEW x \in 0..(Len(f) - 1)
    PROVE  Well(x)
<1>1. PICK s \in Seq(Events) : s = tr.sent
  OBVIOUS
<1>2. PICK on \in BOOLEAN : on = (x \in O)
  <2>1. (x \in O) \in BOOLEAN
    OBVIOUS
  <2> QED BY <2>1
<1>3. Block(s, x, f[x + 1], on)
  BY <1>1, <1>2 DEF Tidy
<1>4. PICK v : v = f[x + 1]
  OBVIOUS
<1>5. PICK a \in 1..Len(s) :
             /\ At(s, "start", x) = {a} /\ s[a].item = v
             /\ \A i \in DOMAIN s : s[i].idx = x /\ s[i].ev \in Inside => a < i /\ s[i].item = v
             /\ on => At(s, "stop", x) = {}
             /\ ~on => \E b \in 1..Len(s) :
                    /\ At(s, "stop", x) = {b} /\ a < b
                    /\ \A i \in DOMAIN s : s[i].idx = x /\ s[i].ev \in Inside => i < b
  BY <1>3, <1>4, BlockIsWell
<1> DEFINE at(ev) == {i \in EventsOf(ev) : tr.sent[i].idx = x}
           inside == UNION {at(ev) : ev \in {"delta", "signature", "content"}}
<1>6. \A ev : at(ev) = At(s, ev, x)
  BY <1>1 DEF EventsOf, At
<1>7. at("start") = {a}
  BY <1>5, <1>6
<1>8. \A i \in inside : i \in DOMAIN s /\ s[i].idx = x /\ s[i].ev \in Inside
  <2> SUFFICES ASSUME NEW i \in inside PROVE i \in DOMAIN s /\ s[i].idx = x /\ s[i].ev \in Inside
    OBVIOUS
  <2>1. PICK ev \in {"delta", "signature", "content"} : i \in at(ev)
    OBVIOUS
  <2>2. i \in At(s, ev, x)
    BY <1>6, <2>1
  <2> QED BY <2>1, <2>2 DEF At, Inside
<1>9. Cardinality({a}) = 1 /\ Cardinality({}) = 0
  BY FS_Singleton, FS_EmptySet
<1> HIDE DEF at, inside
<1>10. \A c \in at("start"), i \in inside : c < i /\ tr.sent[i].item = tr.sent[c].item
  BY <1>1, <1>5, <1>7, <1>8
<1> PICK A, B, I : A = at("start") /\ B = at("stop") /\ I = inside
  OBVIOUS
<1>11. /\ Cardinality(B) <= 1 /\ (result = "ok" => B # {})
       /\ \A e \in B, i \in I \cup A : i < e
  <2>1. CASE on
    <3>1. B = {} /\ result # "ok"
      BY <1>2, <1>5, <1>6, <2>1
    <3>2. Cardinality(B) = 0
      BY <1>9, <3>1
    <3> QED BY <3>1, <3>2
  <2>2. CASE ~on
    <3>1. PICK b \in 1..Len(s) :
                    /\ At(s, "stop", x) = {b} /\ a < b
                    /\ \A i \in DOMAIN s : s[i].idx = x /\ s[i].ev \in Inside => i < b
      BY <1>5, <2>2
    <3>2. B = {b} /\ Cardinality({b}) = 1
      BY <1>6, <3>1, FS_Singleton
    <3>3. \A i \in I : i < b
      BY <1>8, <3>1
    <3>4. \A i \in A : i < b
      BY <1>7, <3>1
    <3>5. Cardinality(B) = 1
      BY <3>2
    <3>6. \A e \in B, i \in I \cup A : i < e
      BY <3>2, <3>3, <3>4
    <3>7. Cardinality(B) <= 1
      BY <3>5
    <3>8. B # {}
      BY <3>2
    <3> QED BY <3>6, <3>7, <3>8
  <2> QED BY <2>1, <2>2
<1>12. Cardinality(A) = 1
  BY <1>7, <1>9
<1> QED BY <1>10, <1>11, <1>12, Zenon DEF Well, at, inside

\* When the parts of an answer come in the order the upstreams send them, each block
\* or item is started once and stopped at most once, its events lie in between under
\* one index and one name, an answer that ended leaves none open, and the last event
\* of a Responses stream names every item (feed, finalize_events,
\* close_anthropic_thinking, close_responses_message).
THEOREM BlocksArePaired == StreamSpec => []BlocksPaired
<1>1. ASSUME StreamInv, LayoutInv PROVE BlocksPaired
  <2> SUFFICES ASSUME dialect # "Chat", Orderly, dialect = "Responses" => AllOrNone
               PROVE  /\ \A x \in {tr.sent[i].idx : i \in DOMAIN tr.sent} \ {NoIdx} : Well(x)
                      /\ dialect = "Responses" /\ result = "ok" =>
                           \A i \in EventsOf("start") :
                             \E k \in DOMAIN Last(tr.sent).data :
                               Last(tr.sent).data[k] = tr.sent[i].item
    BY DEF BlocksPaired
  <2>1. tr.sent \in Seq(Events) /\ tr.out.tools \in Seq(Calls)
    BY <1>1 DEF StreamInv, StreamTypes, Trans, Translators, Outs
  <2>2. CountsRight(tr)
    BY <2>1 DEF CountsRight, AllOrNone
  <2>3. PICK f : \E O : /\ Tidy(tr.sent, f, O) /\ (result = "ok" => O = {})
                        /\ result = "ok" => SettledBy(tr.sent, f)
    <3>1. CASE result # "ok"
      BY <1>1, <3>1 DEF LayoutInv
    <3>2. CASE result = "ok"
      <4>1. Settled(tr.sent)
        BY <1>1, <2>2, <3>2 DEF LayoutInv
      <4>2. PICK f : SettledBy(tr.sent, f)
        BY <4>1 DEF Settled
      <4>3. Tidy(tr.sent, f, {})
        BY <4>2 DEF SettledBy
      <4> QED BY <4>2, <4>3
    <3> QED BY <3>1, <3>2
  <2>4. PICK O : Tidy(tr.sent, f, O) /\ (result = "ok" => O = {})
    BY <2>3
  <2>5. DOMAIN tr.sent = 1..Len(tr.sent)
    BY <2>1
  <2>6. \A i \in DOMAIN tr.sent : Marked(tr.sent[i]) \/ tr.sent[i].idx \in 0..(Len(f) - 1)
    BY <2>4, <2>5 DEF Tidy
  <2>7. ASSUME NEW x \in {tr.sent[i].idx : i \in DOMAIN tr.sent} \ {NoIdx} PROVE Well(x)
    <3>1. x \in 0..(Len(f) - 1)
      BY <2>6 DEF Marked
    <3> QED BY <2>1, <2>4, <3>1, TidyIsWell
  <2>8. ASSUME dialect = "Responses", result = "ok", NEW i \in EventsOf("start")
        PROVE  \E k \in DOMAIN Last(tr.sent).data : Last(tr.sent).data[k] = tr.sent[i].item
    <3>1. i \in DOMAIN tr.sent /\ tr.sent[i].ev = "start"
      BY DEF EventsOf
    <3>2. PICK x \in 0..(Len(f) - 1) : x = tr.sent[i].idx
      BY <2>6, <3>1 DEF Marked
    <3>3. PICK z \in BOOLEAN : Block(tr.sent, x, f[x + 1], z)
      <4>1. Block(tr.sent, x, f[x + 1], x \in O)
        BY <2>4 DEF Tidy
      <4>2. (x \in O) \in BOOLEAN
        OBVIOUS
      <4> QED BY <4>1, <4>2
    <3>4. PICK a \in 1..Len(tr.sent) : At(tr.sent, "start", x) = {a} /\ tr.sent[a].item = f[x + 1]
      BY <2>1, <3>3, BlockIsWell
    <3>5. i = a
      BY <3>1, <3>2, <3>4 DEF At
    <3>6. Named(tr.sent, f[x + 1])
      BY <2>3, <2>8 DEF SettledBy
    <3> QED BY <3>4, <3>5, <3>6 DEF Named, Last
  <2> QED BY <2>7, <2>8
<1> QED BY <1>1, StreamInvHolds, LayoutInvHolds, PTL

==============================================================================
