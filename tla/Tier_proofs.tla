----------------------------- MODULE Tier_proofs ------------------------------
(* Proofs about Tier, for any programs, any bindings and any limits.           *)
(*                                                                             *)
(* IInv says what a form is worth.  Every form is Spoken: each operation of it *)
(* is of a sort the walk speaks, and the kind it hands to the next operation   *)
(* is the one that operation leaves.  ReturnsAs ties what a form leaves with   *)
(* to the kind it claims to return, and StackIn each activation to the one it  *)
(* called: a compiled caller waits at a site that calls what runs above it, so *)
(* an answer in a bare register is of the kind the caller was compiled for     *)
(* (Called, Fit), and a form that writes nothing has called only forms that    *)
(* write nothing (WritesNone).  TypeOK and NoWriteHonest follow.               *)
(*                                                                             *)
(* What IInv says of the kind of a value it says while ShapesStand (Typed), of *)
(* the shape: a call of itself leaves a kind no value has (Likeness), and the  *)
(* code branches on its shape.  Of a form ShapesStand says StandsIn; it can    *)
(* only become false, as forms are added (StandsGrows).  All else IInv says is *)
(* so without it.                                                              *)
(*                                                                             *)
(* The walk is a fold, so its result is reached by an induction on how far it  *)
(* has got (Walked), and kept in two halves that meet in CompiledIs: what the  *)
(* body says, in IInv for ever, and what the sites were when it was compiled,  *)
(* Fresh.  An action is then one of few things to the code there is (CodeOK),  *)
(* to the machine, and to the call on its way in.                              *)
(*                                                                             *)
(* CallsCurrent needs a set of forms that no state names: those that may run,  *)
(* Upheld.  The forms the tier would enter now are in it, so are those that do *)
(* run and those that they branch to, and all of them call what the names are  *)
(* bound to.  It grows with the compiles while the bindings stand and is empty *)
(* again when one changes, which is sound because nothing compiled runs then:  *)
(* OnlyScriptBinds, the premise of the theorem.                                *)
EXTENDS Tier, FiniteSetTheorems, SequenceTheorems, WellFoundedInduction, TLAPS

-----------------------------------------------------------------------------
(* The invariant.                                                              *)

MFields == {"acts", "bound", "version", "cell", "seen"}
ActFields == {"fn", "pc", "acc", "form", "wrote"}
TierFields == DOMAIN Untried

\* A list of whatever elements it has.
IsSeq(s) == s \in Seq({s[i] : i \in 1..Len(s)})

\* A branch goes to a form that takes, returns and writes what the site says.
DirectOK(s, k) ==
    /\ s.form \in 1..Len(forms)
    /\ forms[s.form].fn = s.callee
    /\ Takes(forms[s.form].param, Shape(k))
    /\ forms[s.form].ret = s.ret /\ s.ret \in Classes \cup {"int"}
    /\ forms[s.form].writes = s.writes

\* What the walk may have made of a call with acc of kind k, and the kind it leaves.
CallOK(fn, param, s, k, next, writes) ==
    /\ s.callee \in Fns
    /\ s.writes => writes
    /\ \/ s.mode = "self" /\ s.callee = fn /\ s.writes /\ Takes(param, Payload(k))
          /\ next = Taken(s.ret)
       \/ s.mode = "inline" /\ Inlinable(prog[s.callee])
          /\ next = InlineKind(prog[s.callee], k, s.cell) /\ next # None
       \/ s.mode = "direct" /\ next = s.ret /\ DirectOK(s, k)
       \/ s.mode = "desc" /\ next = s.ret /\ s.writes

\* What it may have made of any operation.
OpOK(fn, param, op, s, k, next, writes) ==
    /\ op[1] \in {"let", "load", "write", "field", "down", "call", "ret"}
    /\ op[1] # "call" => s = NoSite
    /\ op[1] = "let" => next = op[2].kind /\ next \notin DOMAIN Likeness
    /\ op[1] = "write" => writes
    /\ op[1] \in {"write", "down"} => next = k
    /\ op[1] = "field" => k \in Classes /\ next = FieldKind[k]
    /\ op[1] = "call" => CallOK(fn, param, s, k, next, writes)

\* The operations that may leave a body.
Leaves(fn, i) == prog[fn][i][1] \in {"down", "ret"}

\* A form has a kind for each operation up to where it stops, a site for each before.
Shaped(F) ==
    /\ F.fn \in Fns /\ F.writes \in BOOLEAN
    /\ IsSeq(F.kinds) /\ IsSeq(F.sites)
    /\ F.kinds[1] = F.param
    /\ \/ F.stop = 0 /\ Len(F.kinds) = Len(prog[F.fn]) /\ Len(F.sites) = Len(prog[F.fn])
       \/ F.stop \in 1..Len(prog[F.fn]) /\ Len(F.kinds) = F.stop /\ Len(F.sites) = F.stop - 1

\* Each operation of a form leaves the kind the next one starts from.
Spoken(F) ==
    \A i \in 1..Len(F.sites) :
        OpOK(F.fn, F.param, prog[F.fn][i], F.sites[i], F.kinds[i], F.kinds[i + 1], F.writes)

\* ShapesStand, of one form.
StandsIn(F) ==
    \A i \in 1..Len(F.sites) : F.sites[i].mode = "self" /\ F.sites[i].ret \in Classes => F.ret = F.sites[i].ret

\* A form leaves with the kind it claims, and a call of itself takes it for that.
ReturnsAs(F) ==
    \A j \in 1..Len(F.sites) :
        Leaves(F.fn, j) =>
            /\ F.ret \in Classes \cup {"int"} => Shape(F.kinds[j]) = F.ret
            /\ \A i \in 1..Len(F.sites) :
                  F.sites[i].mode = "self" /\ StandsIn(F) => Takes(Shape(F.kinds[i + 1]), Shape(F.kinds[j]))

FormsOK == IsSeq(forms) /\ \A n \in 1..Len(forms) :
    Shaped(forms[n]) /\ Spoken(forms[n]) /\ ReturnsAs(forms[n])

\* What tier[f] says of the form it holds is so.
Agrees(t, f) ==
    /\ forms[t.form].fn = f
    /\ forms[t.form].param = t.param
    /\ forms[t.form].ret = t.ret
    /\ forms[t.form].writes = ~t.noWrite

TierOK ==
    /\ DOMAIN tier = Fns
    /\ \A f \in Fns : /\ DOMAIN tier[f] = TierFields
                      /\ tier[f].form \in 0..Len(forms)
                      /\ tier[f].form # 0 => Agrees(tier[f], f)

\* A value is of the kind and the shape it is taken for.
Typed(k, v) == ShapesStand => Takes(Shape(k), v.kind)

\* An activation stands in its body, a compiled one with a value of its kind.
ActOK(a) ==
    /\ DOMAIN a = ActFields
    /\ a.fn \in Fns /\ a.pc \in 1..Len(prog[a.fn])
    /\ a.form \in 0..Len(forms)
    /\ Compiled(a) => /\ forms[a.form].fn = a.fn
                      /\ a.pc \in 1..Len(forms[a.form].kinds)
                      /\ Typed(forms[a.form].kinds[a.pc], a.acc)

\* An activation that has called, and the one it called.
Waiting(a) ==
    /\ OpOf(prog, a)[1] = "call"
    /\ Compiled(a) => ~Stopped(a) /\ Site(a).mode \in {"self", "direct", "desc"}

Called(a, b) ==
    Compiled(a) => /\ Site(a).mode = "self" => b.form \in {0, a.form}
                   /\ Site(a).mode = "direct" => b.form \in {0, Site(a).form}

\* A compiled activation of a form that says it writes nothing.
WritesNone(a) == Compiled(a) /\ ~forms[a.form].writes

MachineOK ==
    /\ DOMAIN m = MFields
    /\ DOMAIN m.bound = DOMAIN Bound /\ \A name \in DOMAIN Bound : m.bound[name] \in Fns

\* What a form that writes nothing has called writes nothing, and none has written.
StackIn(s) ==
    /\ IsSeq(s)
    /\ \A i \in 1..Len(s) : ActOK(s[i])
    /\ \A i \in 1..Len(s) - 1 : Waiting(s[i]) /\ Called(s[i], s[i + 1])
    /\ Len(s) > 0 => s[1].form = 0
    /\ \A i, j \in 1..Len(s) : i <= j /\ WritesNone(s[i]) => WritesNone(s[j])
    /\ \A i \in 1..Len(s) : WritesNone(s[i]) => ~s[i].wrote
StackOK == StackIn(m.acts)

\* A call on its way in comes from a site that asks the entry.
PendingOK ==
    /\ pending.at \in {None, "form", "count", "tier", "again"}
    /\ pending.at # None =>
          /\ DOMAIN pending = {"at", "fn", "arg"} /\ pending.fn \in Fns
          /\ answer.verdict = None /\ Running(m) /\ Waiting(Top(m))
          /\ Site(Top(m)).mode \in {"interp", "desc"}

\* An answer in a bare register is of the kind the caller was compiled for.
Fit(a) ==
    answer.raw /\ Site(a).mode \in {"self", "direct"} =>
        Typed(forms[a.form].kinds[a.pc + 1], answer.value)

AnswerOK ==
    /\ answer.verdict \in {None, "done", "deopt", "raised"}
    /\ answer.verdict # None /\ Running(m) => Waiting(Top(m))
    /\ answer.verdict = "deopt" => deopt.fn \in Fns /\ deopt.pc \in 1..Len(prog[deopt.fn])
    /\ answer.verdict = "done" /\ Running(m) => Fit(Top(m))

IInv ==
    /\ prog \in Programs
    /\ MachineOK /\ FormsOK /\ TierOK /\ StackOK /\ PendingOK /\ AnswerOK

-----------------------------------------------------------------------------
(* The invariant of the bindings.                                              *)
Below(s) == \A i \in 2..Len(s) : s[i].fn # "main"

\* The script is not called.
NotScript ==
    /\ \A name \in DOMAIN Bound : m.bound[name] # "main"
    /\ Below(m.acts)
    /\ pending.at # None => pending.fn # "main"
    /\ answer.verdict = "deopt" /\ Running(m) => deopt.fn # "main"
    /\ \A n \in 1..Len(forms) : \A i \in 1..Len(forms[n].sites) : forms[n].sites[i].callee # "main"

\* A form is of this version of the bindings or an earlier one.
Dated == m.version \in Nat /\ \A f \in Fns : tier[f].version \in 0..m.version

\* F calls what the names are bound to, and branches to forms of S.
Covered(S, F) ==
    \A i \in 1..Len(F.sites) :
        /\ F.sites[i].name # None => m.bound[F.sites[i].name] = F.sites[i].callee
        /\ F.sites[i].mode = "direct" => F.sites[i].form \in S
Owned(S, s) == \A i \in 1..Len(s) : s[i].form # 0 => s[i].form \in S

\* S has the forms that run and those the tier may enter, and all it has is covered.
Upheld(S) ==
    /\ S \in SUBSET (1..Len(forms))
    /\ \A n \in S : Covered(S, forms[n])
    /\ \A f \in Fns : tier[f].form # 0 /\ tier[f].version = m.version => tier[f].form \in S
    /\ Owned(S, m.acts)

\* The invariant CallsCurrent needs beside IInv.
CInv == NotScript /\ Dated /\ \E S \in SUBSET (1..Len(forms)) : Upheld(S)

-----------------------------------------------------------------------------
(* Lists.                                                                    *)

\* What a list is.
LEMMA SeqIs ==
  ASSUME NEW s
  PROVE  IsSeq(s) => /\ Len(s) \in Nat /\ DOMAIN s = 1..Len(s)
BY DEF IsSeq

LEMMA SeqFrom ==
  ASSUME NEW s, NEW S, s \in Seq(S)
  PROVE  IsSeq(s)
<1>1. Len(s) \in Nat /\ s \in [1..Len(s) -> S]
  OBVIOUS
<1> PICK n, R : n = Len(s) /\ R = {s[i] : i \in 1..Len(s)}
  OBVIOUS
<1>2. s \in [1..n -> R] /\ n \in Nat
  BY <1>1
<1>3. s \in Seq(R)
  BY ONLY <1>2
<1> QED
  BY <1>3 DEF IsSeq

Extended(s, x, t) ==
    /\ IsSeq(t) /\ Len(s) \in Nat /\ Len(t) = Len(s) + 1
    /\ \A i \in 1..Len(s) : t[i] = s[i]
    /\ t[Len(s) + 1] = x
Shortened(s, t) ==
    /\ IsSeq(t) /\ Len(s) \in Nat /\ Len(t) = Len(s) - 1
    /\ \A i \in 1..Len(t) : t[i] = s[i]
Topped(s, x, t) ==
    /\ IsSeq(t) /\ Len(s) \in Nat /\ Len(t) = Len(s)
    /\ \A i \in 1..Len(s) - 1 : t[i] = s[i]
    /\ t[Len(s)] = x

LEMMA AppendIs ==
  ASSUME NEW s, IsSeq(s), NEW x, NEW t, t = Append(s, x)
  PROVE  Extended(s, x, t)
<1> DEFINE S == {s[i] : i \in 1..Len(s)} \cup {x}
<1>1. s \in Seq(S) /\ x \in S
  <2>1. s \in Seq({s[i] : i \in 1..Len(s)})
    BY DEF IsSeq
  <2>2. Len(s) \in Nat /\ s \in [1..Len(s) -> {s[i] : i \in 1..Len(s)}]
    BY <2>1
  <2>3. s \in [1..Len(s) -> S]
    BY <2>2
  <2> QED
    BY <2>2, <2>3
<1> HIDE DEF S
<1>2. t \in Seq(S)
  BY <1>1
<1>3. IsSeq(t)
  BY <1>2, SeqFrom
<1>4. Len(s) \in Nat /\ Len(t) = Len(s) + 1 /\ \A i \in 1..Len(s) : t[i] = s[i]
  BY <1>1
<1>5. t[Len(s) + 1] = x
  BY <1>1
<1> QED
  BY <1>3, <1>4, <1>5 DEF Extended

LEMMA PopIs ==
  ASSUME NEW s, IsSeq(s), Len(s) > 0, NEW t, t = SubSeq(s, 1, Len(s) - 1)
  PROVE  Shortened(s, t)
<1> PICK n, S : n = Len(s) - 1 /\ S = {s[i] : i \in 1..Len(s)}
  OBVIOUS
<1>1. Len(s) \in Nat /\ n \in Nat /\ \A i \in 1..n : s[i] \in S
  BY SeqIs
<1>2. /\ SubSeq(s, 1, n) \in Seq(S)
      /\ Len(SubSeq(s, 1, n)) = IF 1 <= n THEN n - 1 + 1 ELSE 0
      /\ \A i \in 1..n - 1 + 1 : SubSeq(s, 1, n)[i] = s[1 + i - 1]
  BY <1>1, SubSeqProperties
<1>3. t = SubSeq(s, 1, n)
  OBVIOUS
<1>4. IsSeq(t)
  BY <1>2, <1>3, SeqFrom
<1>5. Len(t) = n
  BY <1>1, <1>2, <1>3
<1>6. ASSUME NEW i \in 1..n PROVE t[i] = s[i]
  BY <1>1, <1>2, <1>3
<1> QED
  BY <1>1, <1>4, <1>5, <1>6 DEF Shortened

LEMMA SetTopIs ==
  ASSUME NEW s, IsSeq(s), Len(s) > 0, NEW x, NEW t, t = [s EXCEPT ![Len(s)] = x]
  PROVE  Topped(s, x, t)
<1> DEFINE S == {s[i] : i \in 1..Len(s)} \cup {x}
<1>1. s \in [1..Len(s) -> S] /\ Len(s) \in Nat /\ x \in S
  <2>1. s \in Seq({s[i] : i \in 1..Len(s)})
    BY DEF IsSeq
  <2>2. Len(s) \in Nat /\ s \in [1..Len(s) -> {s[i] : i \in 1..Len(s)}]
    BY <2>1
  <2> QED
    BY <2>2
<1> HIDE DEF S
<1> PICK n : n = Len(s)
  OBVIOUS
<1>2. n \in 1..n /\ t = [s EXCEPT ![n] = x]
  BY <1>1
<1>3. t \in [1..n -> S] /\ t[n] = x /\ \A i \in 1..n - 1 : t[i] = s[i]
  BY <1>1, <1>2
<1>4. t \in Seq(S) /\ Len(t) = n
  BY <1>1, <1>3
<1>5. IsSeq(t)
  BY <1>4, SeqFrom
<1> QED
  BY <1>1, <1>3, <1>4, <1>5 DEF Topped

LEMMA MapIs ==
  ASSUME NEW s, IsSeq(s), NEW t, DOMAIN t = DOMAIN s, t = [i \in DOMAIN t |-> t[i]]
  PROVE  IsSeq(t) /\ Len(t) = Len(s)
<1> DEFINE S == {t[i] : i \in 1..Len(s)}
<1>1. Len(s) \in Nat /\ DOMAIN t = 1..Len(s)
  BY SeqIs
<1>2. t \in [1..Len(s) -> S]
  BY <1>1
<1> HIDE DEF S
<1>3. t \in Seq(S) /\ Len(t) = Len(s)
  BY <1>1, <1>2
<1> QED
  BY <1>3, SeqFrom

-----------------------------------------------------------------------------
(* Folds. *)

Folded(tag, c, d, x, op) ==
    CASE tag = "walk" -> Emit(c, d, x, op)
      [] tag = "kind" -> KindAfter(c, x, op)
      [] tag = "value" -> ValueAfter(c, x, op)

\* Every set of natural numbers has a least one.
LEMMA LeastNumber ==
  ASSUME NEW Q \in SUBSET Nat, Q # {}
  PROVE  \E l \in Q : \A n \in Q : l <= n
<1> DEFINE U(n) == 1 .. n
<1> DEFINE C == {U(n) : n \in Q}
<1>1. C \subseteq FiniteSubsetsOf(Nat) /\ C # {}
  <2>1. \A n \in Q : IsFiniteSet(U(n)) /\ U(n) \subseteq Nat
    BY FS_Interval
  <2> QED
    BY <2>1 DEF FiniteSubsetsOf
<1>2. PICK x \in C : \A y \in C : <<y, x>> \notin StrictSubsetOrdering(Nat)
  <2> HIDE DEF C
  <2> QED
    BY <1>1, WFMin, FS_StrictSubsetOrderingWellFounded
<1>3. PICK l \in Q : x = U(l)
  BY <1>2
<1>4. ASSUME NEW n \in Q, n < l
      PROVE  FALSE
  <2>1. U(n) \subseteq U(l) /\ l \in U(l) /\ l \notin U(n) /\ U(n) \in C /\ U(l) \in SUBSET Nat
    BY <1>4
  <2>2. <<U(n), x>> \notin StrictSubsetOrdering(Nat)
    BY <1>2, <2>1
  <2> HIDE DEF U
  <2> QED
    BY <1>3, <2>1, <2>2 DEF StrictSubsetOrdering
<1> QED
  BY <1>4

\* A set of natural numbers that holds 0 and goes on is all of them.
LEMMA Inductive ==
  ASSUME NEW S \in SUBSET Nat, 0 \in S, \A n \in S : n + 1 \in S
  PROVE  S = Nat
<1> SUFFICES ASSUME S # Nat PROVE FALSE
  OBVIOUS
<1>1. PICK l \in Nat \ S : \A n \in Nat \ S : l <= n
  BY LeastNumber
<1>2. l - 1 \in Nat /\ l - 1 \in S
  BY <1>1
<1> QED
  BY <1>1, <1>2

\* The same up to N.
LEMMA InductiveTo ==
  ASSUME NEW N \in Nat, NEW S, 0 \in S, \A n \in 0 .. N - 1 : n \in S => n + 1 \in S
  PROVE  0 .. N \subseteq S
<1> DEFINE Q == {n \in Nat : n <= N => n \in S}
<1>1. 0 \in Q /\ \A n \in Q : n + 1 \in Q
  OBVIOUS
<1>2. Q = Nat
  <2> HIDE DEF Q
  <2>1. Q \in SUBSET Nat
    BY DEF Q
  <2> QED
    BY <1>1, <2>1, Inductive
<1> QED
  BY <1>2

FoldOf(tag, c, d, start, ops, N, f) ==
    f = [n \in 0..N |-> IF n = 0 THEN start ELSE Folded(tag, c, d, f[n - 1], ops[n])]

LEMMA FoldIs ==
  ASSUME NEW tag, NEW c, NEW d, NEW start, NEW ops, NEW N \in Nat
  PROVE  \E f : FoldOf(tag, c, d, start, ops, N, f)
<1> DEFINE G(x, n) == Folded(tag, c, d, x, ops[n])
           F(f, k) == [n \in 0..k |-> IF n = 0 THEN start ELSE G(f[n - 1], n)]
           S == {k \in Nat : \E f : f = F(f, k)}
<1>1. 0 \in S
  <2>1. PICK f : f = [n \in 0..0 |-> start]
    OBVIOUS
  <2> HIDE DEF G
  <2>2. f = F(f, 0)
    BY <2>1
  <2> QED
    BY <2>2
<1>2. ASSUME NEW k \in S PROVE k + 1 \in S
  <2> HIDE DEF G
  <2>1. PICK f : f = F(f, k)
    OBVIOUS
  <2>2. k \in Nat
    OBVIOUS
  <2>3. PICK g : g = [n \in 0..k + 1 |-> IF n = k + 1 THEN G(f[k], n) ELSE f[n]]
    OBVIOUS
  <2>4. \A n \in 0..k : g[n] = f[n]
    BY <2>2, <2>3
  <2>5. \A n \in 0..k + 1 : g[n] = IF n = 0 THEN start ELSE G(g[n - 1], n)
    <3> TAKE n \in 0..k + 1
    <3>1. CASE n = k + 1
      <4>1. g[n] = G(f[k], n) /\ n # 0 /\ n - 1 = k /\ k \in 0..k
        BY <2>2, <2>3, <3>1
      <4>2. g[n - 1] = f[k]
        BY <2>4, <4>1
      <4> QED
        BY <4>1, <4>2
    <3>2. CASE n = 0
      BY <2>1, <2>2, <2>4, <3>2
    <3>3. CASE n \in 1..k
      <4>1. n \in 0..k /\ n - 1 \in 0..k /\ n # 0
        BY <2>2, <3>3
      <4>2. f[n] = G(f[n - 1], n)
        BY <2>1, <4>1
      <4> QED
        BY <2>4, <4>1, <4>2
    <3> QED
      BY <2>2, <3>1, <3>2, <3>3
  <2>6. g = F(g, k + 1)
    <3>1. g = [n \in 0..k + 1 |-> g[n]]
      BY <2>3
    <3> QED
      BY <2>5, <3>1
  <2> QED
    BY <2>2, <2>6
<1>3. S = Nat
  <2> HIDE DEF S
  <2>1. S \in SUBSET Nat
    BY DEF S
  <2> QED
    BY <1>1, <1>2, <2>1, Inductive
<1>4. \E f : f = F(f, N)
  BY <1>3
<1> QED
  BY <1>4 DEF FoldOf

LEMMA OneOf ==
  ASSUME NEW x
  PROVE  (CHOOSE y \in {x} : TRUE) = x
OBVIOUS

-----------------------------------------------------------------------------
(* Kinds.                                                                    *)

LEMMA KindNames ==
  /\ "inst" \notin Classes /\ "int" \notin Classes /\ "dyn" \notin Classes
  /\ "inst" # "int" /\ "dyn" # "int"
  /\ DOMAIN Likeness = {"likeA", "likeB"} /\ DOMAIN Like = Classes
  /\ \A k \in Classes \cup {"inst", "int", "dyn"} : k \notin DOMAIN Likeness
<1>1. "inst" \notin {"A", "B"} /\ "int" \notin {"A", "B"} /\ "dyn" \notin {"A", "B"}
  OBVIOUS
<1>2. "inst" # "int" /\ "dyn" # "int"
  OBVIOUS
<1>3. DOMAIN Likeness = {"likeA", "likeB"} /\ DOMAIN Like = {"A", "B"}
  BY DEF Likeness, Like
<1>4. \A k \in {"A", "B", "inst", "int", "dyn"} : k \notin {"likeA", "likeB"}
  <2>1. /\ "A" \notin {"likeA", "likeB"} /\ "B" \notin {"likeA", "likeB"}
        /\ "inst" \notin {"likeA", "likeB"} /\ "int" \notin {"likeA", "likeB"}
        /\ "dyn" \notin {"likeA", "likeB"}
    OBVIOUS
  <2> QED
    BY <2>1
<1>5. Classes \cup {"inst", "int", "dyn"} = {"A", "B", "inst", "int", "dyn"}
  BY DEF Classes
<1>6. \A k \in Classes \cup {"inst", "int", "dyn"} : k \notin DOMAIN Likeness
  BY <1>3, <1>4, <1>5
<1> QED
  BY <1>1, <1>2, <1>3, <1>6 DEF Classes

\* A kind, its shape and its payload.
LEMMA KindIs ==
  ASSUME NEW k
  PROVE  /\ Shape(k) \notin DOMAIN Likeness
         /\ k \notin DOMAIN Likeness => Shape(k) = k /\ Payload(k) = k
         /\ k \in DOMAIN Likeness => Shape(k) \in Classes /\ Payload(k) = "inst"
         /\ k \in Classes => Shape(Taken(k)) = k
         /\ k \notin Classes => Taken(k) = k
<1>1. CASE k \in DOMAIN Likeness
  <2>1. k = "likeA" \/ k = "likeB"
    BY <1>1, KindNames
  <2>2. Likeness["likeA"] = "A" /\ Likeness["likeB"] = "B"
    BY DEF Likeness
  <2>3. Shape(k) \in Classes /\ Payload(k) = "inst"
    BY <1>1, <2>1, <2>2 DEF Shape, Payload, Classes
  <2> QED
    BY <1>1, <2>3, KindNames DEF Taken
<1>2. CASE k \notin DOMAIN Likeness
  <2>1. Shape(k) = k /\ Payload(k) = k
    BY <1>2 DEF Shape, Payload
  <2>2. ASSUME k \in Classes PROVE Shape(Taken(k)) = k
    <3>1. (k = "A" /\ Taken(k) = "likeA") \/ (k = "B" /\ Taken(k) = "likeB")
      <4>1. Taken(k) = Like[k] /\ (k = "A" \/ k = "B")
        BY <2>2 DEF Classes, Taken
      <4>2. Like["A"] = "likeA" /\ Like["B"] = "likeB"
        BY DEF Like
      <4> QED
        BY <4>1, <4>2
    <3>2. Likeness = [likeA |-> "A", likeB |-> "B"] /\ "likeA" # "likeB"
      BY DEF Likeness
    <3>3. /\ DOMAIN Likeness = {"likeA", "likeB"}
          /\ Likeness["likeA"] = "A" /\ Likeness["likeB"] = "B"
      BY <3>2
    <3> QED
      BY <3>1, <3>3 DEF Shape
  <2> QED
    BY <1>2, <2>1, <2>2 DEF Taken
<1> QED
  BY <1>1, <1>2

\* A guard that passes a value is of a kind values have, and so is the value.
LEMMA TakesReal ==
  ASSUME NEW k, NEW x, Takes(k, x)
  PROVE  /\ k \notin DOMAIN Likeness /\ x \notin DOMAIN Likeness
         /\ Shape(k) = k /\ Takes(Shape(k), x)
<1>1. k \notin DOMAIN Likeness /\ x \notin DOMAIN Likeness
  BY KindNames DEF Takes
<1> QED
  BY <1>1, KindIs

\* What is taken for a kind is taken for its payload, and for all that takes it.
LEMMA TakesTakes ==
  ASSUME NEW k, NEW x, Takes(Shape(k), x)
  PROVE  /\ Takes(Payload(k), x)
         /\ \A p : Takes(p, Shape(k)) \/ Takes(p, Payload(k)) => Takes(Shape(p), x)
<1>1. CASE k \in DOMAIN Likeness
  <2>1. Shape(k) \in Classes /\ x = Shape(k) /\ Payload(k) = "inst" /\ x \notin DOMAIN Likeness
    BY <1>1, KindIs, KindNames DEF Takes
  <2>2. ASSUME NEW p, Takes(p, Shape(k)) \/ Takes(p, Payload(k)) PROVE Takes(Shape(p), x)
    <3>1. p = x \/ p = "inst"
      BY <2>1, <2>2 DEF Takes
    <3>2. Shape(p) = p
      BY <2>1, <3>1, KindIs, KindNames
    <3> QED
      BY <2>1, <3>1, <3>2 DEF Takes
  <2> QED
    BY <2>1, <2>2 DEF Takes
<1>2. CASE k \notin DOMAIN Likeness
  <2>1. Shape(k) = k /\ Payload(k) = k /\ Takes(k, x)
    BY <1>2, KindIs
  <2>2. ASSUME NEW p, Takes(p, k) PROVE Takes(Shape(p), x)
    <3>1. Shape(p) = p
      BY <2>2, TakesReal
    <3> QED
      BY <2>1, <2>2, <3>1, KindNames DEF Takes
  <2> QED
    BY <2>1, <2>2
<1> QED
  BY <1>1, <1>2

-----------------------------------------------------------------------------
(* The walk.                                                                 *)

\* The fields of the walk.
WalkFields == {"kind", "kinds", "sites", "rets", "stop", "bad", "writes", "self", "guessed"}

\* All the walk asks of the state it is made in.
Static == prog \in Programs /\ MachineOK /\ IsSeq(forms) /\ TierOK
          /\ \A n \in 1..Len(forms) : forms[n].writes \in BOOLEAN

\* The kind after operation i, the one under way included.
NextKind(w, i) == IF i < Len(w.kinds) THEN w.kinds[i + 1] ELSE w.kind

\* A site is of the bindings and the forms there are now.
Fresh(s) ==
    /\ s = NoSite \/ \E name \in DOMAIN Bound : m.bound[name] = s.callee
    /\ s.name # None => m.bound[s.name] = s.callee
    /\ s.mode = "direct" => /\ s.callee \in Fns /\ tier[s.callee].form = s.form
                            /\ s.form # 0 /\ tier[s.callee].version = m.version

\* What a call of itself was taken to return is what the walk had seen then.
SelfOK(w, i) ==
    /\ w.self
    /\ \E R \in SUBSET w.rets :
          /\ Merged(R) # "dyn"
          /\ R = {} => w.guessed
          /\ w.sites[i].ret = Merged(R) /\ NextKind(w, i) = Taken(Merged(R))

\* How far the walk has got after n operations.
Reached(n, w) ==
    \/ w.stop = 0 /\ Len(w.kinds) = n /\ Len(w.sites) = n
    \/ w.stop \in 1..n /\ Len(w.kinds) = w.stop /\ Len(w.sites) = w.stop - 1

\* The sites so far are what they may be.
OpsOK(fn, param, w) ==
    \A i \in 1..Len(w.sites) :
        OpOK(fn, param, prog[fn][i], w.sites[i], w.kinds[i], NextKind(w, i), w.writes)

\* What a walk that does not decline has after n operations.
Walked(fn, param, n, w) ==
    /\ w.writes \in BOOLEAN /\ IsFiniteSet(w.rets) /\ IsSeq(w.kinds) /\ IsSeq(w.sites)
    /\ \A ret \in w.rets : ret \notin DOMAIN Likeness
    /\ Reached(n, w)
    /\ NextKind(w, 0) = param
    /\ OpsOK(fn, param, w)
    /\ \A i \in 1..Len(w.sites) : Leaves(fn, i) => Shape(w.kinds[i]) \in w.rets
    /\ \A i \in 1..Len(w.sites) : w.sites[i].mode = "self" => SelfOK(w, i)
    /\ \A i \in 1..Len(w.sites) : Fresh(w.sites[i])

\* What was said of an operation still holds when more is written.
LEMMA OpOKGrows ==
  ASSUME NEW fn, NEW param, NEW op, NEW s, NEW k, NEW next, NEW x, NEW y,
         OpOK(fn, param, op, s, k, next, x), x => y
  PROVE  OpOK(fn, param, op, s, k, next, y)
BY DEF OpOK, CallOK

\* A step of the walk adds and takes nothing back.
Grows(w, v) ==
    /\ v.kinds = Append(w.kinds, w.kind)
    /\ w.writes => v.writes
    /\ w.rets \subseteq v.rets
    /\ w.self => v.self
    /\ w.guessed => v.guessed

LEMMA GrowsNext ==
  ASSUME NEW w, NEW v, Grows(w, v), IsSeq(w.kinds), NEW i \in 0..Len(w.kinds)
  PROVE  NextKind(v, i) = NextKind(w, i)
<1> PICK ks : ks = w.kinds
  OBVIOUS
<1> PICK js : js = v.kinds
  OBVIOUS
<1>1. /\ Len(ks) \in Nat /\ Len(js) = Len(ks) + 1
      /\ \A j \in 1..Len(ks) : js[j] = ks[j]
      /\ js[Len(ks) + 1] = w.kind
  <2>1. Extended(ks, w.kind, js)
    BY AppendIs DEF Grows
  <2> QED
    BY <2>1 DEF Extended
<1>2. CASE i = Len(ks)
  BY <1>1, <1>2 DEF NextKind
<1>3. CASE i < Len(ks)
  <2>1. i + 1 \in 1..Len(ks) /\ i < Len(js)
    BY <1>1, <1>3
  <2> QED
    BY <1>1, <1>3, <2>1 DEF NextKind
<1> QED
  BY <1>1, <1>2, <1>3

\* A call of itself stays accounted for.
LEMMA SelfGrows ==
  ASSUME NEW w, NEW v, NEW i, SelfOK(w, i), Grows(w, v), NextKind(v, i) = NextKind(w, i),
         v.sites[i] = w.sites[i]
  PROVE  SelfOK(v, i)
<1>1. PICK R \in SUBSET w.rets :
          /\ Merged(R) # "dyn"
          /\ R = {} => w.guessed
          /\ w.sites[i].ret = Merged(R) /\ NextKind(w, i) = Taken(Merged(R))
  BY DEF SelfOK
<1>2. R \in SUBSET v.rets
  BY DEF Grows
<1>3. R = {} => v.guessed
  BY <1>1 DEF Grows
<1>4. w.self /\ v.self
  BY DEF Grows, SelfOK
<1> QED
  BY <1>1, <1>2, <1>3, <1>4 DEF SelfOK

\* The walk stops here.
LEMMA StopStep ==
  ASSUME NEW fn, NEW param, NEW n \in Nat, NEW w, NEW v,
         Walked(fn, param, n, w), w.stop = 0,
         Grows(w, v), v.sites = w.sites, v.stop = n + 1, v.rets = w.rets, v.writes = w.writes
  PROVE  Walked(fn, param, n + 1, v)
<1> PICK z : z = Len(w.sites)
  OBVIOUS
<1>1. /\ IsSeq(w.kinds) /\ IsSeq(w.sites) /\ IsSeq(v.kinds) /\ z = n /\ Len(w.kinds) = n
      /\ Len(v.kinds) = n + 1 /\ \A i \in 1..n : v.kinds[i] = w.kinds[i]
  <2>1. IsSeq(w.kinds) /\ IsSeq(w.sites) /\ z = n /\ Len(w.kinds) = n
    BY DEF Walked, Reached
  <2> PICK ks, js : ks = w.kinds /\ js = v.kinds
    OBVIOUS
  <2>2. js = Append(ks, w.kind) /\ IsSeq(ks)
    BY <2>1 DEF Grows
  <2>3. Extended(ks, w.kind, js)
    BY <2>2, AppendIs
  <2> QED
    BY <2>1, <2>3 DEF Extended
<1>2. \A i \in 0..n : NextKind(v, i) = NextKind(w, i)
  BY <1>1, GrowsNext
<1>3. v.writes \in BOOLEAN /\ IsFiniteSet(v.rets) /\ IsSeq(v.sites) /\ Reached(n + 1, v)
  BY <1>1 DEF Walked, Reached
<1>4. NextKind(v, 0) = param
  BY <1>2 DEF Walked
<1>5. OpsOK(fn, param, v)
  BY <1>1, <1>2 DEF Walked, OpsOK
<1>6. \A i \in 1..Len(v.sites) : Leaves(fn, i) => Shape(v.kinds[i]) \in v.rets
  BY <1>1 DEF Walked
<1>7. ASSUME NEW i \in 1..Len(v.sites), v.sites[i].mode = "self" PROVE SelfOK(v, i)
  <2>1. SelfOK(w, i) /\ NextKind(v, i) = NextKind(w, i) /\ v.sites[i] = w.sites[i]
    BY <1>1, <1>2, <1>7 DEF Walked
  <2> QED
    BY <2>1, SelfGrows
<1>8. \A i \in 1..Len(v.sites) : Fresh(v.sites[i])
  BY <1>1 DEF Walked
<1> QED
  BY <1>1, <1>3, <1>4, <1>5, <1>6, <1>7, <1>8 DEF Walked

\* The walk passes one operation.
LEMMA OpStep ==
  ASSUME NEW fn, NEW param, NEW n \in Nat, NEW w, NEW v, NEW s,
         Walked(fn, param, n, w), w.stop = 0,
         Grows(w, v), v.sites = Append(w.sites, s), v.stop = 0,
         v.writes \in BOOLEAN, IsFiniteSet(v.rets), \A ret \in v.rets : ret \notin DOMAIN Likeness,
         OpOK(fn, param, prog[fn][n + 1], s, w.kind, v.kind, v.writes),
         Leaves(fn, n + 1) => Shape(w.kind) \in v.rets,
         Fresh(s),
         s.mode = "self" =>
            /\ v.self
            /\ Merged(w.rets) # "dyn"
            /\ w.rets = {} => v.guessed
            /\ s.ret = Merged(w.rets) /\ v.kind = Taken(Merged(w.rets))
  PROVE  Walked(fn, param, n + 1, v)
<1>1. /\ IsSeq(w.kinds) /\ IsSeq(w.sites) /\ Len(w.sites) = n /\ Len(w.kinds) = n
  BY DEF Walked, Reached
<1>2. /\ IsSeq(v.kinds) /\ Len(v.kinds) = n + 1 /\ v.kinds[n + 1] = w.kind
      /\ \A i \in 1..n : v.kinds[i] = w.kinds[i]
  <2> PICK ks, js : ks = w.kinds /\ js = v.kinds
    OBVIOUS
  <2>2. js = Append(ks, w.kind) /\ IsSeq(ks)
    BY <1>1 DEF Grows
  <2>3. Extended(ks, w.kind, js)
    BY <2>2, AppendIs
  <2> QED
    BY <1>1, <2>3 DEF Extended
<1>3. /\ IsSeq(v.sites) /\ Len(v.sites) = n + 1 /\ v.sites[n + 1] = s
      /\ \A i \in 1..n : v.sites[i] = w.sites[i]
  <2> PICK ks, js : ks = w.sites /\ js = v.sites
    OBVIOUS
  <2>2. js = Append(ks, s) /\ IsSeq(ks)
    BY <1>1
  <2>3. Extended(ks, s, js)
    BY <2>2, AppendIs
  <2> QED
    BY <1>1, <2>3 DEF Extended
<1>4. \A i \in 0..n : NextKind(v, i) = NextKind(w, i)
  BY <1>1, GrowsNext
<1>5. NextKind(v, n + 1) = v.kind
  BY <1>2 DEF NextKind
<1>6. Reached(n + 1, v) /\ NextKind(v, 0) = param
  BY <1>2, <1>3, <1>4 DEF Walked, Reached
<1>7. OpsOK(fn, param, v)
  <2>1. ASSUME NEW i \in 1..n
        PROVE  OpOK(fn, param, prog[fn][i], v.sites[i], v.kinds[i], NextKind(v, i), v.writes)
    <3>1. OpOK(fn, param, prog[fn][i], w.sites[i], w.kinds[i], NextKind(w, i), w.writes)
      BY <1>1 DEF Walked, OpsOK
    <3>2. OpOK(fn, param, prog[fn][i], w.sites[i], w.kinds[i], NextKind(w, i), v.writes)
      BY <3>1, OpOKGrows DEF Grows
    <3> QED
      BY <3>2, <1>2, <1>3, <1>4
  <2>2. OpOK(fn, param, prog[fn][n + 1], v.sites[n + 1], v.kinds[n + 1], NextKind(v, n + 1), v.writes)
    BY <1>2, <1>3, <1>5
  <2> QED
    BY <1>3, <2>1, <2>2 DEF OpsOK
<1>8. ASSUME NEW i \in 1..Len(v.sites), Leaves(fn, i) PROVE Shape(v.kinds[i]) \in v.rets
  <2>1. CASE i \in 1..n
    BY <1>1, <1>2, <1>8, <2>1 DEF Walked, Grows
  <2>2. CASE i = n + 1
    BY <1>2, <1>8, <2>2
  <2> QED
    BY <1>3, <2>1, <2>2
<1>9. ASSUME NEW i \in 1..Len(v.sites), v.sites[i].mode = "self" PROVE SelfOK(v, i)
  <2>1. CASE i \in 1..n
    <3>1. SelfOK(w, i) /\ NextKind(v, i) = NextKind(w, i) /\ v.sites[i] = w.sites[i]
      BY <1>1, <1>3, <1>4, <1>9, <2>1 DEF Walked
    <3> QED
      BY <3>1, SelfGrows
  <2>2. CASE i = n + 1
    BY <1>3, <1>5, <1>9, <2>2 DEF SelfOK, Grows
  <2> QED
    BY <1>3, <2>1, <2>2
<1>10. ASSUME NEW i \in 1..Len(v.sites) PROVE Fresh(v.sites[i])
  <2>1. CASE i \in 1..n
    BY <1>1, <1>3, <2>1 DEF Walked
  <2>2. CASE i = n + 1
    BY <1>3, <2>2
  <2> QED
    BY <1>3, <2>1, <2>2
<1> QED
  BY <1>2, <1>3, <1>6, <1>7, <1>8, <1>9, <1>10 DEF Walked

-----------------------------------------------------------------------------
(* What the walk makes of an operation.                                      *)

\* The four kinds of site.
LEMMA SelfSiteIs ==
  ASSUME NEW fn, NEW name, NEW param, NEW w, NEW c, c = SelfSite(fn, name, param, w)
  PROVE  /\ c.site.mode = "self" /\ c.site.callee = fn /\ c.site.name = name /\ c.site.writes
         /\ ~c.bad => Merged(w.rets) # "dyn" /\ Takes(param, Payload(w.kind))
         /\ c.site.ret = Merged(w.rets) /\ c.kind = Taken(Merged(w.rets))
<1>1. PICK r : r = Merged(w.rets)
  OBVIOUS
<1>2. PICK s : s = [NoSite EXCEPT !.mode = "self", !.callee = fn, !.ret = r, !.name = name]
  OBVIOUS
<1>3. c.site = s /\ c.bad = (~Takes(param, Payload(w.kind)) \/ r = "dyn") /\ c.kind = Taken(r)
  BY <1>1, <1>2 DEF SelfSite
<1>4. s.mode = "self" /\ s.callee = fn /\ s.name = name /\ s.writes /\ s.ret = r
  BY <1>2 DEF NoSite
<1> QED
  BY <1>1, <1>3, <1>4

LEMMA InlineSiteIs ==
  ASSUME NEW g, NEW name, NEW w, NEW c, c = InlineSite(g, name, w)
  PROVE  /\ c.site.mode = "inline" /\ c.site.callee = g /\ c.site.name = name /\ ~c.site.writes
         /\ c.site.cell = m.cell.kind
         /\ c.kind = InlineKind(prog[g], w.kind, m.cell.kind)
<1>1. PICK k : k = m.cell.kind
  OBVIOUS
<1>2. PICK s : s = [NoSite EXCEPT !.mode = "inline", !.callee = g, !.name = name, !.cell = k, !.writes = FALSE]
  OBVIOUS
<1>3. c.site = s /\ c.kind = InlineKind(prog[g], w.kind, m.cell.kind)
  BY <1>1, <1>2 DEF InlineSite
<1>4. s.mode = "inline" /\ s.callee = g /\ s.name = name /\ ~s.writes /\ s.cell = k
  BY <1>2 DEF NoSite
<1> QED
  BY <1>1, <1>3, <1>4

LEMMA DirectSiteIs ==
  ASSUME NEW g, NEW name, NEW t, NEW c, c = DirectSite(g, name, t)
  PROVE  /\ c.site.mode = "direct" /\ c.site.callee = g /\ c.site.name = name
         /\ c.site.writes = ~t.noWrite
         /\ c.site.form = t.form /\ c.site.ret = t.ret /\ c.kind = t.ret
<1>1. PICK s, b : /\ b = ~t.noWrite
                  /\ s = [NoSite EXCEPT !.mode = "direct", !.callee = g, !.name = name,
                                        !.form = t.form, !.ret = t.ret, !.writes = b]
  OBVIOUS
<1>2. c.site = s /\ c.kind = t.ret
  BY <1>1 DEF DirectSite
<1>3. /\ s.mode = "direct" /\ s.callee = g /\ s.name = name /\ s.writes = b
      /\ s.form = t.form /\ s.ret = t.ret
  BY <1>1 DEF NoSite
<1> QED
  BY <1>1, <1>2, <1>3

LEMMA DescSiteIs ==
  ASSUME NEW g, NEW name, NEW t, NEW c, c = DescSite(g, name, t)
  PROVE  /\ c.site.mode = "desc" /\ c.site.callee = g /\ c.site.name = name /\ c.site.writes
         /\ c.site.ret = c.kind
<1>1. PICK r : r = IF t.obs \in Classes \cup {"int"} THEN t.obs ELSE t.ret
  OBVIOUS
<1>2. PICK s : s = [NoSite EXCEPT !.mode = "desc", !.callee = g, !.ret = r, !.name = name]
  OBVIOUS
<1>3. c.site = s /\ c.kind = r
  BY <1>1, <1>2 DEF DescSite
<1>4. s.mode = "desc" /\ s.callee = g /\ s.name = name /\ s.writes /\ s.ret = r
  BY <1>2 DEF NoSite
<1> QED
  BY <1>3, <1>4

\* Whichever it is, the site is sound and fresh.
LEMMA CallSiteOK ==
  ASSUME Static, NEW fn \in Fns, NEW param, NEW w, NEW name \in DOMAIN Bound,
         NEW c, c = CallSite(fn, param, w, name), ~c.bad,
         m.bound[name] = fn \/ tier[m.bound[name]].form # 0,
         NEW writes, c.site.writes => writes
  PROVE  /\ CallOK(fn, param, c.site, w.kind, c.kind, writes)
         /\ Fresh(c.site)
         /\ c.site.mode = "self" =>
              /\ Merged(w.rets) # "dyn"
              /\ c.site.ret = Merged(w.rets) /\ c.kind = Taken(Merged(w.rets))
<1> PICK g : g = m.bound[name]
  OBVIOUS
<1>1. g \in Fns
  BY DEF Static, MachineOK
<1>2. CASE g = fn
  <2>1. c = SelfSite(fn, name, param, w)
    BY <1>2 DEF CallSite
  <2>2. /\ c.site.mode = "self" /\ c.site.callee = fn /\ c.site.name = name /\ c.site.writes
        /\ Merged(w.rets) # "dyn" /\ Takes(param, Payload(w.kind)) /\ c.site.ret = Merged(w.rets)
        /\ c.kind = Taken(Merged(w.rets))
    BY ONLY <2>1, ~c.bad, SelfSiteIs
  <2> QED
    BY <1>1, <1>2, <2>2 DEF CallOK, Fresh
<1>3. CASE g # fn /\ Inlinable(prog[g]) /\ InlineKind(prog[g], w.kind, m.cell.kind) # None
  <2>1. c = InlineSite(g, name, w)
    BY <1>3 DEF CallSite
  <2>2. /\ c.site.mode = "inline" /\ c.site.callee = g /\ c.site.name = name /\ ~c.site.writes
        /\ c.site.cell = m.cell.kind
        /\ c.kind = InlineKind(prog[g], w.kind, m.cell.kind)
    BY ONLY <2>1, InlineSiteIs
  <2> QED
    BY <1>1, <1>3, <2>2 DEF CallOK, Fresh
<1>4. CASE /\ g # fn /\ ~(Inlinable(prog[g]) /\ InlineKind(prog[g], w.kind, m.cell.kind) # None)
           /\ Direct(tier[g], w)
  <2>1. c = DirectSite(g, name, tier[g])
    BY <1>4 DEF CallSite
  <2> PICK t : t = tier[g]
    OBVIOUS
  <2>2. /\ c.site.mode = "direct" /\ c.site.callee = g /\ c.site.name = name /\ c.site.writes = ~t.noWrite
        /\ c.site.form = t.form /\ c.site.ret = t.ret /\ c.kind = t.ret
    BY <2>1, DirectSiteIs
  <2>3. /\ t.form # 0 /\ t.form \in 0..Len(forms) /\ Agrees(t, g) /\ t.version = m.version
        /\ Takes(t.param, Shape(w.kind)) /\ t.ret \in Classes \cup {"int"}
    BY <1>1, <1>4 DEF Static, TierOK, Direct
  <2>4. t.form \in 1..Len(forms) /\ forms[t.form].writes \in BOOLEAN
    BY <2>3, SeqIs DEF Static
  <2>5. DirectOK(c.site, w.kind)
    BY <2>2, <2>3, <2>4 DEF DirectOK, Agrees
  <2>6. Fresh(c.site)
    BY <1>1, <2>2, <2>3 DEF Fresh
  <2> QED
    BY <1>1, <2>2, <2>4, <2>5, <2>6 DEF CallOK
<1>5. CASE /\ g # fn /\ ~(Inlinable(prog[g]) /\ InlineKind(prog[g], w.kind, m.cell.kind) # None)
           /\ ~Direct(tier[g], w)
  <2> PICK t : t = tier[g]
    OBVIOUS
  <2>1. c = DescSite(g, name, t)
    BY <1>5 DEF CallSite
  <2>2. /\ c.site.mode = "desc" /\ c.site.callee = g /\ c.site.name = name /\ c.site.writes
        /\ c.site.ret = c.kind
    BY ONLY <2>1, DescSiteIs
  <2> QED
    BY <1>1, <2>2 DEF CallOK, Fresh
<1> QED
  BY <1>2, <1>3, <1>4, <1>5

LEMMA NoSiteIs ==
  /\ NoSite.mode = "interp" /\ Fresh(NoSite) /\ NoSite.writes
BY DEF NoSite, Fresh

\* An operation that neither stops nor calls.
LEMMA EmitPlain ==
  ASSUME Static, NEW fn \in Fns, NEW param, NEW n \in Nat, n < Len(prog[fn]),
         NEW w, DOMAIN w = WalkFields, ~w.bad, w.stop = 0, Walked(fn, param, n, w),
         NEW op, op = prog[fn][n + 1], op[1] \in {"let", "load", "write", "field", "down", "ret"},
         op[1] = "let" => op[2].kind \notin DOMAIN Likeness,
         NEW v, v = Emit(fn, param, w, op), ~v.bad
  PROVE  DOMAIN v = WalkFields /\ Walked(fn, param, n + 1, v)
<1>1. ~Unarmed(fn, op)
  BY DEF Unarmed
<1> PICK u : u = [w EXCEPT !.kinds = Append(@, w.kind)]
  OBVIOUS
<1>2. /\ DOMAIN u = WalkFields /\ u.kinds = Append(w.kinds, w.kind) /\ u.sites = w.sites
      /\ u.kind = w.kind /\ u.rets = w.rets /\ u.stop = 0 /\ ~u.bad /\ u.writes = w.writes
      /\ u.self = w.self /\ u.guessed = w.guessed
  BY DEF WalkFields
<1> DEFINE P(k) == [u EXCEPT !.kind = k, !.sites = Append(@, NoSite)]
<1>3. ASSUME NEW k PROVE
      /\ DOMAIN P(k) = WalkFields /\ P(k).kinds = Append(w.kinds, w.kind)
      /\ P(k).sites = Append(w.sites, NoSite)
      /\ P(k).kind = k /\ P(k).rets = w.rets /\ P(k).stop = 0 /\ ~P(k).bad /\ P(k).writes = w.writes
      /\ P(k).self = w.self /\ P(k).guessed = w.guessed
  BY <1>2 DEF WalkFields
<1>4. /\ w.writes \in BOOLEAN /\ IsFiniteSet(w.rets) /\ \A ret \in w.rets : ret \notin DOMAIN Likeness
  BY DEF Walked
<1>5. CASE op[1] = "let"
  <2>1. v = P(op[2].kind)
    BY <1>1, <1>2, <1>5 DEF Emit
  <2> PICK k : k = op[2].kind
    OBVIOUS
  <2>4. /\ DOMAIN v = WalkFields /\ v.kinds = Append(w.kinds, w.kind) /\ v.sites = Append(w.sites, NoSite)
        /\ v.kind = k /\ v.rets = w.rets /\ v.stop = 0 /\ v.writes = w.writes
        /\ v.self = w.self /\ v.guessed = w.guessed
    BY <1>3, <2>1
  <2> HIDE DEF P
  <2>2. OpOK(fn, param, op, NoSite, w.kind, v.kind, v.writes)
    BY <1>5, <2>1, <2>4 DEF OpOK
  <2>3. Grows(w, v) /\ ~Leaves(fn, n + 1)
    BY <1>5, <2>4 DEF Grows, Leaves
  <2> QED
    BY <1>4, <2>2, <2>3, <2>4, NoSiteIs, OpStep
<1>6. CASE op[1] = "load"
  <2>1. v = P(m.cell.kind)
    BY <1>1, <1>2, <1>6 DEF Emit
  <2> PICK k : k = m.cell.kind
    OBVIOUS
  <2>4. /\ DOMAIN v = WalkFields /\ v.kinds = Append(w.kinds, w.kind) /\ v.sites = Append(w.sites, NoSite)
        /\ v.kind = k /\ v.rets = w.rets /\ v.stop = 0 /\ v.writes = w.writes
        /\ v.self = w.self /\ v.guessed = w.guessed
    BY <1>3, <2>1
  <2> HIDE DEF P
  <2>2. OpOK(fn, param, op, NoSite, w.kind, v.kind, v.writes)
    BY <1>6, <2>1, <2>4 DEF OpOK
  <2>3. Grows(w, v) /\ ~Leaves(fn, n + 1)
    BY <1>6, <2>4 DEF Grows, Leaves
  <2> QED
    BY <1>4, <2>2, <2>3, <2>4, NoSiteIs, OpStep
<1>7. CASE op[1] = "write"
  <2> PICK x : x = P(w.kind)
    OBVIOUS
  <2>1. v = [x EXCEPT !.writes = TRUE]
    BY <1>1, <1>2, <1>7 DEF Emit
  <2>2. /\ DOMAIN v = WalkFields /\ v.kinds = Append(w.kinds, w.kind) /\ v.sites = Append(w.sites, NoSite)
        /\ v.kind = w.kind /\ v.rets = w.rets /\ v.stop = 0 /\ v.writes = TRUE
        /\ v.self = w.self /\ v.guessed = w.guessed
    BY <1>3, <2>1 DEF WalkFields
  <2> HIDE DEF P
  <2>3. OpOK(fn, param, op, NoSite, w.kind, v.kind, v.writes)
    BY <1>7, <2>2 DEF OpOK
  <2>4. Grows(w, v) /\ ~Leaves(fn, n + 1)
    BY <1>7, <2>2 DEF Grows, Leaves
  <2> QED
    BY <1>4, <2>2, <2>3, <2>4, NoSiteIs, OpStep
<1>8. CASE op[1] = "field"
  <2>1. w.kind \in Classes /\ v = P(FieldKind[w.kind])
    <3>1. CASE w.kind \in Classes
      BY <1>1, <1>2, <1>8, <3>1 DEF Emit
    <3>2. CASE w.kind \notin Classes
      <4>1. v = [u EXCEPT !.bad = TRUE]
        BY <1>1, <1>2, <1>8, <3>2 DEF Emit
      <4> QED
        BY <1>2, <4>1 DEF WalkFields
    <3> QED
      BY <3>1, <3>2
  <2> PICK k : k = FieldKind[w.kind]
    OBVIOUS
  <2>4. /\ DOMAIN v = WalkFields /\ v.kinds = Append(w.kinds, w.kind) /\ v.sites = Append(w.sites, NoSite)
        /\ v.kind = k /\ v.rets = w.rets /\ v.stop = 0 /\ v.writes = w.writes
        /\ v.self = w.self /\ v.guessed = w.guessed
    BY <1>3, <2>1
  <2> HIDE DEF P
  <2>2. OpOK(fn, param, op, NoSite, w.kind, v.kind, v.writes)
    BY <1>8, <2>1, <2>4 DEF OpOK
  <2>3. Grows(w, v) /\ ~Leaves(fn, n + 1)
    BY <1>8, <2>4 DEF Grows, Leaves
  <2> QED
    BY <1>4, <2>2, <2>3, <2>4, NoSiteIs, OpStep
<1>9. CASE op[1] \in {"down", "ret"}
  <2> PICK x : x = P(w.kind)
    OBVIOUS
  <2>1. v = [x EXCEPT !.rets = @ \cup {Shape(w.kind)}]
    BY <1>1, <1>2, <1>9 DEF Emit
  <2>2. /\ DOMAIN v = WalkFields /\ v.kinds = Append(w.kinds, w.kind) /\ v.sites = Append(w.sites, NoSite)
        /\ v.kind = w.kind /\ v.rets = w.rets \cup {Shape(w.kind)} /\ v.stop = 0 /\ v.writes = w.writes
        /\ v.self = w.self /\ v.guessed = w.guessed
    BY <1>3, <2>1 DEF WalkFields
  <2> HIDE DEF P
  <2>3. OpOK(fn, param, op, NoSite, w.kind, v.kind, v.writes)
    BY <1>9, <2>2 DEF OpOK
  <2>4. Grows(w, v) /\ Shape(w.kind) \in v.rets
    BY <2>2 DEF Grows
  <2>5. IsFiniteSet(v.rets)
    <3> PICK R, k : R = w.rets /\ k = Shape(w.kind)
      OBVIOUS
    <3>1. IsFiniteSet(R \cup {k})
      BY <1>4, FS_AddElement
    <3> QED
      BY <2>2, <3>1
  <2>6. v.writes \in BOOLEAN /\ \A ret \in v.rets : ret \notin DOMAIN Likeness
    BY <1>4, <2>2, KindIs
  <2>7. Walked(fn, param, n + 1, v)
    BY <2>2, <2>3, <2>4, <2>5, <2>6, NoSiteIs, OpStep
  <2> QED
    BY <2>2, <2>7
<1> QED
  BY <1>5, <1>6, <1>7, <1>8, <1>9

-----------------------------------------------------------------------------
(* The walk as a fold.                                                       *)

\* The walk after a call.
AfterCall(u, a, b, c, x, y, z) ==
  [u EXCEPT !.kind = a, !.bad = b, !.sites = c, !.writes = x, !.self = y, !.guessed = z]

\* What it holds.
IsAfterCall(u, v, a, b, c, x, y, z) ==
  /\ DOMAIN v = WalkFields /\ v.kinds = u.kinds /\ v.rets = u.rets /\ v.stop = u.stop
  /\ v.kind = a /\ v.bad = b /\ v.sites = c
  /\ v.writes = x /\ v.self = y /\ v.guessed = z

\* A call changes six fields of the walk.
LEMMA CallFields ==
  ASSUME NEW u, DOMAIN u = WalkFields, NEW a, NEW b, NEW c, NEW x, NEW y, NEW z
  PROVE  IsAfterCall(u, AfterCall(u, a, b, c, x, y, z), a, b, c, x, y, z)
BY DEF WalkFields, AfterCall, IsAfterCall

\* A call.
LEMMA EmitCall ==
  ASSUME Static, NEW fn \in Fns, NEW param, NEW n \in Nat, n < Len(prog[fn]),
         NEW w, DOMAIN w = WalkFields, ~w.bad, w.stop = 0, Walked(fn, param, n, w),
         NEW op, op = prog[fn][n + 1], op[1] = "call", op[2] \in DOMAIN Bound, ~Unarmed(fn, op),
         NEW v, v = Emit(fn, param, w, op)
  PROVE  DOMAIN v = WalkFields /\ (~v.bad => Walked(fn, param, n + 1, v))
<1> PICK u : u = [w EXCEPT !.kinds = Append(@, w.kind)]
  OBVIOUS
<1>2. /\ DOMAIN u = WalkFields /\ u.kinds = Append(w.kinds, w.kind) /\ u.sites = w.sites
      /\ u.kind = w.kind /\ u.rets = w.rets /\ u.stop = 0 /\ ~u.bad /\ u.writes = w.writes
      /\ u.self = w.self /\ u.guessed = w.guessed
  BY DEF WalkFields
<1> PICK name, c : name = op[2] /\ c = CallSite(fn, param, u, name)
  OBVIOUS
<1> PICK x, y, z : /\ x = (u.writes \/ c.site.writes)
                   /\ y = (u.self \/ c.site.mode = "self")
                   /\ z = (u.guessed \/ (c.site.mode = "self" /\ u.rets = {}))
  OBVIOUS
<1>a. v = [u EXCEPT !.kind = c.kind, !.bad = c.bad, !.sites = Append(u.sites, c.site),
                    !.writes = x, !.self = y, !.guessed = z]
  BY <1>2 DEF Emit
<1>b. v = AfterCall(u, c.kind, c.bad, Append(u.sites, c.site), x, y, z)
  BY ONLY <1>a DEF AfterCall
<1>c. DOMAIN u = WalkFields
  BY <1>2
<1>4. /\ DOMAIN v = WalkFields /\ v.kinds = Append(w.kinds, w.kind)
      /\ v.sites = Append(w.sites, c.site) /\ v.kind = c.kind /\ v.rets = w.rets /\ v.stop = 0
      /\ v.writes = x /\ v.self = y /\ v.guessed = z /\ v.bad = c.bad
  <2>1. /\ DOMAIN v = WalkFields /\ v.kinds = u.kinds /\ v.rets = u.rets /\ v.stop = u.stop
        /\ v.kind = c.kind /\ v.bad = c.bad /\ v.sites = Append(u.sites, c.site)
        /\ v.writes = x /\ v.self = y /\ v.guessed = z
    <3>1. IsAfterCall(u, v, c.kind, c.bad, Append(u.sites, c.site), x, y, z)
      <4>1. IsAfterCall(u, AfterCall(u, c.kind, c.bad, Append(u.sites, c.site), x, y, z),
                        c.kind, c.bad, Append(u.sites, c.site), x, y, z)
        BY ONLY <1>c, CallFields
      <4> QED
        BY ONLY <4>1, <1>b
    <3> QED
      BY ONLY <3>1 DEF IsAfterCall
  <2> QED
    BY <1>2, <2>1
<1> SUFFICES ASSUME ~v.bad PROVE Walked(fn, param, n + 1, v)
  BY <1>4
<1>5. /\ CallOK(fn, param, c.site, u.kind, c.kind, x)
      /\ Fresh(c.site)
      /\ c.site.mode = "self" =>
           /\ Merged(u.rets) # "dyn"
           /\ c.site.ret = Merged(u.rets) /\ c.kind = Taken(Merged(u.rets))
  <2>1. m.bound[name] = fn \/ tier[m.bound[name]].form # 0
    BY DEF Unarmed
  <2>2. ~c.bad /\ (c.site.writes => x)
    BY <1>4
  <2>3. name \in DOMAIN Bound /\ c = CallSite(fn, param, u, name) /\ fn \in Fns /\ Static
    OBVIOUS
  <2> QED
    BY ONLY <2>1, <2>2, <2>3, CallSiteOK
<1>6. OpOK(fn, param, op, c.site, w.kind, v.kind, v.writes) /\ ~Leaves(fn, n + 1)
  BY <1>2, <1>4, <1>5 DEF OpOK, Leaves
<1>7. Grows(w, v)
  BY <1>2, <1>4 DEF Grows
<1>8. v.writes \in BOOLEAN /\ IsFiniteSet(v.rets) /\ \A ret \in v.rets : ret \notin DOMAIN Likeness
  BY <1>2, <1>4 DEF Walked
<1>9. c.site.mode = "self" =>
            /\ v.self
            /\ Merged(w.rets) # "dyn"
            /\ w.rets = {} => v.guessed
            /\ c.site.ret = Merged(w.rets) /\ v.kind = Taken(Merged(w.rets))
  <2>1. u.rets = w.rets /\ v.self = y /\ v.guessed = z /\ v.kind = c.kind
    BY <1>2, <1>4
  <2>2. c.site.mode = "self" => y /\ (u.rets = {} => z)
    OBVIOUS
  <2> QED
    BY <1>5, <2>1, <2>2
<1> PICK s : s = c.site
  OBVIOUS
<1> QED
  BY <1>4, <1>5, <1>6, <1>7, <1>8, <1>9, OpStep

\* Programs are what ProgramsAssumption says.
LEMMA Bodies ==
  ASSUME prog \in Programs
  PROVE  /\ "main" \in Fns
         /\ \A f \in Fns : IsBody(prog, prog[f])
         /\ \A name \in DOMAIN Bound : Bound[name] \in Fns
BY ProgramsAssumption DEF Fns

\* Any operation.
LEMMA EmitStep ==
  ASSUME Static, NEW fn \in Fns, NEW param, NEW n \in Nat, n < Len(prog[fn]),
         NEW w, DOMAIN w = WalkFields, ~w.bad => Walked(fn, param, n, w),
         NEW op, op = prog[fn][n + 1],
         NEW v, v = Emit(fn, param, w, op)
  PROVE  DOMAIN v = WalkFields /\ (~v.bad => Walked(fn, param, n + 1, v))
<1>1. IsOp(prog, op)
  BY Bodies DEF Static, IsBody
<1>2. CASE w.bad
  <2>1. v = w
    BY <1>2 DEF Emit
  <2> QED
    BY <1>2, <2>1
<1>3. CASE ~w.bad /\ w.stop # 0
  <2>1. v = w
    BY <1>3 DEF Emit
  <2>2. Reached(n + 1, w)
    BY <1>3 DEF Walked, Reached
  <2> QED
    BY <1>3, <2>1, <2>2 DEF Walked
<1>4. CASE ~w.bad /\ w.stop = 0 /\ Unarmed(fn, op)
  <2> PICK u : u = [w EXCEPT !.kinds = Append(@, w.kind)]
    OBVIOUS
  <2>1. /\ DOMAIN u = WalkFields /\ u.kinds = Append(w.kinds, w.kind) /\ u.sites = w.sites
        /\ u.kind = w.kind /\ u.rets = w.rets /\ u.stop = 0 /\ ~u.bad /\ u.writes = w.writes
        /\ u.self = w.self /\ u.guessed = w.guessed
    BY <1>4 DEF WalkFields
  <2>2. Len(u.kinds) = n + 1
    <3> PICK ks, js : ks = w.kinds /\ js = u.kinds
      OBVIOUS
    <3>1. IsSeq(ks) /\ Len(ks) = n
      BY <1>4 DEF Walked, Reached
    <3>2. Extended(ks, w.kind, js)
      BY <2>1, <3>1, AppendIs
    <3> QED
      BY <3>1, <3>2 DEF Extended
  <2>3. v = [u EXCEPT !.stop = n + 1]
    BY <1>4, <2>2 DEF Emit
  <2>4. /\ DOMAIN v = WalkFields /\ Grows(w, v) /\ v.sites = w.sites /\ v.rets = w.rets
        /\ v.stop = n + 1 /\ v.writes = w.writes
    BY <2>1, <2>3 DEF WalkFields, Grows
  <2> QED
    BY <1>4, <2>4, StopStep
<1>5. CASE ~w.bad /\ w.stop = 0 /\ ~Unarmed(fn, op)
  <2>1. CASE op[1] = "call"
    <3>1. op[2] \in DOMAIN Bound
      BY <1>1, <2>1 DEF IsOp
    <3> QED
      BY <1>5, <2>1, <3>1, EmitCall
  <2>2. CASE op[1] = "bind"
    <3> PICK u : u = [w EXCEPT !.kinds = Append(@, w.kind)]
      OBVIOUS
    <3>1. v = [u EXCEPT !.bad = TRUE]
      BY <1>5, <2>2 DEF Emit
    <3>2. DOMAIN v = WalkFields /\ v.bad
      BY <3>1 DEF WalkFields
    <3> QED
      BY <3>2
  <2>3. CASE op[1] \notin {"call", "bind"}
    <3>1. op[1] \in {"let", "load", "write", "field", "down", "ret"}
      BY <1>1, <1>5, <2>3 DEF IsOp, Ops, Unarmed
    <3>2. CASE ~v.bad
      BY <1>1, <1>5, <3>1, <3>2, EmitPlain DEF IsOp
    <3>3. CASE v.bad
      <4>1. DOMAIN v = WalkFields
        <5> PICK u : u = [w EXCEPT !.kinds = Append(@, w.kind)]
          OBVIOUS
        <5>1. DOMAIN u = WalkFields
          OBVIOUS
        <5> HIDE DEF WalkFields
        <5>2. v = [u EXCEPT !.kind = op[2].kind, !.sites = Append(@, NoSite)] \/ DOMAIN v = WalkFields
          BY <1>5, <3>1, <5>1 DEF Emit
        <5> QED
          BY <5>1, <5>2
      <4> QED
        BY <3>3, <4>1
    <3> QED
      BY <3>2, <3>3
  <2> QED
    BY <2>1, <2>2, <2>3
<1> QED
  BY <1>2, <1>3, <1>4, <1>5

\* The fold of the walk as a function.
WalkedBy(fn, param, s0, body, N) ==
    CHOOSE g : g = [n \in 0..N |-> IF n = 0 THEN s0
                      ELSE CHOOSE next \in {Emit(fn, param, v, body[n]) : v \in {g[n - 1]}} : TRUE]

\* Its steps.
LEMMA WalkFold ==
  ASSUME NEW fn, NEW param, NEW s0, NEW body, NEW N \in Nat, NEW W,
         W = WalkedBy(fn, param, s0, body, N)
  PROVE  W[0] = s0 /\ \A n \in 1..N : W[n] = Emit(fn, param, W[n - 1], body[n])
<1> DEFINE H(x, n) == CHOOSE next \in {Emit(fn, param, v, body[n]) : v \in {x}} : TRUE
           F(g) == [n \in 0..N |-> IF n = 0 THEN s0 ELSE H(g[n - 1], n)]
<1>1. \A x, n : H(x, n) = Emit(fn, param, x, body[n])
  <2> TAKE x, n
  <2> PICK y : y = Emit(fn, param, x, body[n])
    OBVIOUS
  <2>1. {Emit(fn, param, v, body[n]) : v \in {x}} = {y}
    OBVIOUS
  <2> QED
    BY <2>1, OneOf
<1>2. \A x, n : Folded("walk", fn, param, x, body[n]) = Emit(fn, param, x, body[n])
  BY DEF Folded
<1>3. W = CHOOSE g : g = F(g)
  BY DEF WalkedBy
<1> HIDE DEF H
<1>4. \E f : f = F(f)
  <2>1. PICK f : FoldOf("walk", fn, param, s0, body, N, f)
    BY FoldIs
  <2>2. f = [n \in 0..N |-> IF n = 0 THEN s0 ELSE Folded("walk", fn, param, f[n - 1], body[n])]
    BY ONLY <2>1 DEF FoldOf
  <2>3. f = F(f)
    BY ONLY <1>1, <1>2, <2>2
  <2> QED
    BY <2>3
<1>5. W = F(W)
  <2> HIDE DEF F
  <2> QED
    BY ONLY <1>3, <1>4
<1>6. W[0] = s0 /\ \A n \in 1..N : W[n] = H(W[n - 1], n)
  BY ONLY <1>5, N \in Nat
<1> QED
  BY ONLY <1>1, <1>6

\* What a walk that does not decline says of the body.
LEMMA WalkIs ==
  ASSUME Static, NEW fn \in Fns, NEW param, NEW w, w = Walk(fn, param)
  PROVE  DOMAIN w = WalkFields /\ (~w.bad => Walked(fn, param, Len(prog[fn]), w))
<1> PICK s0 : s0 = [kind |-> param, kinds |-> <<>>, sites |-> <<>>, rets |-> {}, stop |-> 0,
                    bad |-> FALSE, writes |-> FALSE, self |-> FALSE, guessed |-> FALSE]
  OBVIOUS
<1> PICK W : W = CHOOSE f : f = [n \in 0..Len(prog[fn]) |-> IF n = 0 THEN s0
            ELSE CHOOSE next \in {Emit(fn, param, v, prog[fn][n]) : v \in {f[n - 1]}} : TRUE]
  OBVIOUS
<1>0. s0.kinds = <<>> /\ s0.sites = <<>> /\ <<>> \in Seq({}) /\ Len(<<>>) = 0
  OBVIOUS
<1>1. w = W[Len(prog[fn])]
  BY ZenonT(40) DEF Walk, Through
<1> PICK body, N : body = prog[fn] /\ N = Len(body)
  OBVIOUS
<1>2. N \in Nat
  BY Bodies DEF Static, IsBody
<1>3. W[0] = s0 /\ \A n \in 1..N : W[n] = Emit(fn, param, W[n - 1], body[n])
  <2>1. W = WalkedBy(fn, param, s0, body, N)
    BY DEF WalkedBy
  <2> QED
    BY ONLY <1>2, <2>1, WalkFold
<1> DEFINE Q(n) == DOMAIN W[n] = WalkFields /\ (~W[n].bad => Walked(fn, param, n, W[n]))
           S == {n \in 0..N : Q(n)}
<1>5. Q(0)
  <2>1. DOMAIN s0 = WalkFields
    BY DEF WalkFields
  <2>2. IsSeq(s0.kinds) /\ IsSeq(s0.sites) /\ Len(s0.kinds) = 0 /\ Len(s0.sites) = 0
    BY <1>0, SeqFrom
  <2>3. IsFiniteSet({})
    BY FS_EmptySet
  <2>4. Walked(fn, param, 0, s0)
    BY <2>2, <2>3 DEF Walked, Reached, OpsOK, NextKind
  <2> QED
    BY <1>3, <2>1, <2>4
<1>6. ASSUME NEW n \in 0..N - 1, n \in S PROVE n + 1 \in S
  <2> PICK x, y : x = W[n] /\ y = W[n + 1]
    OBVIOUS
  <2>1. n \in Nat /\ n < N /\ n + 1 \in 1..N /\ (n + 1) - 1 = n
    BY <1>2
  <2>2. y = Emit(fn, param, x, body[n + 1])
    BY <1>3, <2>1
  <2>3. DOMAIN x = WalkFields /\ (~x.bad => Walked(fn, param, n, x))
    BY <1>6
  <2> HIDE DEF Q
  <2>4. DOMAIN y = WalkFields /\ (~y.bad => Walked(fn, param, n + 1, y))
    BY <2>1, <2>2, <2>3, EmitStep
  <2> QED
    BY <2>1, <2>4 DEF Q
<1>7. 0..N \subseteq S
  <2> HIDE DEF Q
  <2>1. 0 \in S
    BY <1>2, <1>5
  <2> HIDE DEF S
  <2> QED
    BY <1>2, <1>6, <2>1, InductiveTo
<1> QED
  <2>1. N \in S
    BY <1>2, <1>7
  <2>2. Q(N)
    BY <2>1
  <2> QED
    BY <1>1, <2>2

-----------------------------------------------------------------------------
(* What a compile comes to.                                                  *)

\* The kind a set of returns is merged to.
LEMMA MergedIs ==
  ASSUME NEW R, IsFiniteSet(R), NEW k \in R, Merged(R) # "dyn"
  PROVE  \/ R = {k} /\ Merged(R) = k
         \/ R \subseteq Classes \cup {"inst"} /\ Merged(R) = "inst"
<1>1. Cardinality(R) \in Nat /\ Cardinality(R) # 0 /\ R # {}
  BY FS_CardinalityType, FS_EmptySet
<1>2. CASE Cardinality(R) = 1
  <2>1. PICK x : R = {x}
    BY <1>2, FS_Singleton
  <2>2. (CHOOSE y \in R : TRUE) = x
    BY <2>1, OneOf
  <2> QED
    BY <1>1, <1>2, <2>1, <2>2 DEF Merged
<1>3. CASE Cardinality(R) > 1
  BY <1>1, <1>3 DEF Merged
<1> QED
  BY <1>1, <1>2, <1>3

LEMMA MergedEmpty == Merged({}) = "int"
<1>1. Cardinality({}) = 0
  BY FS_EmptySet
<1> QED
  BY <1>1 DEF Merged

\* A body that calls itself returns to itself what it was taken to return, unless a
\* later return took its class back.
LEMMA SelfReturns ==
  ASSUME NEW rets, IsFiniteSet(rets), NEW R \in SUBSET rets, Merged(R) # "dyn",
         Merged(rets) # "dyn", R = {} => Merged(rets) = "int", NEW k \in rets,
         \A ret \in rets : ret \notin DOMAIN Likeness,
         Merged(R) \in Classes => Merged(rets) = Merged(R)
  PROVE  Takes(Shape(Taken(Merged(R))), k)
<1>0. k \notin DOMAIN Likeness
  OBVIOUS
<1>1. \/ rets = {k} /\ Merged(rets) = k
      \/ rets \subseteq Classes \cup {"inst"} /\ Merged(rets) = "inst"
  BY MergedIs
<1> PICK r0 : r0 = Merged(R)
  OBVIOUS
<1>2. CASE r0 \in Classes
  <2>1. k = r0
    BY <1>1, <1>2, KindNames
  <2> QED
    BY <1>0, <1>2, <2>1, KindIs DEF Takes
<1>3. CASE R = {} /\ r0 \notin Classes
  <2>1. k = "int" /\ r0 = "int"
    BY <1>1, <1>3, MergedEmpty, KindNames
  <2>2. Shape(Taken(r0)) = r0
    BY <2>1, KindIs, KindNames
  <2> QED
    BY <1>0, <2>1, <2>2 DEF Takes
<1>4. CASE R # {} /\ r0 \notin Classes
  <2>1. PICK r \in R : r \in rets /\ r \notin DOMAIN Likeness
    BY <1>4
  <2>2. IsFiniteSet(R)
    BY FS_Subset
  <2>3. \/ R = {r} /\ r0 = r
        \/ R \subseteq Classes \cup {"inst"} /\ r0 = "inst"
    BY <2>2, MergedIs
  <2>4. Shape(Taken(r0)) = r0
    BY <1>4, <2>1, <2>3, KindIs, KindNames
  <2>5. CASE rets = {k}
    <3>1. r = k
      BY <2>1, <2>5
    <3>2. r0 = k \/ (r0 = "inst" /\ k \in Classes)
      BY <2>3, <3>1
    <3> QED
      BY <1>0, <2>4, <3>2 DEF Takes
  <2>6. CASE rets \subseteq Classes \cup {"inst"}
    <3>1. r \in Classes \cup {"inst"} /\ k \in Classes \cup {"inst"}
      BY <2>1, <2>6
    <3>2. r0 = "inst"
      BY <1>4, <2>3, <3>1
    <3> QED
      BY <1>0, <2>4, <3>1, <3>2 DEF Takes
  <2> QED
    BY <1>1, <2>5, <2>6
<1> QED
  BY <1>2, <1>3, <1>4

\* A walk that compiles makes a sound form.
LEMMA WalkForm ==
  ASSUME Static, NEW fn \in Fns, NEW param, NEW w, w = Walk(fn, param), Compiles(fn, w),
         NEW F, F.fn = fn, F.param = param, F.kinds = w.kinds, F.sites = w.sites, F.stop = w.stop,
         F.ret = Merged(w.rets), F.writes = w.writes
  PROVE  /\ Shaped(F) /\ Spoken(F) /\ ReturnsAs(F)
         /\ \A i \in 1..Len(F.sites) : Fresh(F.sites[i])
<1> PICK n : n = Len(prog[fn])
  OBVIOUS
<1>1. n \in Nat /\ n # 0 /\ prog[fn][n][1] \in {"ret", "throw"}
  BY Bodies DEF Static, IsBody
<1>2. Walked(fn, param, n, w)
  BY WalkIs DEF Compiles
<1>3. Reached(n, w) /\ IsSeq(w.kinds) /\ IsSeq(w.sites)
  BY <1>2 DEF Walked
<1>4. \A i \in 0..Len(w.kinds) - 1 : NextKind(w, i) = w.kinds[i + 1]
  BY <1>3, SeqIs DEF NextKind
<1>5. Shaped(F)
  <2>1. 0 \in 0..Len(w.kinds) - 1
    BY <1>1, <1>3 DEF Reached
  <2>2. w.kinds[1] = param
    BY <1>2, <1>4, <2>1 DEF Walked
  <2> QED
    BY <1>2, <1>3, <2>2 DEF Shaped, Reached, Walked
<1>6. ASSUME NEW i \in 1..Len(w.sites)
      PROVE  /\ OpOK(fn, param, prog[fn][i], w.sites[i], w.kinds[i], w.kinds[i + 1], w.writes)
             /\ prog[fn][i][1] = "call" => NextKind(w, i) = w.kinds[i + 1]
  <2>1. OpOK(fn, param, prog[fn][i], w.sites[i], w.kinds[i], NextKind(w, i), w.writes)
    BY <1>2 DEF Walked, OpsOK
  <2>2. CASE i \in 0..Len(w.kinds) - 1
    BY <1>4, <2>1, <2>2
  <2>3. CASE i \notin 0..Len(w.kinds) - 1
    <3>1. i = n
      BY <1>1, <1>3, <2>3 DEF Reached
    <3>2. prog[fn][i][1] = "ret"
      BY <1>1, <2>1, <3>1 DEF OpOK
    <3> QED
      BY <2>1, <3>2 DEF OpOK
  <2> QED
    BY <2>2, <2>3
<1>7. Spoken(F)
  BY <1>6 DEF Spoken
<1>8. ReturnsAs(F)
  <2> SUFFICES ASSUME NEW j \in 1..Len(w.sites), Leaves(fn, j)
               PROVE  /\ F.ret \in Classes \cup {"int"} => Shape(w.kinds[j]) = F.ret
                      /\ \A i \in 1..Len(w.sites) :
                            w.sites[i].mode = "self" /\ StandsIn(F) =>
                                Takes(Shape(w.kinds[i + 1]), Shape(w.kinds[j]))
    BY DEF ReturnsAs
  <2> PICK k, rets : k = Shape(w.kinds[j]) /\ rets = w.rets
    OBVIOUS
  <2>1. k \in rets /\ IsFiniteSet(rets) /\ \A ret \in rets : ret \notin DOMAIN Likeness
    BY <1>2 DEF Walked
  <2>2. ASSUME F.ret \in Classes \cup {"int"} PROVE k = F.ret
    <3>1. Merged(rets) # "dyn" /\ Merged(rets) # "inst"
      BY <2>2, KindNames
    <3> QED
      BY <2>1, <3>1, MergedIs
  <2>3. ASSUME NEW i \in 1..Len(w.sites), w.sites[i].mode = "self", StandsIn(F)
        PROVE  Takes(Shape(w.kinds[i + 1]), k)
    <3>1. SelfOK(w, i)
      BY <1>2, <2>3 DEF Walked
    <3>2. PICK R \in SUBSET rets :
             /\ Merged(R) # "dyn"
             /\ R = {} => w.guessed
             /\ w.sites[i].ret = Merged(R) /\ NextKind(w, i) = Taken(Merged(R))
      BY <3>1 DEF SelfOK
    <3>3. prog[fn][i][1] = "call"
      <4>1. OpOK(fn, param, prog[fn][i], w.sites[i], w.kinds[i], w.kinds[i + 1], w.writes)
        BY <1>6
      <4> QED
        BY <2>3, <4>1, NoSiteIs DEF OpOK
    <3>4. Merged(rets) # "dyn" /\ (R = {} => Merged(rets) = "int")
      BY <3>1, <3>2 DEF SelfOK, Compiles
    <3>5. w.kinds[i + 1] = Taken(Merged(R))
      BY <1>6, <3>2, <3>3
    <3>6. Merged(R) \in Classes => Merged(rets) = Merged(R)
      BY <2>3, <3>2 DEF StandsIn
    <3> QED
      BY <2>1, <3>2, <3>4, <3>5, <3>6, SelfReturns
  <2> QED
    BY <2>2, <2>3
<1>9. \A i \in 1..Len(F.sites) : Fresh(F.sites[i])
  BY <1>2 DEF Walked
<1> QED
  BY <1>5, <1>7, <1>8, <1>9

\* So what Compile comes to is a sound form, with fresh sites.
LEMMA CompiledIs ==
  ASSUME Static, NEW fn \in Fns, NEW param, NEW c \in Compile(fn, param), c.ok, NEW F, F = Form(fn, c)
  PROVE  /\ Shaped(F) /\ Spoken(F) /\ ReturnsAs(F)
         /\ \A i \in 1..Len(F.sites) : Fresh(F.sites[i])
         /\ F.fn = fn /\ F.param = c.param /\ F.ret = Merged(c.walk.rets) /\ F.writes = c.walk.writes
<1> PICK w : w = Walk(fn, param)
  OBVIOUS
<1>1. Compiles(fn, w) /\ c.param = param /\ c.walk = w
  BY DEF Compile
<1>2. /\ F.fn = fn /\ F.param = param /\ F.kinds = w.kinds /\ F.sites = w.sites /\ F.stop = w.stop
      /\ F.ret = Merged(w.rets) /\ F.writes = w.writes
  BY <1>1 DEF Form
<1> QED
  BY <1>1, <1>2, WalkForm

\* What the tier keeps of it.
LEMMA InstalledIs ==
  ASSUME NEW t, DOMAIN t = TierFields, NEW fn, NEW c, NEW u, u = Installed(t, fn, c)
  PROVE  /\ DOMAIN u = TierFields
         /\ u.form = Len(forms) + 1 /\ u.param = c.param /\ u.ret = Merged(c.walk.rets)
         /\ u.noWrite = ~c.walk.writes /\ u.version = m.version
BY DEF Installed, TierFields, Untried

-----------------------------------------------------------------------------
(* Inlined bodies.                                                           *)

\* The folds over an inlined body as functions: of kinds, of values.
KindsBy(cell, k0, body, N) ==
    CHOOSE g : g = [n \in 0..N |-> IF n = 0 THEN k0
                      ELSE CHOOSE next \in {KindAfter(cell, v, body[n]) : v \in {g[n - 1]}} : TRUE]
ValuesBy(cell, v0, body, N) ==
    CHOOSE g : g = [n \in 0..N |-> IF n = 0 THEN v0
                      ELSE CHOOSE next \in {ValueAfter(cell, v, body[n]) : v \in {g[n - 1]}} : TRUE]

\* Their steps.
LEMMA KindFold ==
  ASSUME NEW cell, NEW k0, NEW body, NEW N \in Nat, NEW W, W = KindsBy(cell, k0, body, N)
  PROVE  W[0] = k0 /\ \A n \in 1..N : W[n] = KindAfter(cell, W[n - 1], body[n])
<1> DEFINE H(x, n) == CHOOSE next \in {KindAfter(cell, v, body[n]) : v \in {x}} : TRUE
           F(g) == [n \in 0..N |-> IF n = 0 THEN k0 ELSE H(g[n - 1], n)]
<1>1. \A x, n : H(x, n) = KindAfter(cell, x, body[n])
  <2> TAKE x, n
  <2> PICK y : y = KindAfter(cell, x, body[n])
    OBVIOUS
  <2>1. {KindAfter(cell, v, body[n]) : v \in {x}} = {y}
    OBVIOUS
  <2> QED
    BY <2>1, OneOf
<1>2. \A x, n : Folded("kind", cell, 0, x, body[n]) = KindAfter(cell, x, body[n])
  BY DEF Folded
<1>3. W = CHOOSE g : g = F(g)
  BY DEF KindsBy
<1> HIDE DEF H
<1>4. \E f : f = F(f)
  <2>1. PICK f : FoldOf("kind", cell, 0, k0, body, N, f)
    BY FoldIs
  <2>2. f = [n \in 0..N |-> IF n = 0 THEN k0 ELSE Folded("kind", cell, 0, f[n - 1], body[n])]
    BY ONLY <2>1 DEF FoldOf
  <2>3. f = F(f)
    BY ONLY <1>1, <1>2, <2>2
  <2> QED
    BY <2>3
<1>5. W = F(W)
  <2> HIDE DEF F
  <2> QED
    BY ONLY <1>3, <1>4
<1>6. W[0] = k0 /\ \A n \in 1..N : W[n] = H(W[n - 1], n)
  BY ONLY <1>5, N \in Nat
<1> QED
  BY ONLY <1>1, <1>6

LEMMA ValueFold ==
  ASSUME NEW cell, NEW v0, NEW body, NEW N \in Nat, NEW W, W = ValuesBy(cell, v0, body, N)
  PROVE  W[0] = v0 /\ \A n \in 1..N : W[n] = ValueAfter(cell, W[n - 1], body[n])
<1> DEFINE H(x, n) == CHOOSE next \in {ValueAfter(cell, v, body[n]) : v \in {x}} : TRUE
           F(g) == [n \in 0..N |-> IF n = 0 THEN v0 ELSE H(g[n - 1], n)]
<1>1. \A x, n : H(x, n) = ValueAfter(cell, x, body[n])
  <2> TAKE x, n
  <2> PICK y : y = ValueAfter(cell, x, body[n])
    OBVIOUS
  <2>1. {ValueAfter(cell, v, body[n]) : v \in {x}} = {y}
    OBVIOUS
  <2> QED
    BY <2>1, OneOf
<1>2. \A x, n : Folded("value", cell, 0, x, body[n]) = ValueAfter(cell, x, body[n])
  BY DEF Folded
<1>3. W = CHOOSE g : g = F(g)
  BY DEF ValuesBy
<1> HIDE DEF H
<1>4. \E f : f = F(f)
  <2>1. PICK f : FoldOf("value", cell, 0, v0, body, N, f)
    BY FoldIs
  <2>2. f = [n \in 0..N |-> IF n = 0 THEN v0 ELSE Folded("value", cell, 0, f[n - 1], body[n])]
    BY ONLY <2>1 DEF FoldOf
  <2>3. f = F(f)
    BY ONLY <1>1, <1>2, <2>2
  <2> QED
    BY <2>3
<1>5. W = F(W)
  <2> HIDE DEF F
  <2> QED
    BY ONLY <1>3, <1>4
<1>6. W[0] = v0 /\ \A n \in 1..N : W[n] = H(W[n - 1], n)
  BY ONLY <1>5, N \in Nat
<1> QED
  BY ONLY <1>1, <1>6

\* One operation of an inlined body: it makes j of kind k, and z of value v.
InlinedOp(op, k, v, kind, cell, j, z) ==
    /\ op[1] \in {"let", "load", "field", "ret"}
    /\ op[1] = "let" => op[2].kind \notin DOMAIN Likeness
    /\ op[1] = "load" => Takes(kind, cell.kind)
    /\ k # None => Takes(Shape(k), v.kind)
    /\ j = KindAfter(kind, k, op) /\ j # None /\ z = ValueAfter(cell, v, op)

LEMMA InlineOp ==
  ASSUME NEW op, NEW k, NEW v, NEW kind, NEW cell, NEW j, NEW z, InlinedOp(op, k, v, kind, cell, j, z)
  PROVE  Takes(Shape(j), z.kind)
<1>0. /\ op[1] \in {"let", "load", "field", "ret"}
      /\ op[1] = "let" => op[2].kind \notin DOMAIN Likeness
      /\ op[1] = "load" => Takes(kind, cell.kind)
      /\ k # None => Takes(Shape(k), v.kind)
      /\ j = KindAfter(kind, k, op) /\ j # None /\ z = ValueAfter(cell, v, op)
  BY DEF InlinedOp
<1>1. k # None
  BY <1>0 DEF KindAfter
<1>2. CASE op[1] = "let"
  <2>1. j = op[2].kind /\ z = op[2]
    BY <1>0, <1>1, <1>2 DEF KindAfter, ValueAfter
  <2> QED
    BY <1>0, <1>2, <2>1, KindIs DEF Takes
<1>3. CASE op[1] = "load"
  <2>1. j = kind /\ z = cell /\ Takes(kind, cell.kind)
    BY <1>0, <1>1, <1>3 DEF KindAfter, ValueAfter
  <2> QED
    BY <2>1, TakesReal
<1>4. CASE op[1] = "field"
  <2>1. k \in Classes /\ j = FieldKind[k]
    BY <1>0, <1>1, <1>4 DEF KindAfter
  <2>2. v.kind = k
    BY <1>0, <1>1, <2>1, KindNames, KindIs DEF Takes
  <2>3. z = Value(FieldKind[v.kind], v.n)
    BY <1>0, <1>4, <2>1, <2>2 DEF ValueAfter
  <2> PICK x, y : x = FieldKind[v.kind] /\ y = v.n
    OBVIOUS
  <2>5. z = [kind |-> x, n |-> y]
    BY <2>3 DEF Value
  <2>4. z.kind = FieldKind[v.kind]
    BY <2>5
  <2>6. FieldKind[k] \in Classes \cup {"int"}
    BY <2>1 DEF Classes, FieldKind
  <2> QED
    BY <2>1, <2>2, <2>4, <2>6, KindNames, KindIs DEF Takes
<1>5. CASE op[1] = "ret"
  <2>1. j = k /\ z = v
    BY <1>0, <1>1, <1>5 DEF KindAfter, ValueAfter
  <2> QED
    BY <1>0, <1>1, <2>1
<1> QED
  BY <1>0, <1>2, <1>3, <1>4, <1>5

\* Inlined is the second of them.
LEMMA InlinedIs ==
  ASSUME NEW a
  PROVE  Inlined(a) = ValuesBy(m.cell, Acc(a), prog[Site(a).callee], Len(prog[Site(a).callee]))[Len(prog[Site(a).callee])]
BY Zenon DEF Inlined, Through, ValuesBy

\* An inlined body, its guard passed, at a value of the kind it was compiled for.
InlinedAs(g, k, kind, j, v, cell, z) ==
    /\ g \in Fns /\ Inlinable(prog[g])
    /\ j = InlineKind(prog[g], k, kind) /\ j # None
    /\ Takes(Shape(k), v.kind)
    /\ (\E i \in DOMAIN prog[g] : prog[g][i][1] = "load") => Takes(kind, cell.kind)
    /\ z = ValuesBy(cell, v, prog[g], Len(prog[g]))[Len(prog[g])]

\* An inlined body leaves what the walk said it would.
LEMMA InlineFits ==
  ASSUME prog \in Programs, NEW g, NEW k, NEW kind, NEW j, NEW v, NEW cell, NEW z,
         InlinedAs(g, k, kind, j, v, cell, z)
  PROVE  Takes(Shape(j), z.kind)
<1>01. g \in Fns /\ Inlinable(prog[g]) /\ j = InlineKind(prog[g], k, kind) /\ j # None /\ Takes(Shape(k), v.kind)
  BY DEF InlinedAs
<1>02. (\E i \in DOMAIN prog[g] : prog[g][i][1] = "load") => Takes(kind, cell.kind)
  BY DEF InlinedAs
<1>03. z = ValuesBy(cell, v, prog[g], Len(prog[g]))[Len(prog[g])]
  BY DEF InlinedAs
<1> PICK body : body = prog[g]
  OBVIOUS
<1> PICK N : N = Len(body)
  OBVIOUS
<1>1. /\ N \in Nat /\ DOMAIN body = 1..N /\ \A i \in 1..N : body[i][1] \in {"let", "load", "field", "ret"}
      /\ \A i \in 1..N : body[i][1] = "let" => body[i][2].kind \notin DOMAIN Likeness
  BY <1>01, Bodies DEF IsBody, IsOp, Inlinable, Straight
<1> PICK K : K = KindsBy(kind, k, body, N)
  OBVIOUS
<1> PICK V : V = ValuesBy(cell, v, body, N)
  OBVIOUS
<1>2. j = K[N]
  <2>1. j = InlineKind(body, k, kind) /\ K = KindsBy(kind, k, body, Len(body))
    BY <1>01
  <2>2. j = K[Len(body)]
    BY ONLY <2>1, Zenon DEF InlineKind, Through, KindsBy
  <2> QED
    BY <2>2
<1>3. z = V[N]
  BY <1>03
<1>4. K[0] = k /\ \A n \in 1..N : K[n] = KindAfter(kind, K[n - 1], body[n])
  BY <1>1, KindFold
<1>5. V[0] = v /\ \A n \in 1..N : V[n] = ValueAfter(cell, V[n - 1], body[n])
  BY <1>1, ValueFold
<1> DEFINE S == {n \in 0..N : K[n] # None => Takes(Shape(K[n]), V[n].kind)}
<1>6. 0 \in S
  BY <1>01, <1>1, <1>4, <1>5
<1>7. ASSUME NEW n \in 0..N - 1, n \in S PROVE n + 1 \in S
  <2> SUFFICES ASSUME K[n + 1] # None PROVE Takes(Shape(K[n + 1]), V[n + 1].kind)
    BY <1>1
  <2> PICK x, y, p, q, op : x = K[n] /\ y = K[n + 1] /\ p = V[n] /\ q = V[n + 1] /\ op = body[n + 1]
    OBVIOUS
  <2>1. n + 1 \in 1..N /\ (n + 1) - 1 = n
    BY <1>1
  <2>2. y = KindAfter(kind, x, op) /\ q = ValueAfter(cell, p, op)
    BY <1>4, <1>5, <2>1
  <2>3. /\ op[1] \in {"let", "load", "field", "ret"} /\ (op[1] = "load" => Takes(kind, cell.kind))
        /\ op[1] = "let" => op[2].kind \notin DOMAIN Likeness
    BY <1>1, <1>02, <2>1
  <2>4. x # None => Takes(Shape(x), p.kind)
    BY <1>7
  <2>5. y # None
    OBVIOUS
  <2>7. InlinedOp(op, x, p, kind, cell, y, q)
    BY ONLY <2>2, <2>3, <2>4, <2>5 DEF InlinedOp
  <2>6. Takes(Shape(y), q.kind)
    BY ONLY <2>7, InlineOp
  <2> QED
    BY <2>6
<1>8. 0..N \subseteq S
  <2> HIDE DEF S
  <2> QED
    BY <1>1, <1>6, <1>7, InductiveTo
<1>9. N \in S
  BY <1>1, <1>8
<1> QED
  BY <1>01, <1>2, <1>3, <1>9

-----------------------------------------------------------------------------
(* Code grows.                                                               *)

\* ShapesStand, form by form.
LEMMA StandsIs ==
  ASSUME FormsOK, ShapesStand, NEW n \in 1..Len(forms)
  PROVE  StandsIn(forms[n])
<1> PICK F : F = forms[n]
  OBVIOUS
<1>1. n \in DOMAIN forms /\ DOMAIN F.sites = 1..Len(F.sites)
  BY SeqIs DEF FormsOK, Shaped
<1>2. \A s \in Range(F.sites) : s.mode = "self" /\ s.ret \in Classes => F.ret = s.ret
  BY <1>1 DEF ShapesStand
<1>3. \A i \in 1..Len(F.sites) : F.sites[i] \in Range(F.sites)
  BY <1>1 DEF Range
<1> QED
  BY <1>2, <1>3 DEF StandsIn

\* A step compiles at most one more form, and no form changes.
Grown ==
    /\ prog' = prog
    /\ IsSeq(forms) /\ IsSeq(forms')
    /\ Len(forms) <= Len(forms')
    /\ \A n \in 1..Len(forms) : forms'[n] = forms[n]

LEMMA GrownIn ==
  ASSUME Grown, NEW n \in 1..Len(forms)
  PROVE  n \in 1..Len(forms)' /\ forms'[n] = forms[n]
<1>1. Len(forms) \in Nat /\ Len(forms') \in Nat
  BY SeqIs DEF Grown
<1> QED
  BY <1>1 DEF Grown

\* A class that was taken back stays so.
LEMMA StandsGrows ==
  ASSUME Grown, ShapesStand'
  PROVE  ShapesStand
<1>1. DOMAIN forms = 1..Len(forms) /\ DOMAIN forms' = 1..Len(forms')
  BY SeqIs DEF Grown
<1>2. ASSUME NEW n \in DOMAIN forms, NEW s \in Range(forms[n].sites), s.mode = "self", s.ret \in Classes
      PROVE  forms[n].ret = s.ret
  <2>1. n \in DOMAIN forms' /\ forms'[n] = forms[n]
    BY <1>1, GrownIn
  <2> QED
    BY <1>2, <2>1 DEF ShapesStand
<1> QED
  BY <1>2 DEF ShapesStand

LEMMA TypedGrows ==
  ASSUME Grown, NEW k, NEW v, Typed(k, v)
  PROVE  Typed(k, v)'
BY StandsGrows DEF Typed

LEMMA DirectGrows ==
  ASSUME Grown, NEW s, NEW k, DirectOK(s, k)
  PROVE  DirectOK(s, k)'
BY GrownIn DEF DirectOK

LEMMA OpGrows ==
  ASSUME Grown, NEW fn, NEW param, NEW op, NEW s, NEW k, NEW next, NEW writes,
         OpOK(fn, param, op, s, k, next, writes)
  PROVE  OpOK(fn, param, op, s, k, next, writes)'
<1>1. prog' = prog /\ Fns' = Fns
  BY DEF Grown, Fns
<1>2. CallOK(fn, param, s, k, next, writes) => CallOK(fn, param, s, k, next, writes)'
  BY <1>1, DirectGrows DEF CallOK
<1> QED
  BY <1>2 DEF OpOK

LEMMA FormGrows ==
  ASSUME Grown, NEW F, Shaped(F), Spoken(F), ReturnsAs(F)
  PROVE  Shaped(F)' /\ Spoken(F)' /\ ReturnsAs(F)'
<1>1. prog' = prog /\ Fns' = Fns
  BY DEF Grown, Fns
<1>2. Shaped(F)'
  BY <1>1 DEF Shaped
<1>3. Spoken(F)'
  BY <1>1, OpGrows DEF Spoken
<1>4. ReturnsAs(F)'
  BY <1>1 DEF ReturnsAs, Leaves, StandsIn
<1> QED
  BY <1>2, <1>3, <1>4

LEMMA ActGrows ==
  ASSUME Grown, NEW a, ActOK(a)
  PROVE  /\ ActOK(a)'
         /\ WritesNone(a)' <=> WritesNone(a)
         /\ Waiting(a) => Waiting(a)'
         /\ Site(a)' = Site(a)
         /\ \A b : Called(a, b) => Called(a, b)'
<1>1. prog' = prog /\ Fns' = Fns
  BY DEF Grown, Fns
<1>2. Len(forms) \in Nat /\ Len(forms') \in Nat /\ Len(forms) <= Len(forms')
  BY SeqIs DEF Grown
<1>3. a.form \in 0..Len(forms')
  BY <1>2 DEF ActOK
<1>4. a.form # 0 => forms'[a.form] = forms[a.form]
  BY <1>2 DEF ActOK, Grown
<1>5. ActOK(a)'
  BY <1>1, <1>3, <1>4, TypedGrows DEF ActOK, Compiled
<1>6. Site(a)' = Site(a)
  BY <1>4 DEF Site, Compiled
<1>7. WritesNone(a)' <=> WritesNone(a)
  BY <1>4 DEF WritesNone, Compiled
<1>8. Waiting(a) => Waiting(a)'
  BY <1>1, <1>4, <1>6 DEF Waiting, OpOf, Stopped, Compiled
<1>9. \A b : Called(a, b) => Called(a, b)'
  BY <1>6 DEF Called, Compiled
<1> QED
  BY <1>5, <1>6, <1>7, <1>8, <1>9

LEMMA StackGrows ==
  ASSUME Grown, NEW s, StackIn(s)
  PROVE  StackIn(s)'
<1>1. IsSeq(s) /\ Len(s) \in Nat
  BY SeqIs DEF StackIn
<1>2. \A i \in 1..Len(s) : ActOK(s[i]) /\ ActOK(s[i])' /\ (WritesNone(s[i])' <=> WritesNone(s[i]))
  BY ActGrows DEF StackIn
<1>3. ASSUME NEW i \in 1..Len(s) - 1 PROVE Waiting(s[i])' /\ Called(s[i], s[i + 1])'
  <2>1. i \in 1..Len(s) /\ Waiting(s[i]) /\ Called(s[i], s[i + 1])
    BY <1>1 DEF StackIn
  <2>2. ActOK(s[i])
    BY <1>2, <2>1
  <2> PICK a, b : a = s[i] /\ b = s[i + 1]
    OBVIOUS
  <2>3. Waiting(a)' /\ Called(a, b)'
    BY <2>1, <2>2, ActGrows
  <2> QED
    BY <2>3
<1>4. (Len(s) > 0 => s[1].form = 0)
  BY DEF StackIn
<1>5. ASSUME NEW i \in 1..Len(s), NEW j \in 1..Len(s), i <= j, WritesNone(s[i])' PROVE WritesNone(s[j])'
  BY <1>2, <1>5 DEF StackIn
<1>6. ASSUME NEW i \in 1..Len(s), WritesNone(s[i])' PROVE ~s[i].wrote
  BY <1>2, <1>6 DEF StackIn
<1> QED
  BY <1>1, <1>2, <1>3, <1>4, <1>5, <1>6 DEF StackIn

LEMMA FormsKept ==
  ASSUME FormsOK, Grown, Len(forms) = Len(forms')
  PROVE  FormsOK'
<1>1. ASSUME NEW n \in 1..Len(forms') PROVE Shaped(forms[n])' /\ Spoken(forms[n])' /\ ReturnsAs(forms[n])'
  <2> PICK F : F = forms[n]
    OBVIOUS
  <2>1. F = forms'[n] /\ Shaped(F) /\ Spoken(F) /\ ReturnsAs(F)
    BY <1>1 DEF FormsOK, Grown
  <2>2. Shaped(F)' /\ Spoken(F)' /\ ReturnsAs(F)'
    BY <2>1, FormGrows
  <2> QED
    BY <2>1, <2>2
<1> QED
  BY <1>1 DEF FormsOK, Grown

LEMMA FormsLonger ==
  ASSUME FormsOK, Grown, NEW F, forms' = Append(forms, F), Shaped(F), Spoken(F), ReturnsAs(F)
  PROVE  FormsOK'
<1>1. Len(forms) \in Nat /\ Len(forms') = Len(forms) + 1 /\ forms'[Len(forms) + 1] = F
  <2> PICK s, t : s = forms /\ t = forms'
    OBVIOUS
  <2>1. Extended(s, F, t)
    BY AppendIs DEF Grown
  <2> QED
    BY <2>1 DEF Extended
<1>2. ASSUME NEW n \in 1..Len(forms') PROVE Shaped(forms[n])' /\ Spoken(forms[n])' /\ ReturnsAs(forms[n])'
  <2> PICK G : G = forms'[n]
    OBVIOUS
  <2>1. Shaped(G) /\ Spoken(G) /\ ReturnsAs(G)
    <3>1. CASE n \in 1..Len(forms)
      BY <3>1 DEF FormsOK, Grown
    <3>2. CASE n = Len(forms) + 1
      BY <1>1, <3>2
    <3> QED
      BY <1>1, <3>1, <3>2
  <2>2. Shaped(G)' /\ Spoken(G)' /\ ReturnsAs(G)'
    BY <2>1, FormGrows
  <2> QED
    BY <2>2
<1> QED
  BY <1>2 DEF FormsOK, Grown

-----------------------------------------------------------------------------
(* The stack.                                                                *)

\* Only `form` and the place tell what an activation owes its callee.
LEMMA SameAct ==
  ASSUME NEW a, NEW b, DOMAIN b = ActFields,
         b.fn = a.fn, b.pc = a.pc, b.acc = a.acc, b.form = a.form
  PROVE  /\ ActOK(a) => ActOK(b)
         /\ Waiting(a) => Waiting(b)
         /\ Site(b) = Site(a)
         /\ \A x : Called(a, x) => Called(b, x)
         /\ WritesNone(b) <=> WritesNone(a)
<1>1. Site(b) = Site(a)
  BY DEF Site, Compiled
<1>2. WritesNone(b) <=> WritesNone(a)
  BY DEF WritesNone, Compiled
<1>3. ActOK(a) => ActOK(b)
  BY DEF ActOK, Compiled
<1>4. Waiting(a) => Waiting(b)
  BY <1>1 DEF Waiting, Compiled, Stopped, OpOf
<1>5. \A x : Called(a, x) => Called(b, x)
  BY <1>1 DEF Called, Compiled
<1> QED
  BY <1>1, <1>2, <1>3, <1>4, <1>5

\* The invariant of the stack through a push, a pop and a new top.
LEMMA PushStack ==
  ASSUME NEW s, StackIn(s), NEW a, ActOK(a), ~a.wrote, NEW t, Extended(s, a, t),
         Len(s) = 0 => a.form = 0,
         Len(s) > 0 => /\ Waiting(s[Len(s)]) /\ Called(s[Len(s)], a)
                       /\ WritesNone(s[Len(s)]) => WritesNone(a)
  PROVE  StackIn(t)
<1> PICK n : n = Len(s)
  OBVIOUS
<1>1. n \in Nat /\ IsSeq(t) /\ Len(t) = n + 1 /\ t[n + 1] = a /\ \A i \in 1..n : t[i] = s[i]
  BY DEF Extended
<1>2. \A i \in 1..Len(t) : ActOK(t[i])
  BY <1>1 DEF StackIn
<1>3. ASSUME NEW i \in 1..n PROVE Waiting(t[i]) /\ Called(t[i], t[i + 1])
  <2>1. CASE i = n
    BY <1>1, <2>1
  <2>2. CASE i < n
    BY <1>1, <2>2 DEF StackIn
  <2> QED
    BY <1>1, <2>1, <2>2
<1>4. t[1].form = 0
  BY <1>1 DEF StackIn
<1>5. ASSUME NEW i \in 1..n + 1, NEW j \in 1..n + 1, i <= j, WritesNone(t[i]) PROVE WritesNone(t[j])
  <2>1. CASE i = n + 1
    BY <1>1, <1>5, <2>1
  <2>2. CASE j \in 1..n
    BY <1>1, <1>5, <2>2 DEF StackIn
  <2>3. CASE i \in 1..n /\ j = n + 1
    <3>1. WritesNone(s[n])
      BY <1>1, <1>5, <2>3 DEF StackIn
    <3> QED
      BY <1>1, <2>3, <3>1
  <2> QED
    BY <1>1, <2>1, <2>2, <2>3
<1>6. \A i \in 1..n + 1 : WritesNone(t[i]) => ~t[i].wrote
  BY <1>1 DEF StackIn
<1> QED
  BY <1>1, <1>2, <1>3, <1>4, <1>5, <1>6 DEF StackIn

LEMMA PopStack ==
  ASSUME NEW s, StackIn(s), NEW t, Shortened(s, t)
  PROVE  /\ StackIn(t)
         /\ Len(t) > 0 => Waiting(t[Len(t)]) /\ Called(t[Len(t)], s[Len(s)])
<1> PICK n : n = Len(t)
  OBVIOUS
<1>1. IsSeq(t) /\ n \in Nat /\ Len(s) = n + 1 /\ \A i \in 1..n : t[i] = s[i]
  BY SeqIs DEF Shortened
<1>2. \A i \in 1..n : ActOK(t[i])
  BY <1>1 DEF StackIn
<1>3. \A i \in 1..n - 1 : Waiting(t[i]) /\ Called(t[i], t[i + 1])
  BY <1>1 DEF StackIn
<1>4. n > 0 => t[1].form = 0
  BY <1>1 DEF StackIn
<1>5. \A i, j \in 1..n : i <= j /\ WritesNone(t[i]) => WritesNone(t[j])
  BY <1>1 DEF StackIn
<1>6. \A i \in 1..n : WritesNone(t[i]) => ~t[i].wrote
  BY <1>1 DEF StackIn
<1>7. n > 0 => Waiting(t[n]) /\ Called(t[n], s[n + 1])
  BY <1>1 DEF StackIn
<1> QED
  BY <1>1, <1>2, <1>3, <1>4, <1>5, <1>6, <1>7 DEF StackIn

LEMMA TopStack ==
  ASSUME NEW s, StackIn(s), Len(s) > 0, NEW a, ActOK(a), a.form = s[Len(s)].form,
         a.wrote = s[Len(s)].wrote, NEW t, Topped(s, a, t)
  PROVE  StackIn(t)
<1> PICK n : n = Len(s)
  OBVIOUS
<1>1. n \in Nat /\ n > 0 /\ IsSeq(t) /\ Len(t) = n /\ t[n] = a /\ \A i \in 1..n - 1 : t[i] = s[i]
  BY DEF Topped
<1>2. \A i \in 1..n : ActOK(t[i])
  BY <1>1 DEF StackIn
<1>3. ASSUME NEW i \in 1..n - 1 PROVE Waiting(t[i]) /\ Called(t[i], t[i + 1])
  <2>1. t[i] = s[i] /\ t[i + 1].form = s[i + 1].form /\ Waiting(s[i]) /\ Called(s[i], s[i + 1])
    BY <1>1 DEF StackIn
  <2> QED
    BY <2>1 DEF Called
<1>4. t[1].form = 0
  BY <1>1 DEF StackIn
<1>5. \A i \in 1..n : (WritesNone(t[i]) <=> WritesNone(s[i])) /\ t[i].wrote = s[i].wrote
  BY <1>1 DEF WritesNone, Compiled
<1> QED
  BY <1>1, <1>2, <1>3, <1>4, <1>5 DEF StackIn

\* A write marks every activation.
Marked(s) == [i \in DOMAIN s |-> [s[i] EXCEPT !.wrote = TRUE]]

LEMMA MarkedIs ==
  ASSUME NEW s, IsSeq(s), NEW t, t = Marked(s), \A i \in 1..Len(s) : DOMAIN s[i] = ActFields
  PROVE  /\ IsSeq(t) /\ Len(t) = Len(s)
         /\ \A i \in 1..Len(s) :
               /\ DOMAIN t[i] = ActFields
               /\ t[i].fn = s[i].fn /\ t[i].pc = s[i].pc /\ t[i].acc = s[i].acc
               /\ t[i].form = s[i].form /\ t[i].wrote
<1>1. Len(s) \in Nat /\ DOMAIN s = 1..Len(s)
  BY SeqIs
<1>2. DOMAIN t = DOMAIN s /\ t = [i \in DOMAIN t |-> t[i]]
  BY DEF Marked
<1>3. IsSeq(t) /\ Len(t) = Len(s)
  BY <1>2, MapIs
<1>4. ASSUME NEW i \in 1..Len(s)
      PROVE  /\ DOMAIN t[i] = ActFields
             /\ t[i].fn = s[i].fn /\ t[i].pc = s[i].pc /\ t[i].acc = s[i].acc
             /\ t[i].form = s[i].form /\ t[i].wrote
  <2> PICK a, b : a = s[i] /\ b = t[i]
    OBVIOUS
  <2>1. b = [a EXCEPT !.wrote = TRUE] /\ DOMAIN a = ActFields
    BY <1>1 DEF Marked
  <2>2. /\ DOMAIN b = ActFields
        /\ b.fn = a.fn /\ b.pc = a.pc /\ b.acc = a.acc
        /\ b.form = a.form /\ b.wrote
    BY <2>1 DEF ActFields
  <2> QED
    BY <2>2
<1> QED
  BY <1>3, <1>4

\* Which is right when none of them says it writes nothing.
LEMMA ShowStack ==
  ASSUME NEW s, StackIn(s), Len(s) > 0, ~WritesNone(s[Len(s)]), NEW t, t = Marked(s)
  PROVE  StackIn(t)
<1> PICK n : n = Len(s)
  OBVIOUS
<1>1. IsSeq(s) /\ n \in Nat /\ n > 0 /\ \A i \in 1..n : DOMAIN s[i] = ActFields
  BY SeqIs DEF StackIn, ActOK
<1>2. /\ IsSeq(t) /\ Len(t) = n
      /\ \A i \in 1..n :
               /\ DOMAIN t[i] = ActFields
               /\ t[i].fn = s[i].fn /\ t[i].pc = s[i].pc /\ t[i].acc = s[i].acc
               /\ t[i].form = s[i].form /\ t[i].wrote
  BY <1>1, MarkedIs
<1>3. ASSUME NEW i \in 1..n
      PROVE  /\ ActOK(s[i]) => ActOK(t[i])
             /\ Waiting(s[i]) => Waiting(t[i])
             /\ \A x : Called(s[i], x) => Called(t[i], x)
             /\ WritesNone(t[i]) <=> WritesNone(s[i])
  <2> PICK a, b : a = s[i] /\ b = t[i]
    OBVIOUS
  <2>1. DOMAIN b = ActFields /\ b.fn = a.fn /\ b.pc = a.pc /\ b.acc = a.acc /\ b.form = a.form
    BY <1>2
  <2> QED
    BY <2>1, SameAct
<1>4. \A i \in 1..n : ActOK(t[i])
  BY <1>3 DEF StackIn
<1>5. ASSUME NEW i \in 1..n - 1 PROVE Waiting(t[i]) /\ Called(t[i], t[i + 1])
  <2>1. i \in 1..n /\ i + 1 \in 1..n
    BY <1>1
  <2>2. Waiting(s[i]) /\ Called(s[i], s[i + 1])
    BY DEF StackIn
  <2>3. Waiting(t[i]) /\ Called(t[i], s[i + 1])
    BY <1>3, <2>1, <2>2
  <2>4. t[i + 1].form = s[i + 1].form
    BY <1>2, <2>1
  <2> QED
    BY <2>3, <2>4 DEF Called
<1>6. t[1].form = 0
  BY <1>1, <1>2 DEF StackIn
<1>7. ASSUME NEW i \in 1..n PROVE ~WritesNone(t[i])
  <2>1. ~WritesNone(s[i])
    BY <1>1 DEF StackIn
  <2> QED
    BY <1>3, <2>1
<1> QED
  BY <1>2, <1>4, <1>5, <1>6, <1>7 DEF StackIn

-----------------------------------------------------------------------------
(* The machine.                                                              *)

\* The operations of Untiered on a machine.
LEMMA PushIs ==
  ASSUME NEW w, DOMAIN w = MFields, IsSeq(w.acts), NEW a, NEW x, x = Push(w, a)
  PROVE  /\ DOMAIN x = MFields /\ Extended(w.acts, a, x.acts)
         /\ x.bound = w.bound /\ x.version = w.version /\ x.cell = w.cell
<1> PICK s, t : s = w.acts /\ t = Append(s, a)
  OBVIOUS
<1>1. x = [w EXCEPT !.acts = t]
  BY DEF Push
<1>2. /\ DOMAIN x = MFields /\ x.acts = t
      /\ x.bound = w.bound /\ x.version = w.version /\ x.cell = w.cell
  BY <1>1 DEF MFields
<1>3. Extended(s, a, t)
  BY AppendIs
<1> QED
  BY <1>2, <1>3

LEMMA PopMIs ==
  ASSUME NEW w, DOMAIN w = MFields, IsSeq(w.acts), Len(w.acts) > 0, NEW x, x = Pop(w)
  PROVE  /\ DOMAIN x = MFields /\ Shortened(w.acts, x.acts)
         /\ x.bound = w.bound /\ x.version = w.version /\ x.cell = w.cell
<1> PICK s : s = w.acts
  OBVIOUS
<1> PICK t : t = SubSeq(s, 1, Len(s) - 1)
  OBVIOUS
<1>1. x = [w EXCEPT !.acts = t]
  BY DEF Pop
<1>2. /\ DOMAIN x = MFields /\ x.acts = t
      /\ x.bound = w.bound /\ x.version = w.version /\ x.cell = w.cell
  BY <1>1 DEF MFields
<1>3. Shortened(s, t)
  BY PopIs
<1> QED
  BY <1>2, <1>3

LEMMA SetTopMIs ==
  ASSUME NEW w, DOMAIN w = MFields, IsSeq(w.acts), Len(w.acts) > 0, NEW a, NEW x, x = SetTop(w, a)
  PROVE  /\ DOMAIN x = MFields /\ Topped(w.acts, a, x.acts)
         /\ x.bound = w.bound /\ x.version = w.version /\ x.cell = w.cell
<1> PICK s : s = w.acts
  OBVIOUS
<1> PICK t : t = [s EXCEPT ![Len(s)] = a]
  OBVIOUS
<1>1. x = [w EXCEPT !.acts = t]
  BY DEF SetTop
<1>2. /\ DOMAIN x = MFields /\ x.acts = t
      /\ x.bound = w.bound /\ x.version = w.version /\ x.cell = w.cell
  BY <1>1 DEF MFields
<1>3. Topped(s, a, t)
  BY SetTopIs
<1> QED
  BY <1>2, <1>3

LEMMA RunningIs ==
  ASSUME NEW w, IsSeq(w.acts)
  PROVE  /\ Len(w.acts) \in Nat
         /\ Running(w) <=> Len(w.acts) > 0
<1> PICK s, S : s = w.acts /\ s \in Seq(S)
  BY DEF IsSeq
<1>1. Len(s) \in Nat /\ (s = <<>> <=> Len(s) = 0)
  OBVIOUS
<1> QED
  BY <1>1 DEF Running

LEMMA SteppedIs ==
  ASSUME NEW a, DOMAIN a = ActFields, NEW v, NEW b, b = Stepped(a, v)
  PROVE  /\ DOMAIN b = ActFields /\ b.fn = a.fn /\ b.pc = a.pc + 1 /\ b.acc = v
         /\ b.form = a.form /\ b.wrote = a.wrote
<1> PICK y : y = [a EXCEPT !.acc = v]
  OBVIOUS
<1>1. DOMAIN y = ActFields /\ y.fn = a.fn /\ y.pc = a.pc /\ y.acc = v /\ y.form = a.form /\ y.wrote = a.wrote
  BY DEF ActFields
<1> PICK q : q = a.pc + 1
  OBVIOUS
<1>2. b = [y EXCEPT !.pc = q]
  BY DEF Stepped
<1>3. DOMAIN b = ActFields /\ b.fn = y.fn /\ b.pc = q /\ b.acc = y.acc /\ b.form = y.form /\ b.wrote = y.wrote
  BY <1>1, <1>2 DEF ActFields
<1> QED
  BY <1>1, <1>3

\* What an operation leaves in acc.
Gives(op, acc, cell, v) ==
    /\ op[1] = "let" => v = op[2]
    /\ op[1] = "load" => v = cell
    /\ op[1] = "field" => v.kind = FieldKind[acc.kind]
    /\ op[1] = "down" => v.kind = acc.kind
    /\ op[1] \in {"write", "odd", "bind"} => v = acc

EffectOps == {"let", "load", "field", "down", "write", "odd", "bind"}

LEMMA ToIs ==
  ASSUME NEW w, DOMAIN w = MFields, IsSeq(w.acts), Len(w.acts) > 0, NEW op,
         op[1] \in {"let", "load", "field", "down"}, NEW x, x = Effect(w, op)
  PROVE  \E v : Gives(op, Top(w).acc, w.cell, v) /\ x = SetTop(w, Stepped(Top(w), v))
<1>1. CASE op[1] = "let"
  BY <1>1 DEF Effect, Gives
<1>2. CASE op[1] = "load"
  BY <1>2 DEF Effect, Gives
<1>3. CASE op[1] = "field"
  <2> PICK k, n : k = FieldKind[Top(w).acc.kind] /\ n = Top(w).acc.n
    OBVIOUS
  <2> PICK v : v = Value(k, n)
    OBVIOUS
  <2>1. x = SetTop(w, Stepped(Top(w), v))
    BY <1>3 DEF Effect
  <2>2. v.kind = k
    BY DEF Value
  <2> QED
    BY <1>3, <2>1, <2>2 DEF Gives
<1>4. CASE op[1] = "down"
  <2> PICK k, n : k = Top(w).acc.kind /\ n = Top(w).acc.n - 1
    OBVIOUS
  <2> PICK v : v = Value(k, n)
    OBVIOUS
  <2>1. x = SetTop(w, Stepped(Top(w), v))
    BY <1>4 DEF Effect
  <2>2. v.kind = k
    BY DEF Value
  <2> QED
    BY <1>4, <2>1, <2>2 DEF Gives
<1> QED
  BY <1>1, <1>2, <1>3, <1>4

LEMMA ShowIs ==
  ASSUME NEW w, DOMAIN w = MFields, NEW v, NEW x, x = Show(w, v)
  PROVE  /\ DOMAIN x = MFields /\ x.acts = Marked(w.acts)
         /\ x.bound = w.bound /\ x.version = w.version /\ x.cell = w.cell
<1> PICK y, q : y = [w EXCEPT !.seen = q] /\ q = Append(w.seen, v)
  OBVIOUS
<1>1. DOMAIN y = MFields /\ y.acts = w.acts /\ y.bound = w.bound /\ y.version = w.version /\ y.cell = w.cell
  BY DEF MFields
<1> PICK s, t : s = w.acts /\ t = Marked(s)
  OBVIOUS
<1>2. x = [y EXCEPT !.acts = t]
  BY <1>1 DEF Show, Marked
<1>3. DOMAIN x = MFields /\ x.acts = t /\ x.bound = y.bound /\ x.version = y.version /\ x.cell = y.cell
  BY <1>1, <1>2 DEF MFields
<1> QED
  BY <1>1, <1>3

\* The stack an operation leaves, before its last activation steps on.
EffectOn(op, s) == IF op[1] \in {"write", "odd"} THEN Marked(s) ELSE s

LEMMA EffectIs ==
  ASSUME NEW w, DOMAIN w = MFields, IsSeq(w.acts), Len(w.acts) > 0,
         \A i \in 1..Len(w.acts) : DOMAIN w.acts[i] = ActFields,
         NEW op, op[1] \in EffectOps, NEW x, x = Effect(w, op)
  PROVE  /\ DOMAIN x = MFields
         /\ \E v, s : /\ Gives(op, Top(w).acc, w.cell, v)
                      /\ s = EffectOn(op, w.acts)
                      /\ Topped(s, Stepped(s[Len(s)], v), x.acts)
         /\ x.bound = IF op[1] = "bind" THEN [w.bound EXCEPT ![op[2]] = op[3]] ELSE w.bound
         /\ x.version = IF op[1] = "bind" THEN w.version + 1 ELSE w.version
<1> PICK a : a = Top(w)
  OBVIOUS
<1> PICK s : s = w.acts
  OBVIOUS
<1>0. a = s[Len(s)]
  BY DEF Top
<1>1. CASE op[1] \in {"let", "load", "field", "down"}
  <2>1. PICK v : Gives(op, a.acc, w.cell, v) /\ x = SetTop(w, Stepped(a, v))
    BY <1>1, ToIs
  <2> PICK b : b = Stepped(a, v)
    OBVIOUS
  <2>2. DOMAIN x = MFields /\ Topped(s, b, x.acts) /\ x.bound = w.bound /\ x.version = w.version
    BY <2>1, SetTopMIs
  <2>3. EffectOn(op, s) = s
    BY <1>1 DEF EffectOn
  <2>4. \E v1, s1 : /\ Gives(op, a.acc, w.cell, v1)
                    /\ s1 = EffectOn(op, s)
                    /\ Topped(s1, Stepped(s1[Len(s1)], v1), x.acts)
    BY <1>0, <2>1, <2>2, <2>3
  <2> QED
    BY <1>1, <2>2, <2>4
<1>2. CASE op[1] \in {"write", "odd"}
  <2> PICK t : t = Marked(s)
    OBVIOUS
  <2>1. IsSeq(t) /\ Len(t) = Len(s) /\ t[Len(s)].acc = a.acc /\ Len(s) \in Nat
    <3>1. Len(s) \in Nat /\ Len(s) \in 1..Len(s)
      BY SeqIs
    <3> QED
      BY <1>0, <3>1, MarkedIs
  <2>2. PICK y : /\ x = SetTop(y, Stepped(Top(y), a.acc)) /\ y.acts = t
                 /\ DOMAIN y = MFields /\ y.bound = w.bound /\ y.version = w.version
    <3>1. CASE op[1] = "write"
      <4> PICK z : z = Show(w, a.acc)
        OBVIOUS
      <4>1. DOMAIN z = MFields /\ z.acts = t /\ z.bound = w.bound /\ z.version = w.version
        BY ShowIs
      <4> PICK c : c = a.acc
        OBVIOUS
      <4> PICK y : y = [z EXCEPT !.cell = c]
        OBVIOUS
      <4>2. DOMAIN y = MFields /\ y.acts = t /\ y.bound = w.bound /\ y.version = w.version
        BY <4>1 DEF MFields
      <4>3. x = SetTop(y, Stepped(Top(y), a.acc))
        BY <3>1 DEF Effect
      <4> QED
        BY <4>2, <4>3
    <3>2. CASE op[1] = "odd"
      <4> PICK v : v = Value("odd", a.acc.n)
        OBVIOUS
      <4> PICK y : y = Show(w, v)
        OBVIOUS
      <4>1. DOMAIN y = MFields /\ y.acts = t /\ y.bound = w.bound /\ y.version = w.version
        BY ShowIs
      <4>3. x = SetTop(y, Stepped(Top(y), a.acc))
        BY <3>2 DEF Effect
      <4> QED
        BY <4>1, <4>3
    <3> QED
      BY <1>2, <3>1, <3>2
  <2> PICK v : v = a.acc
    OBVIOUS
  <2> PICK b : b = Stepped(t[Len(t)], v)
    OBVIOUS
  <2>3. x = SetTop(y, b)
    BY <2>2 DEF Top
  <2>4. DOMAIN x = MFields /\ Topped(t, b, x.acts) /\ x.bound = w.bound /\ x.version = w.version
    BY <2>1, <2>2, <2>3, SetTopMIs
  <2>5. EffectOn(op, s) = t /\ Gives(op, a.acc, w.cell, v)
    BY <1>2 DEF EffectOn, Gives
  <2>6. \E v1, s1 : /\ Gives(op, a.acc, w.cell, v1)
                    /\ s1 = EffectOn(op, s)
                    /\ Topped(s1, Stepped(s1[Len(s1)], v1), x.acts)
    BY <2>4, <2>5
  <2> QED
    BY <1>2, <2>4, <2>6
<1>3. CASE op[1] = "bind"
  <2> PICK g, q : g = [w.bound EXCEPT ![op[2]] = op[3]] /\ q = w.version + 1
    OBVIOUS
  <2> PICK z : z = [w EXCEPT !.bound = g]
    OBVIOUS
  <2>1. DOMAIN z = MFields /\ z.acts = s /\ z.bound = g /\ z.version = w.version
    BY DEF MFields
  <2> PICK y : y = [z EXCEPT !.version = q]
    OBVIOUS
  <2>2. DOMAIN y = MFields /\ y.acts = s /\ y.bound = g /\ y.version = q
    BY <2>1 DEF MFields
  <2> PICK v : v = a.acc
    OBVIOUS
  <2>3. x = SetTop(y, Stepped(Top(y), v))
    BY <1>3, <2>1 DEF Effect
  <2> PICK b : b = Stepped(a, v)
    OBVIOUS
  <2>4. x = SetTop(y, b)
    BY <1>0, <2>2, <2>3 DEF Top
  <2>5. DOMAIN x = MFields /\ Topped(s, b, x.acts) /\ x.bound = g /\ x.version = q
    <3>1. DOMAIN y = MFields /\ IsSeq(y.acts) /\ Len(y.acts) > 0 /\ y.acts = s
      BY <2>2
    <3>2. DOMAIN x = MFields /\ Topped(y.acts, b, x.acts) /\ x.bound = y.bound /\ x.version = y.version
      BY ONLY <2>4, <3>1, SetTopMIs
    <3> QED
      BY <2>2, <3>1, <3>2
  <2>6. EffectOn(op, s) = s /\ Gives(op, a.acc, w.cell, v)
    BY <1>3 DEF EffectOn, Gives
  <2>7. \E v1, s1 : /\ Gives(op, a.acc, w.cell, v1)
                    /\ s1 = EffectOn(op, s)
                    /\ Topped(s1, Stepped(s1[Len(s1)], v1), x.acts)
    BY <1>0, <2>5, <2>6
  <2> QED
    BY <1>3, <2>5, <2>7
<1> QED
  BY <1>1, <1>2, <1>3 DEF EffectOps

-----------------------------------------------------------------------------
(* Where an activation is.                                                   *)

\* What an activation goes on with: what it holds, while ShapesStand.
LEMMA AccIs ==
  ASSUME NEW a, ActOK(a)
  PROVE  /\ ShapesStand \/ ~Compiled(a) => Acc(a) = a.acc
         /\ Compiled(a) => Typed(forms[a.form].kinds[a.pc], Acc(a))
<1>1. ASSUME Compiled(a), ShapesStand PROVE Acc(a) = a.acc
  <2> PICK k, v : k = forms[a.form].kinds[a.pc] /\ v = a.acc
    OBVIOUS
  <2>1. Takes(Shape(k), v.kind)
    BY <1>1 DEF ActOK, Typed
  <2>2. Takes(Payload(k), v.kind)
    BY <2>1, TakesTakes
  <2> QED
    BY <1>1, <2>2 DEF Acc, Held
<1>2. ~Compiled(a) => Acc(a) = a.acc
  BY DEF Acc
<1> QED
  BY <1>1, <1>2 DEF ActOK, Typed

\* The stack of a machine that still runs.
LEMMA TopIs ==
  ASSUME StackOK, Running(m)
  PROVE  /\ IsSeq(m.acts) /\ Len(m.acts) \in Nat /\ Len(m.acts) > 0
         /\ Top(m) = m.acts[Len(m.acts)] /\ ActOK(Top(m))
         /\ Len(m.acts) = 1 => ~Compiled(Top(m))
<1> PICK w : w = m
  OBVIOUS
<1>1. StackIn(w.acts) /\ Running(w)
  BY DEF StackOK
<1>2. IsSeq(w.acts)
  BY <1>1 DEF StackIn
<1>3. Len(w.acts) \in Nat /\ Len(w.acts) > 0
  BY <1>1, <1>2, RunningIs
<1>4. Top(w) = w.acts[Len(w.acts)]
  BY DEF Top
<1>5. ActOK(w.acts[Len(w.acts)])
  BY <1>1, <1>3 DEF StackIn
<1>6. Len(w.acts) = 1 => ~Compiled(Top(w))
  BY <1>1, <1>3, <1>4 DEF StackIn, Compiled
<1> QED
  BY <1>2, <1>3, <1>4, <1>5, <1>6

\* The last operation of a body leaves.
LEMMA NextPc ==
  ASSUME prog \in Programs, NEW a, ActOK(a), OpOf(prog, a)[1] \notin {"ret", "throw"}
  PROVE  a.pc + 1 \in 1..Len(prog[a.fn])
<1> PICK body, n : body = prog[a.fn] /\ n = Len(body)
  OBVIOUS
<1>1. a.fn \in DOMAIN prog /\ a.pc \in 1..n
  BY DEF ActOK, Fns
<1>2. n \in Nat /\ body[n][1] \in {"ret", "throw"}
  BY <1>1, Bodies DEF IsBody, Fns
<1>3. body[a.pc][1] \notin {"ret", "throw"}
  BY DEF OpOf
<1>4. a.pc # n
  BY <1>2, <1>3
<1> QED
  BY <1>1, <1>2, <1>4

\* Where a compiled activation is.
LEMMA AtSite ==
  ASSUME prog \in Programs, FormsOK, NEW a, ActOK(a), Compiled(a), ~Stopped(a), NEW F, F = forms[a.form]
  PROVE  /\ Shaped(F) /\ Spoken(F) /\ ReturnsAs(F) /\ F.fn = a.fn
         /\ a.pc \in 1..Len(F.sites)
         /\ OpOK(F.fn, F.param, OpOf(prog, a), F.sites[a.pc], F.kinds[a.pc], F.kinds[a.pc + 1], F.writes)
         /\ Site(a) = F.sites[a.pc]
         /\ OpOf(prog, a)[1] # "ret" => a.pc + 1 \in 1..Len(F.kinds)
<1>1. a.form \in 1..Len(forms) /\ F.fn = a.fn /\ a.pc \in 1..Len(F.kinds)
  BY SeqIs DEF ActOK, Compiled, FormsOK
<1>2. Shaped(F) /\ Spoken(F) /\ ReturnsAs(F)
  BY <1>1 DEF FormsOK
<1>3. F.stop # a.pc
  BY DEF Stopped
<1>4. Len(F.kinds) \in Nat /\ Len(F.sites) \in Nat
  BY <1>2, SeqIs DEF Shaped
<1>5. a.pc \in 1..Len(F.sites)
  BY <1>1, <1>2, <1>3, <1>4 DEF Shaped
<1>6. OpOf(prog, a) = prog[F.fn][a.pc]
  BY <1>1 DEF OpOf
<1>7. OpOK(F.fn, F.param, OpOf(prog, a), F.sites[a.pc], F.kinds[a.pc], F.kinds[a.pc + 1], F.writes)
  BY <1>2, <1>5, <1>6 DEF Spoken
<1>8. Site(a) = F.sites[a.pc]
  BY DEF Site
<1>9. ASSUME OpOf(prog, a)[1] # "ret" PROVE a.pc + 1 \in 1..Len(F.kinds)
  <2>1. OpOf(prog, a)[1] \notin {"ret", "throw"}
    BY <1>7, <1>9 DEF OpOK
  <2>2. a.pc + 1 \in 1..Len(prog[F.fn])
    BY <1>1, <2>1, NextPc
  <2>3. Len(prog[F.fn]) \in Nat /\ (F.stop = 0 \/ F.stop \in 1..Len(prog[F.fn]))
    <3>1. F.fn \in Fns
      BY <1>2 DEF Shaped
    <3>2. IsBody(prog, prog[F.fn])
      BY <3>1, Bodies
    <3> QED
      BY <1>2, <3>2 DEF IsBody, Shaped
  <2> QED
    BY <1>1, <1>2, <1>3, <1>4, <2>2, <2>3 DEF Shaped
<1> QED
  BY <1>1, <1>2, <1>5, <1>7, <1>8, <1>9

\* An activation steps on.
LEMMA StepOK ==
  ASSUME prog \in Programs, FormsOK, NEW a, ActOK(a), ~Stopped(a),
         OpOf(prog, a)[1] \notin {"ret", "throw"}, NEW v,
         Compiled(a) => Typed(forms[a.form].kinds[a.pc + 1], v),
         NEW b, b = Stepped(a, v)
  PROVE  ActOK(b) /\ b.form = a.form /\ b.wrote = a.wrote /\ b.fn = a.fn
<1>1. /\ DOMAIN b = ActFields /\ b.fn = a.fn /\ b.pc = a.pc + 1 /\ b.acc = v
      /\ b.form = a.form /\ b.wrote = a.wrote
  BY SteppedIs DEF ActOK
<1>2. b.pc \in 1..Len(prog[b.fn])
  BY <1>1, NextPc
<1>3. ASSUME Compiled(b)
      PROVE  /\ forms[b.form].fn = b.fn
             /\ b.pc \in 1..Len(forms[b.form].kinds)
             /\ Typed(forms[b.form].kinds[b.pc], b.acc)
  <2>1. Compiled(a)
    BY <1>1, <1>3 DEF Compiled
  <2> PICK F : F = forms[a.form]
    OBVIOUS
  <2>2. F.fn = a.fn /\ a.pc + 1 \in 1..Len(F.kinds)
    BY <2>1, AtSite
  <2> QED
    BY <1>1, <2>1, <2>2
<1> QED
  BY <1>1, <1>2, <1>3 DEF ActOK

\* What a compiled call may be.
LEMMA AtCall ==
  ASSUME prog \in Programs, FormsOK, NEW a, ActOK(a), Compiled(a), ~Stopped(a),
         OpOf(prog, a)[1] = "call", NEW F, F = forms[a.form]
  PROVE  /\ CallOK(F.fn, F.param, Site(a), F.kinds[a.pc], F.kinds[a.pc + 1], F.writes)
         /\ F.fn = a.fn /\ a.pc \in 1..Len(F.sites) /\ ReturnsAs(F)
         /\ Site(a) = F.sites[a.pc]
         /\ Site(a).mode \in {"self", "inline", "direct", "desc"}
         /\ Typed(F.kinds[a.pc], a.acc) /\ Typed(F.kinds[a.pc], Acc(a))
<1>1. /\ OpOK(F.fn, F.param, OpOf(prog, a), F.sites[a.pc], F.kinds[a.pc], F.kinds[a.pc + 1], F.writes)
      /\ F.fn = a.fn /\ a.pc \in 1..Len(F.sites) /\ ReturnsAs(F) /\ Site(a) = F.sites[a.pc]
  BY AtSite
<1>2. CallOK(F.fn, F.param, Site(a), F.kinds[a.pc], F.kinds[a.pc + 1], F.writes)
  BY <1>1 DEF OpOK
<1>3. Site(a).mode \in {"self", "inline", "direct", "desc"}
  BY <1>2 DEF CallOK
<1>4. Typed(F.kinds[a.pc], a.acc) /\ Typed(F.kinds[a.pc], Acc(a))
  BY AccIs DEF ActOK
<1> QED
  BY <1>1, <1>2, <1>3, <1>4

-----------------------------------------------------------------------------
(* One operation.                                                            *)

\* A step that compiles nothing.
LEMMA SameForms ==
  ASSUME IInv, UNCHANGED <<prog, forms>>
  PROVE  Grown /\ prog' \in Programs /\ FormsOK'
<1>1. Grown
  BY SeqIs DEF IInv, FormsOK, Grown
<1> QED
  BY <1>1, FormsKept DEF IInv

LEMMA SameCode ==
  ASSUME IInv, UNCHANGED <<prog, forms, tier>>
  PROVE  Grown /\ prog' \in Programs /\ FormsOK' /\ TierOK'
<1>1. TierOK'
  BY DEF IInv, TierOK, Agrees, Fns
<1> QED
  BY <1>1, SameForms

\* The invariant of the stack is the same in the next state.
LEMMA NewStack ==
  ASSUME Grown, NEW t, t = m'.acts, StackIn(t)
  PROVE  StackOK'
<1>1. StackIn(t)'
  BY StackGrows
<1> QED
  BY <1>1 DEF StackOK

LEMMA SameNames ==
  ASSUME MachineOK, prog' = prog, DOMAIN m' = MFields, m'.bound = m.bound
  PROVE  MachineOK'
BY DEF MachineOK, Fns

\* What an operation gives is what the walk said.
LEMMA GivesKind ==
  ASSUME prog \in Programs, FormsOK, NEW a, ActOK(a), Compiled(a), ~Stopped(a),
         NEW op, op = OpOf(prog, a), op[1] \in EffectOps, ~GuardFails(a, op),
         NEW v, Gives(op, a.acc, m.cell, v)
  PROVE  Typed(forms[a.form].kinds[a.pc + 1], v) /\ op[1] \notin {"odd", "bind"}
<1> PICK F : F = forms[a.form]
  OBVIOUS
<1> PICK s, k, next, acc : s = F.sites[a.pc] /\ k = F.kinds[a.pc] /\ next = F.kinds[a.pc + 1] /\ acc = a.acc
  OBVIOUS
<1>1. /\ OpOK(F.fn, F.param, op, s, k, next, F.writes)
      /\ op[1] # "ret" => a.pc + 1 \in 1..Len(F.kinds)
      /\ Shaped(F)
  BY AtSite
<1>3. op[1] \notin {"odd", "bind"}
  BY <1>1 DEF OpOK
<1> SUFFICES ASSUME ShapesStand PROVE Takes(Shape(next), v.kind)
  BY <1>3 DEF Typed
<1>2. Takes(Shape(k), acc.kind)
  BY DEF ActOK, Typed
<1>4. CASE op[1] = "let"
  <2>1. next = op[2].kind /\ next \notin DOMAIN Likeness /\ v = op[2]
    BY <1>1, <1>4 DEF OpOK, Gives
  <2> QED
    BY <2>1, KindIs DEF Takes
<1>5. CASE op[1] = "load"
  <2>1. a.pc < Len(F.kinds)
    <3>1. Len(F.kinds) \in Nat /\ a.pc \in Nat
      <4>1. IsSeq(F.kinds)
        BY <1>1 DEF Shaped
      <4>2. a.pc \in 1..Len(prog[a.fn])
        BY DEF ActOK
      <4> QED
        BY <4>1, <4>2, SeqIs
    <3> QED
      BY <1>1, <1>5, <3>1
  <2>2. Takes(next, m.cell.kind)
    BY <1>5, <2>1 DEF GuardFails
  <2>3. v = m.cell
    BY <1>5 DEF Gives
  <2> QED
    BY <2>2, <2>3, TakesReal
<1>6. CASE op[1] = "field"
  <2>1. k \in Classes /\ next = FieldKind[k] /\ v.kind = FieldKind[acc.kind]
    BY <1>1, <1>6 DEF OpOK, Gives
  <2>2. acc.kind = k
    BY <1>2, <2>1, KindNames, KindIs DEF Takes
  <2>3. FieldKind[k] \in Classes \cup {"int"}
    BY <2>1 DEF Classes, FieldKind
  <2> QED
    BY <2>1, <2>2, <2>3, KindNames, KindIs DEF Takes
<1>7. CASE op[1] \in {"down", "write"}
  <2>1. next = k /\ v.kind = acc.kind
    BY <1>1, <1>7 DEF OpOK, Gives
  <2> QED
    BY <1>2, <2>1
<1> QED
  BY <1>3, <1>4, <1>5, <1>6, <1>7 DEF EffectOps

\* An operation is one of its body.
LEMMA OpIs ==
  ASSUME prog \in Programs, NEW a, ActOK(a)
  PROVE  IsOp(prog, OpOf(prog, a))
<1>1. IsBody(prog, prog[a.fn]) /\ a.pc \in 1..Len(prog[a.fn])
  BY Bodies DEF ActOK
<1> QED
  BY <1>1 DEF IsBody, OpOf

\* The machine an operation starts from: acc as compiled code holds it.
Before(a, op, b, w) ==
    /\ a = Top(m) /\ op = OpOf(prog, a) /\ b = [a EXCEPT !.acc = Acc(a)] /\ w = SetTop(m, b)

\* What is known of it.
LEMMA BeforeIs ==
  ASSUME IInv, Step, NEW a, NEW op, NEW b, NEW w, Before(a, op, b, w)
  PROVE  /\ answer.verdict = None /\ pending.at = None /\ Running(m)
         /\ ~Stopped(a) /\ ~GuardFails(a, op) /\ m' = Effect(w, op)
         /\ UNCHANGED <<prog, plain, forms, tier, deopt, pending, misses, answer>>
         /\ IsSeq(m.acts) /\ Len(m.acts) \in Nat /\ Len(m.acts) > 0
         /\ a = m.acts[Len(m.acts)] /\ ActOK(a)
         /\ b.fn = a.fn /\ b.pc = a.pc /\ b.acc = Acc(a) /\ b.form = a.form /\ b.wrote = a.wrote
         /\ op = OpOf(prog, a) /\ ActOK(b)
         /\ DOMAIN w = MFields /\ Topped(m.acts, b, w.acts)
         /\ w.bound = m.bound /\ w.version = m.version /\ w.cell = m.cell
         /\ StackIn(w.acts) /\ IsSeq(w.acts) /\ Len(w.acts) = Len(m.acts)
         /\ w.acts[Len(w.acts)] = b /\ Top(w) = b
         /\ \A i \in 1..Len(w.acts) : DOMAIN w.acts[i] = ActFields
         /\ op[1] \in EffectOps
         /\ op[1] = "bind" => op[2] \in DOMAIN Bound /\ op[3] \in Fns
<1>0. a = Top(m) /\ op = OpOf(prog, a) /\ b = [a EXCEPT !.acc = Acc(a)] /\ w = SetTop(m, b)
  BY DEF Before
<1>1. /\ answer.verdict = None /\ pending.at = None /\ Running(m)
      /\ ~Stopped(a) /\ ~GuardFails(a, op)
      /\ op[1] # "call" /\ ~Returns(op, a) /\ ~Raises(op, b)
      /\ m' = Effect(w, op)
      /\ UNCHANGED <<prog, plain, forms, tier, deopt, pending, misses, answer>>
  BY <1>0 DEF Step, Quiet, TierSame, Given
<1>2. /\ IsSeq(m.acts) /\ Len(m.acts) \in Nat /\ Len(m.acts) > 0 /\ a = m.acts[Len(m.acts)]
      /\ ActOK(a) /\ StackIn(m.acts) /\ MachineOK /\ FormsOK /\ prog \in Programs
  BY <1>0, <1>1, TopIs DEF IInv, StackOK
<1>3. DOMAIN b = ActFields /\ b.fn = a.fn /\ b.pc = a.pc /\ b.acc = Acc(a) /\ b.form = a.form /\ b.wrote = a.wrote
  <2> PICK c : c = Acc(a)
    OBVIOUS
  <2>1. b = [a EXCEPT !.acc = c] /\ DOMAIN a = ActFields
    BY <1>0, <1>2 DEF ActOK
  <2> QED
    BY <2>1 DEF ActFields
<1>4. ActOK(b)
  <2>1. Compiled(a) => Typed(forms[a.form].kinds[a.pc], b.acc)
    BY <1>2, <1>3, AccIs
  <2> QED
    BY <1>2, <1>3, <2>1 DEF ActOK, Compiled
<1>5. /\ DOMAIN w = MFields /\ Topped(m.acts, b, w.acts)
      /\ w.bound = m.bound /\ w.version = m.version /\ w.cell = m.cell
  <2> PICK z : z = m
    OBVIOUS
  <2>1. DOMAIN z = MFields /\ IsSeq(z.acts) /\ Len(z.acts) > 0 /\ w = SetTop(z, b)
    BY <1>0, <1>2 DEF MachineOK
  <2> QED
    BY <2>1, SetTopMIs
<1>6. StackIn(w.acts)
  <2> PICK s, t : s = m.acts /\ t = w.acts
    OBVIOUS
  <2>1. StackIn(s) /\ Len(s) > 0 /\ b.form = s[Len(s)].form /\ b.wrote = s[Len(s)].wrote /\ Topped(s, b, t)
    BY <1>2, <1>3, <1>5
  <2> QED
    BY <1>4, <2>1, TopStack
<1>7. /\ IsSeq(w.acts) /\ Len(w.acts) = Len(m.acts) /\ w.acts[Len(w.acts)] = b /\ Top(w) = b
      /\ \A i \in 1..Len(w.acts) : DOMAIN w.acts[i] = ActFields
  BY <1>2, <1>5, <1>6 DEF Topped, StackIn, ActOK, Top
<1>8. op[1] \in EffectOps /\ (op[1] = "bind" => op[2] \in DOMAIN Bound /\ op[3] \in Fns)
  <2>1. IsOp(prog, op)
    BY <1>0, <1>2, OpIs
  <2>2. op[1] # "ret" /\ op[1] # "throw"
    BY <1>1 DEF Returns, Raises
  <2> QED
    BY <1>1, <2>1, <2>2 DEF IsOp, Ops, EffectOps, Fns
<1> QED
  BY <1>0, <1>1, <1>2, <1>3, <1>4, <1>5, <1>6, <1>7, <1>8

LEMMA StepInv ==
  ASSUME IInv, Step
  PROVE  IInv'
<1> PICK a : a = Top(m)
  OBVIOUS
<1> PICK op : op = OpOf(prog, a)
  OBVIOUS
<1> PICK b : b = [a EXCEPT !.acc = Acc(a)]
  OBVIOUS
<1> PICK w : w = SetTop(m, b)
  OBVIOUS
<1>0. Before(a, op, b, w)
  BY DEF Before
<1>1. /\ answer.verdict = None /\ pending.at = None /\ Running(m)
      /\ ~Stopped(a) /\ ~GuardFails(a, op) /\ m' = Effect(w, op)
      /\ UNCHANGED <<prog, plain, forms, tier, deopt, pending, misses, answer>>
  BY ONLY IInv, Step, <1>0, BeforeIs
<1>2. /\ IsSeq(m.acts) /\ Len(m.acts) \in Nat /\ Len(m.acts) > 0
      /\ a = m.acts[Len(m.acts)] /\ ActOK(a)
      /\ MachineOK /\ FormsOK /\ prog \in Programs
  BY ONLY IInv, Step, <1>0, BeforeIs DEF IInv
<1>3. b.fn = a.fn /\ b.pc = a.pc /\ b.acc = Acc(a) /\ b.form = a.form /\ b.wrote = a.wrote
  BY ONLY IInv, Step, <1>0, BeforeIs
<1>4. ActOK(b) /\ op = OpOf(prog, a)
  BY ONLY IInv, Step, <1>0, BeforeIs
<1>5. DOMAIN w = MFields /\ w.bound = m.bound /\ w.version = m.version /\ w.cell = m.cell
  BY ONLY IInv, Step, <1>0, BeforeIs
<1>6. StackIn(w.acts)
  BY ONLY IInv, Step, <1>0, BeforeIs
<1>7. /\ IsSeq(w.acts) /\ Len(w.acts) = Len(m.acts) /\ w.acts[Len(w.acts)] = b /\ Top(w) = b
      /\ \A i \in 1..Len(w.acts) : DOMAIN w.acts[i] = ActFields
  BY ONLY IInv, Step, <1>0, BeforeIs
<1>8. op[1] \in EffectOps /\ (op[1] = "bind" => op[2] \in DOMAIN Bound /\ op[3] \in Fns)
  BY ONLY IInv, Step, <1>0, BeforeIs
<1> PICK x : x = m'
  OBVIOUS
<1>9. PICK v, s : /\ Gives(op, b.acc, w.cell, v)
                  /\ s = EffectOn(op, w.acts)
                  /\ Topped(s, Stepped(s[Len(s)], v), x.acts)
  <2>1. DOMAIN w = MFields /\ IsSeq(w.acts) /\ Len(w.acts) > 0 /\ x = Effect(w, op)
    BY <1>1, <1>2, <1>5, <1>7
  <2>2. \A i \in 1..Len(w.acts) : DOMAIN w.acts[i] = ActFields
    BY <1>7
  <2>3. op[1] \in EffectOps
    BY <1>8
  <2>4. \E v, s : /\ Gives(op, Top(w).acc, w.cell, v)
                  /\ s = EffectOn(op, w.acts)
                  /\ Topped(s, Stepped(s[Len(s)], v), x.acts)
    BY ONLY <2>1, <2>2, <2>3, EffectIs
  <2> QED
    BY <1>7, <2>4
<1>10. /\ DOMAIN x = MFields
       /\ x.bound = IF op[1] = "bind" THEN [w.bound EXCEPT ![op[2]] = op[3]] ELSE w.bound
  <2>1. DOMAIN w = MFields /\ IsSeq(w.acts) /\ Len(w.acts) > 0 /\ x = Effect(w, op)
    BY <1>1, <1>2, <1>5, <1>7
  <2>2. \A i \in 1..Len(w.acts) : DOMAIN w.acts[i] = ActFields
    BY ONLY <1>7
  <2>3. op[1] \in EffectOps
    BY ONLY <1>8
  <2> QED
    BY ONLY <2>1, <2>2, <2>3, EffectIs
<1>11. MachineOK'
  <2>1. Fns' = Fns
    BY <1>1 DEF Fns
  <2>2. DOMAIN x.bound = DOMAIN Bound /\ \A name \in DOMAIN Bound : x.bound[name] \in Fns
    <3> PICK y, z : y = w.bound /\ z = x.bound
      OBVIOUS
    <3>1. DOMAIN y = DOMAIN Bound /\ \A name \in DOMAIN Bound : y[name] \in Fns
      BY ONLY <1>2, <1>5, y = w.bound DEF MachineOK
    <3>2. z = IF op[1] = "bind" THEN [y EXCEPT ![op[2]] = op[3]] ELSE y
      BY ONLY <1>10, y = w.bound, z = x.bound
    <3>3. DOMAIN z = DOMAIN Bound /\ \A name \in DOMAIN Bound : z[name] \in Fns
      <4>1. CASE op[1] = "bind"
        BY ONLY <1>8, <3>1, <3>2, <4>1
      <4>2. CASE op[1] # "bind"
        BY ONLY <3>1, <3>2, <4>2
      <4> QED
        BY ONLY <4>1, <4>2
    <3> QED
      BY ONLY <3>3, z = x.bound
  <2> QED
    BY <1>10, <2>1, <2>2 DEF MachineOK
<1>12. Compiled(b) => Typed(forms[b.form].kinds[b.pc + 1], v) /\ op[1] \notin {"odd", "bind"}
  <2>1. ~Stopped(b) /\ ~GuardFails(b, op) /\ op = OpOf(prog, b)
    BY <1>1, <1>3 DEF Stopped, GuardFails, OpOf, Compiled
  <2>2. Gives(op, b.acc, m.cell, v)
    BY <1>5, <1>9
  <2> QED
    BY <1>2, <1>4, <1>8, <2>1, <2>2, GivesKind
<1>13. ASSUME op[1] \in {"write", "odd"} PROVE ~WritesNone(b)
  <2> SUFFICES ASSUME Compiled(b) PROVE forms[b.form].writes
    BY DEF WritesNone
  <2> PICK F : F = forms[b.form]
    OBVIOUS
  <2>1. ~Stopped(b) /\ op = OpOf(prog, b)
    BY <1>1, <1>3 DEF Stopped, OpOf, Compiled
  <2>2. OpOK(F.fn, F.param, op, F.sites[b.pc], F.kinds[b.pc], F.kinds[b.pc + 1], F.writes)
    BY <1>2, <1>4, <2>1, AtSite
  <2>3. op[1] = "write"
    BY <1>12, <1>13
  <2> QED
    BY <2>2, <2>3 DEF OpOK
<1>14. StackIn(s) /\ Len(s) = Len(m.acts)
       /\ ActOK(s[Len(s)]) /\ s[Len(s)].pc = b.pc /\ s[Len(s)].form = b.form /\ s[Len(s)].fn = b.fn
  <2>1. CASE op[1] \in {"write", "odd"}
    <3> PICK t : t = w.acts
      OBVIOUS
    <3>1. s = Marked(t)
      BY <1>9, <2>1 DEF EffectOn
    <3>2. Len(t) > 0 /\ ~WritesNone(t[Len(t)]) /\ StackIn(t) /\ IsSeq(t) /\ t[Len(t)] = b /\ Len(t) = Len(m.acts)
      BY <1>2, <1>6, <1>7, <1>13, <2>1
    <3>3. StackIn(s)
      BY <3>1, <3>2, ShowStack
    <3>0. Len(t) \in 1..Len(t) /\ \A i \in 1..Len(t) : DOMAIN t[i] = ActFields
      <4>1. Len(t) \in 1..Len(t)
        BY ONLY <3>2, SeqIs
      <4>2. \A i \in 1..Len(t) : DOMAIN t[i] = ActFields
        BY ONLY <3>2 DEF StackIn, ActOK
      <4> QED
        BY <4>1, <4>2
    <3>4. /\ Len(s) = Len(t)
          /\ \A i \in 1..Len(t) : s[i].fn = t[i].fn /\ s[i].pc = t[i].pc /\ s[i].form = t[i].form
      BY ONLY <3>0, <3>1, <3>2, MarkedIs
    <3>5. s[Len(s)].pc = b.pc /\ s[Len(s)].form = b.form /\ s[Len(s)].fn = b.fn
      <4> PICK i : i = Len(t)
        OBVIOUS
      <4>1. s[i].fn = t[i].fn /\ s[i].pc = t[i].pc /\ s[i].form = t[i].form
        BY ONLY <3>0, <3>4, i = Len(t)
      <4>2. t[i] = b /\ Len(s) = i
        BY ONLY <3>2, <3>4, i = Len(t)
      <4> QED
        BY ONLY <4>1, <4>2
    <3>6. ActOK(s[Len(s)])
      BY <3>0, <3>3, <3>4 DEF StackIn
    <3> QED
      BY <3>2, <3>3, <3>4, <3>5, <3>6
  <2>2. CASE op[1] \notin {"write", "odd"}
    <3>1. s = w.acts
      BY <1>9, <2>2 DEF EffectOn
    <3> QED
      BY <1>4, <1>6, <1>7, <3>1
  <2> QED
    BY <2>1, <2>2
<1> PICK c, d : c = s[Len(s)] /\ d = Stepped(c, v)
  OBVIOUS
<1>15. ActOK(d) /\ d.form = c.form /\ d.wrote = c.wrote
  <2>1. ActOK(c) /\ c.pc = b.pc /\ c.form = b.form /\ c.fn = b.fn
    BY <1>14
  <2>2. ~Stopped(c) /\ OpOf(prog, c) = op
    <3>1. ~Stopped(c)
      BY <1>1, <1>3, <2>1 DEF Stopped, Compiled
    <3>2. OpOf(prog, c) = OpOf(prog, a)
      BY <1>3, <2>1 DEF OpOf
    <3> QED
      BY <3>1, <3>2
  <2>3. Compiled(c) => Typed(forms[c.form].kinds[c.pc + 1], v)
    BY <1>12, <2>1 DEF Compiled
  <2>4. OpOf(prog, c)[1] \notin {"ret", "throw"}
    BY <1>8, <2>2 DEF EffectOps
  <2>5. d = Stepped(c, v) /\ prog \in Programs /\ FormsOK
    BY <1>2
  <2> QED
    BY ONLY <2>1, <2>2, <2>3, <2>4, <2>5, StepOK
<1>16. StackIn(x.acts)
  <2> PICK t : t = x.acts
    OBVIOUS
  <2>1. StackIn(s) /\ Len(s) > 0 /\ d.form = s[Len(s)].form /\ d.wrote = s[Len(s)].wrote /\ Topped(s, d, t)
    BY <1>2, <1>9, <1>14, <1>15
  <2> QED
    BY <1>15, <2>1, TopStack
<1>17. Grown /\ prog' \in Programs /\ FormsOK' /\ TierOK'
  BY <1>1, SameCode
<1>18. StackOK'
  BY <1>16, <1>17, NewStack
<1>19. PendingOK' /\ AnswerOK'
  BY <1>1 DEF PendingOK, AnswerOK, None
<1> QED
  BY <1>11, <1>17, <1>18, <1>19 DEF IInv

-----------------------------------------------------------------------------
(* Leaving.                                                                  *)

\* The activation on top has left.
LEMMA Popped ==
  ASSUME IInv, Running(m), m' = Pop(m), UNCHANGED <<prog, forms>>, NEW a, a = Top(m)
  PROVE  /\ MachineOK' /\ StackOK' /\ ActOK(a)
         /\ Running(m)' => \E b : /\ b = Top(m)' /\ ActOK(b) /\ Waiting(b) /\ Waiting(b)'
                                  /\ Called(b, a)
<1> PICK w, x : w = m /\ x = m'
  OBVIOUS
<1>1. /\ IsSeq(w.acts) /\ Len(w.acts) \in Nat /\ Len(w.acts) > 0 /\ a = w.acts[Len(w.acts)]
      /\ ActOK(a) /\ StackIn(w.acts) /\ MachineOK /\ DOMAIN w = MFields /\ x = Pop(w)
  BY TopIs DEF IInv, StackOK, MachineOK
<1>2. DOMAIN x = MFields /\ Shortened(w.acts, x.acts) /\ x.bound = w.bound
  BY <1>1, PopMIs
<1> PICK s, t : s = w.acts /\ t = x.acts
  OBVIOUS
<1>3. StackIn(t) /\ (Len(t) > 0 => Waiting(t[Len(t)]) /\ Called(t[Len(t)], a))
  BY <1>1, <1>2, PopStack
<1>4. Grown
  BY SameForms
<1>5. StackOK'
  BY <1>3, <1>4, NewStack
<1>6. MachineOK'
  BY <1>1, <1>2, SameNames
<1>7. ASSUME Running(m)'
      PROVE \E b : b = Top(m)' /\ ActOK(b) /\ Waiting(b) /\ Waiting(b)' /\ Called(b, a)
  <2>1. IsSeq(t)
    BY <1>3 DEF StackIn
  <2>2. Running(x)
    BY <1>7
  <2>3. Len(t) \in Nat /\ Len(t) > 0
    BY <2>1, <2>2, RunningIs
  <2> PICK b : b = t[Len(t)]
    OBVIOUS
  <2>4. b = Top(x)
    BY DEF Top
  <2>5. ActOK(b) /\ Waiting(b) /\ Called(b, a)
    BY <1>3, <2>3 DEF StackIn
  <2>6. Waiting(b)'
    BY <1>4, <2>5, ActGrows
  <2> QED
    BY <2>4, <2>5, <2>6
<1> QED
  BY <1>1, <1>5, <1>6, <1>7

\* The top activation leaves with anything but a result.
LEMMA LeftInv ==
  ASSUME IInv, Running(m), pending.at = None, m' = Pop(m),
         UNCHANGED <<prog, forms, tier, pending>>,
         answer'.verdict \in {"deopt", "raised"},
         answer'.verdict = "deopt" => deopt'.fn = Top(m).fn /\ deopt'.pc \in 1..Len(prog[Top(m).fn])
  PROVE  IInv'
<1> PICK a : a = Top(m)
  OBVIOUS
<1>1. MachineOK' /\ StackOK' /\ ActOK(a) /\ (Running(m)' => \E b : b = Top(m)' /\ Waiting(b)')
  BY Popped
<1>2. prog' \in Programs /\ FormsOK' /\ TierOK'
  BY SameCode
<1>3. PendingOK'
  BY DEF PendingOK, None
<1>4. Running(m)' => Waiting(Top(m))'
  BY <1>1
<1>5. answer'.verdict = "deopt" => deopt'.fn \in Fns' /\ deopt'.pc \in 1..Len(prog'[deopt'.fn])
  BY <1>1 DEF ActOK, Fns
<1>6. AnswerOK'
  BY <1>4, <1>5 DEF AnswerOK
<1> QED
  BY <1>1, <1>2, <1>3, <1>6 DEF IInv

LEMMA LeaveInv ==
  ASSUME IInv, Running(m), pending.at = None, NEW pc, NEW v, LeaveAt(pc, v),
         pc \in 1..Len(prog[Top(m).fn])
  PROVE  IInv'
<1>1. /\ m' = Pop(m) /\ UNCHANGED <<prog, forms, tier, pending>>
      /\ answer' = [verdict |-> "deopt", fn |-> Top(m).fn]
      /\ deopt' = [fn |-> Top(m).fn, pc |-> pc, acc |-> v]
  BY DEF LeaveAt, TierSame, Given
<1>2. answer'.verdict = "deopt" /\ deopt'.fn = Top(m).fn /\ deopt'.pc = pc
  BY <1>1
<1> QED
  BY <1>1, <1>2, LeftInv

LEMMA TopPc ==
  ASSUME IInv, Running(m)
  PROVE  /\ Top(m).pc \in 1..Len(prog[Top(m).fn])
         /\ OpOf(prog, Top(m))[1] = "call" => Top(m).pc + 1 \in 1..Len(prog[Top(m).fn])
<1> PICK a : a = Top(m)
  OBVIOUS
<1>1. ActOK(a)
  BY TopIs DEF IInv
<1>2. OpOf(prog, a)[1] = "call" => a.pc + 1 \in 1..Len(prog[a.fn])
  BY <1>1, NextPc DEF IInv
<1> QED
  BY <1>1, <1>2 DEF ActOK

LEMMA DeoptInv ==
  ASSUME IInv, Deopt
  PROVE  IInv'
<1>1. Running(m) /\ pending.at = None
  BY DEF Deopt, Quiet
<1>2. Top(m).pc \in 1..Len(prog[Top(m).fn])
  BY <1>1, TopPc
<1>3. \E pc, v : LeaveAt(pc, v) /\ pc = Top(m).pc
  BY DEF Deopt
<1> QED
  BY <1>1, <1>2, <1>3, LeaveInv

LEMMA InlineLeaveInv ==
  ASSUME IInv, InlineLeave
  PROVE  IInv'
<1>1. Running(m) /\ pending.at = None
  BY DEF InlineLeave, Calling, Quiet
<1>2. Top(m).pc \in 1..Len(prog[Top(m).fn])
  BY <1>1, TopPc
<1>3. \E pc, v : LeaveAt(pc, v) /\ pc = Top(m).pc
  BY DEF InlineLeave
<1> QED
  BY <1>1, <1>2, <1>3, LeaveInv

LEMMA BranchLowInv ==
  ASSUME IInv, BranchLow
  PROVE  IInv'
<1>1. Running(m) /\ pending.at = None
  BY DEF BranchLow, Calling, Quiet
<1>2. Top(m).pc \in 1..Len(prog[Top(m).fn])
  BY <1>1, TopPc
<1>3. \E pc, v : LeaveAt(pc, v) /\ pc = Top(m).pc
  BY DEF BranchLow
<1> QED
  BY <1>1, <1>2, <1>3, LeaveInv

\* Nothing is on its way in while an answer is on its way out.
LEMMA AnsweredIs ==
  ASSUME IInv, NEW verdict \in {"done", "deopt", "raised"}, Answered(verdict)
  PROVE  /\ Running(m) /\ pending.at = None /\ Waiting(Top(m)) /\ answer.verdict = verdict
<1>1. answer.verdict = verdict /\ verdict # None /\ Running(m)
  BY DEF Answered, None
<1> QED
  BY <1>1 DEF IInv, PendingOK, AnswerOK

LEMMA RedoInv ==
  ASSUME IInv, Redo
  PROVE  IInv'
<1>1. Running(m) /\ pending.at = None
  BY AnsweredIs DEF Redo
<1>2. Top(m).pc \in 1..Len(prog[Top(m).fn])
  BY <1>1, TopPc
<1>3. \E pc, v : LeaveAt(pc, v) /\ pc = Top(m).pc
  BY DEF Redo
<1> QED
  BY <1>1, <1>2, <1>3, LeaveInv

LEMMA ResultSurpriseInv ==
  ASSUME IInv, ResultSurprise
  PROVE  IInv'
<1>1. Running(m) /\ pending.at = None /\ Waiting(Top(m))
  BY AnsweredIs DEF ResultSurprise
<1>2. Top(m).pc + 1 \in 1..Len(prog[Top(m).fn])
  BY <1>1, TopPc DEF Waiting
<1>3. \E pc, v : LeaveAt(pc, v) /\ pc = Top(m).pc + 1
  BY DEF ResultSurprise
<1> QED
  BY <1>1, <1>2, <1>3, LeaveInv

LEMMA RaiseInv ==
  ASSUME IInv, Raise
  PROVE  IInv'
<1>1. /\ Running(m) /\ pending.at = None /\ m' = Pop(m)
      /\ UNCHANGED <<prog, forms, tier, pending>>
      /\ answer' = [verdict |-> "raised", fn |-> Top(m).fn]
  BY DEF Raise, Quiet, TierSame, Given
<1>2. answer'.verdict = "raised"
  BY <1>1
<1> QED
  BY <1>1, <1>2, LeftInv

LEMMA UnwindInv ==
  ASSUME IInv, Unwind
  PROVE  IInv'
<1>1. /\ Running(m) /\ pending.at = None /\ Waiting(Top(m))
      /\ UNCHANGED <<prog, forms, tier, pending>>
  BY AnsweredIs DEF Unwind, TierSame, Given
<1>2. CASE Len(m.acts) # 1
  <2>1. m' = Pop(m) /\ answer' = [verdict |-> "raised", fn |-> Top(m).fn]
    BY <1>2 DEF Unwind
  <2>2. answer'.verdict = "raised"
    BY <2>1
  <2> QED
    BY <1>1, <2>1, <2>2, LeftInv
<1>3. CASE Len(m.acts) = 1
  <2> PICK a : a = Top(m)
    OBVIOUS
  <2> PICK b : b = Stepped(a, a.acc)
    OBVIOUS
  <2>1. /\ ActOK(a) /\ ~Compiled(a) /\ a = m.acts[1] /\ MachineOK /\ FormsOK /\ prog \in Programs
    BY <1>1, <1>3, TopIs DEF IInv
  <2>2. ActOK(b) /\ b.form = a.form
    <3>1. OpOf(prog, a)[1] = "call" /\ ~Stopped(a)
      BY <1>1, <2>1 DEF Waiting, Stopped
    <3>2. OpOf(prog, a)[1] \notin {"ret", "throw"}
      BY <3>1
    <3> QED
      BY <2>1, <3>1, <3>2, StepOK
  <2> PICK t, q, w : t = <<b>> /\ q = Append(m.seen, Value("raised", 0)) /\ w = m
    OBVIOUS
  <2> PICK y : y = [w EXCEPT !.seen = q]
    OBVIOUS
  <2>3. DOMAIN y = MFields /\ y.bound = w.bound
    BY <2>1 DEF MachineOK, MFields
  <2>4. m' = [y EXCEPT !.acts = t]
    BY <1>3, <2>1 DEF Unwind, Caught
  <2>5. DOMAIN m' = MFields /\ m'.acts = t /\ m'.bound = m.bound
    BY <2>3, <2>4 DEF MFields
  <2>6. StackIn(t)
    <3>1. Len(t) = 1 /\ t[1] = b /\ t \in Seq({b})
      OBVIOUS
    <3>2. IsSeq(t)
      BY <3>1, SeqFrom
    <3>3. ~WritesNone(b) /\ b.form = 0
      BY <2>1, <2>2 DEF WritesNone, Compiled
    <3> QED
      BY <2>2, <3>1, <3>2, <3>3 DEF StackIn
  <2>7. Grown /\ prog' \in Programs /\ FormsOK' /\ TierOK'
    BY <1>1, SameCode
  <2>8. StackOK'
    BY <2>5, <2>6, <2>7, NewStack
  <2>9. MachineOK'
    BY <1>1, <2>1, <2>5, SameNames
  <2>10. answer'.verdict = None
    BY <1>3 DEF Unwind, NoAnswer
  <2>11. PendingOK' /\ AnswerOK'
    BY <1>1, <2>10 DEF PendingOK, AnswerOK, None
  <2> QED
    BY <2>7, <2>8, <2>9, <2>11 DEF IInv
<1> QED
  BY <1>2, <1>3

-----------------------------------------------------------------------------
(* Returning, and what goes on top.                                          *)

\* A call under way can take what its callee returns.
LEMMA ReturnFits ==
  ASSUME prog \in Programs, FormsOK, NEW b, ActOK(b), Waiting(b), NEW a, ActOK(a), Compiled(a), ~Stopped(a),
         Called(b, a), OpOf(prog, a)[1] \in {"ret", "down"}, Site(b).mode \in {"self", "direct"}
  PROVE  Typed(forms[b.form].kinds[b.pc + 1], Acc(a))
<1> SUFFICES ASSUME ShapesStand PROVE Takes(Shape(forms[b.form].kinds[b.pc + 1]), Acc(a).kind)
  BY DEF Typed
<1> PICK G : G = forms[a.form]
  OBVIOUS
<1>1. /\ ReturnsAs(G) /\ G.fn = a.fn /\ a.pc \in 1..Len(G.sites)
  BY AtSite
<1> PICK x : x = Acc(a)
  OBVIOUS
<1>2. Takes(Shape(G.kinds[a.pc]), x.kind)
  BY AccIs DEF Typed
<1>3. Leaves(G.fn, a.pc)
  BY <1>1 DEF Leaves, OpOf
<1>4. Compiled(b) /\ ~Stopped(b) /\ OpOf(prog, b)[1] = "call"
  BY DEF Waiting, Site, NoSite, Compiled
<1> PICK F : F = forms[b.form]
  OBVIOUS
<1> PICK s, next : s = Site(b) /\ next = F.kinds[b.pc + 1]
  OBVIOUS
<1>5. /\ CallOK(F.fn, F.param, s, F.kinds[b.pc], next, F.writes)
      /\ b.pc \in 1..Len(F.sites) /\ s = F.sites[b.pc]
  BY <1>4, AtCall
<1>6. CASE s.mode = "self"
  <2>1. a.form = b.form
    BY <1>4, <1>6 DEF Called, Compiled
  <2>2. F = G
    BY <2>1
  <2>4. StandsIn(F)
    BY <1>4, StandsIs DEF ActOK, Compiled
  <2>3. Takes(Shape(next), Shape(F.kinds[a.pc]))
    BY <1>1, <1>3, <1>5, <1>6, <2>2, <2>4 DEF ReturnsAs
  <2>5. Takes(Shape(Shape(next)), x.kind)
    BY <1>2, <2>2, <2>3, TakesTakes
  <2> QED
    BY <2>5, KindIs
<1>7. CASE s.mode = "direct"
  <2>1. a.form = s.form
    BY <1>4, <1>7 DEF Called, Compiled
  <2>2. next = s.ret /\ G.ret = s.ret /\ s.ret \in Classes \cup {"int"}
    BY <1>5, <1>7, <2>1 DEF CallOK, DirectOK
  <2>3. Shape(G.kinds[a.pc]) = G.ret
    BY <1>1, <1>3, <2>2 DEF ReturnsAs
  <2>4. Shape(next) = next
    BY <2>2, KindIs, KindNames
  <2> QED
    BY <1>2, <2>2, <2>3, <2>4
<1> QED
  BY <1>6, <1>7

LEMMA ReturnInv ==
  ASSUME IInv, Return
  PROVE  IInv'
<1> PICK a : a = Top(m)
  OBVIOUS
<1>1. /\ Running(m) /\ pending.at = None /\ m' = Pop(m) /\ ~Stopped(a)
      /\ UNCHANGED <<prog, forms, pending>>
      /\ Returns(OpOf(prog, a), a)
  BY DEF Return, Quiet, Given
<1>2. /\ MachineOK' /\ StackOK' /\ ActOK(a)
      /\ Running(m)' => \E b : /\ b = Top(m)' /\ ActOK(b) /\ Waiting(b) /\ Waiting(b)'
                               /\ Called(b, a)
  BY <1>1, Popped
<1>3. prog' \in Programs /\ FormsOK' /\ Grown
  BY <1>1, SameForms
<1>4. /\ answer'.verdict = "done"
      /\ answer'.raw => Compiled(a) /\ answer'.value = Acc(a)
  <2>1. CASE Compiled(a)
    <3>1. \E k : answer' = [verdict |-> "done", fn |-> a.fn, raw |-> TRUE, value |-> Acc(a), tag |-> k]
      BY <2>1 DEF Return
    <3> QED
      BY <2>1, <3>1
  <2>2. CASE ~Compiled(a)
    <3>1. answer' = [verdict |-> "done", fn |-> a.fn, raw |-> FALSE, value |-> a.acc, tag |-> None]
      BY <2>2 DEF Return
    <3> QED
      BY <3>1
  <2> QED
    BY <2>1, <2>2
<1>5. ASSUME Running(m)' PROVE Waiting(Top(m))' /\ Fit(Top(m))'
  <2>1. PICK b : b = Top(m)' /\ ActOK(b) /\ Waiting(b) /\ Waiting(b)' /\ Called(b, a)
    BY <1>2, <1>5
  <2>2. ASSUME answer'.raw, Site(b).mode \in {"self", "direct"}
        PROVE  Typed(forms[b.form].kinds[b.pc + 1], answer'.value)
    <3>1. Compiled(a) /\ answer'.value = Acc(a)
      BY <1>2, <1>4, <2>2
    <3>2. OpOf(prog, a)[1] \in {"ret", "down"}
      BY <1>1 DEF Returns
    <3> QED
      BY <1>1, <1>2, <2>1, <2>2, <3>1, <3>2, ReturnFits DEF IInv
  <2>3. Site(b)' = Site(b) /\ forms' = forms
    BY <1>1, <1>3, <2>1, ActGrows
  <2>4. Fit(b)'
    BY <1>3, <2>2, <2>3, StandsGrows DEF Fit, Typed
  <2> QED
    BY <2>1, <2>4
<1>6. AnswerOK'
  BY <1>4, <1>5 DEF AnswerOK
<1>7. PendingOK'
  BY <1>1 DEF PendingOK, None
<1>8. TierOK'
  <2>1. CASE tier' = tier
    BY <1>1, <2>1, SameCode
  <2>2. CASE tier' # tier
    <3> PICK f, t : f = a.fn /\ t = Observed(tier[a.fn], a.acc.kind)
      OBVIOUS
    <3>1. tier' = [tier EXCEPT ![f] = t] /\ f \in Fns
      BY <1>2, <2>2 DEF Return, ActOK
    <3>2. TierOK /\ DOMAIN tier = Fns /\ Fns' = Fns /\ forms' = forms
      BY <1>1 DEF IInv, TierOK, Fns
    <3> PICK u : u = tier[f]
      OBVIOUS
    <3>3. DOMAIN u = TierFields /\ u.form \in 0..Len(forms) /\ (u.form # 0 => Agrees(u, f))
      BY <3>1, <3>2 DEF TierOK
    <3>4. t = u \/ \E o : t = [u EXCEPT !.obs = o]
      BY DEF Observed
    <3>5. DOMAIN t = TierFields /\ t.form = u.form /\ t.param = u.param /\ t.ret = u.ret /\ t.noWrite = u.noWrite
      BY <3>3, <3>4 DEF TierFields, Untried
    <3>6. t.form \in 0..Len(forms) /\ (t.form # 0 => Agrees(t, f))
      BY <3>3, <3>5 DEF Agrees
    <3>7. DOMAIN tier' = Fns /\ tier'[f] = t /\ \A g \in Fns : g # f => tier'[g] = tier[g]
      BY <3>1, <3>2
    <3>8. ASSUME NEW g \in Fns
          PROVE  /\ DOMAIN tier'[g] = TierFields
                 /\ tier'[g].form \in 0..Len(forms)
                 /\ tier'[g].form # 0 => Agrees(tier'[g], g)
      <4>1. CASE g = f
        BY <3>5, <3>6, <3>7, <4>1
      <4>2. CASE g # f
        BY <3>2, <3>7, <4>2 DEF TierOK
      <4> QED
        BY <4>1, <4>2
    <3> QED
      BY <3>2, <3>7, <3>8 DEF TierOK, Agrees
  <2> QED
    BY <2>1, <2>2
<1> QED
  BY <1>2, <1>3, <1>6, <1>7, <1>8 DEF IInv

-----------------------------------------------------------------------------

\* An activation as it is entered.
Entered(fn, arg, form) == [Frame(fn, arg) EXCEPT !.form = form]

LEMMA FrameIs ==
  ASSUME NEW fn, NEW arg, NEW form, NEW b, b = Entered(fn, arg, form)
  PROVE  /\ DOMAIN b = ActFields /\ b.fn = fn /\ b.pc = 1 /\ b.acc = arg
         /\ b.form = form /\ ~b.wrote
<1> PICK y : y = [fn |-> fn, pc |-> 1, acc |-> arg, form |-> 0, wrote |-> FALSE]
  OBVIOUS
<1>1. DOMAIN y = ActFields /\ y.fn = fn /\ y.pc = 1 /\ y.acc = arg /\ ~y.wrote
  BY DEF ActFields
<1>2. b = [y EXCEPT !.form = form]
  BY DEF Frame, Entered
<1> QED
  BY <1>1, <1>2 DEF ActFields

\* A body starts at its first operation, compiled or not.
LEMMA FrameOK ==
  ASSUME prog \in Programs, FormsOK, NEW fn \in Fns, NEW arg, NEW form \in 0..Len(forms),
         form # 0 => forms[form].fn = fn /\ Typed(forms[form].param, arg),
         NEW b, b = Entered(fn, arg, form)
  PROVE  ActOK(b) /\ b.form = form /\ ~b.wrote
<1>1. /\ DOMAIN b = ActFields /\ b.fn = fn /\ b.pc = 1 /\ b.acc = arg
      /\ b.form = form /\ ~b.wrote
  BY FrameIs
<1>2. Len(prog[fn]) \in Nat \ {0}
  BY Bodies DEF IsBody
<1>3. b.pc \in 1..Len(prog[b.fn])
  BY <1>1, <1>2
<1>4. ASSUME form # 0
      PROVE  forms[form].fn = fn /\ 1 \in 1..Len(forms[form].kinds) /\ Typed(forms[form].kinds[1], arg)
  <2> PICK F : F = forms[form]
    OBVIOUS
  <2>1. Shaped(F) /\ F.fn = fn
    BY <1>4, SeqIs DEF FormsOK
  <2>2. F.kinds[1] = F.param /\ Len(F.kinds) \in Nat \ {0}
    BY <1>2, <2>1, SeqIs DEF Shaped
  <2> QED
    BY <1>4, <2>1, <2>2
<1> QED
  BY <1>1, <1>3, <1>4 DEF ActOK, Compiled

\* A body is entered: m' with b on top.
LEMMA Pushed ==
  ASSUME IInv, Running(m), Grown, NEW b, ActOK(b), ~b.wrote, m' = Push(m, b),
         Waiting(Top(m)), Called(Top(m), b), WritesNone(Top(m)) => WritesNone(b)
  PROVE  MachineOK' /\ StackOK'
<1> PICK w, x : w = m /\ x = m'
  OBVIOUS
<1>1. /\ IsSeq(w.acts) /\ Len(w.acts) \in Nat /\ Len(w.acts) > 0 /\ Top(m) = w.acts[Len(w.acts)]
      /\ StackIn(w.acts) /\ MachineOK /\ DOMAIN w = MFields /\ x = Push(w, b)
  BY TopIs DEF IInv, StackOK, MachineOK
<1>2. DOMAIN x = MFields /\ Extended(w.acts, b, x.acts) /\ x.bound = w.bound
  BY <1>1, PushIs
<1> PICK s, t : s = w.acts /\ t = x.acts
  OBVIOUS
<1>3. StackIn(t)
  <2>1. StackIn(s) /\ Len(s) # 0 /\ Waiting(s[Len(s)]) /\ Called(s[Len(s)], b)
        /\ (WritesNone(s[Len(s)]) => WritesNone(b)) /\ Extended(s, b, t)
    BY <1>1, <1>2
  <2> QED
    BY <2>1, PushStack
<1>4. StackOK'
  BY <1>3, NewStack
<1>5. MachineOK'
  BY <1>1, <1>2, SameNames DEF Grown
<1> QED
  BY <1>4, <1>5

\* The call on top goes on with v.
LEMMA Resumed ==
  ASSUME IInv, Running(m), NEW a, a = Top(m), UNCHANGED <<prog, forms>>, NEW v, m' = SetTop(m, Stepped(a, v)),
         ~Stopped(a), OpOf(prog, a)[1] \notin {"ret", "throw"},
         Compiled(a) => Typed(forms[a.form].kinds[a.pc + 1], v)
  PROVE  MachineOK' /\ StackOK'
<1> PICK w, x, b : w = m /\ x = m' /\ b = Stepped(a, v)
  OBVIOUS
<1>1. /\ IsSeq(w.acts) /\ Len(w.acts) \in Nat /\ Len(w.acts) > 0 /\ a = w.acts[Len(w.acts)] /\ ActOK(a)
      /\ StackIn(w.acts) /\ MachineOK /\ DOMAIN w = MFields /\ x = SetTop(w, b)
  BY TopIs DEF IInv, StackOK, MachineOK
<1>2. DOMAIN x = MFields /\ Topped(w.acts, b, x.acts) /\ x.bound = w.bound
  BY <1>1, SetTopMIs
<1>3. ActOK(b) /\ b.form = a.form /\ b.wrote = a.wrote
  BY <1>1, StepOK DEF IInv
<1> PICK s, t : s = w.acts /\ t = x.acts
  OBVIOUS
<1>4. StackIn(t)
  <2>1. StackIn(s) /\ Len(s) > 0 /\ b.form = s[Len(s)].form /\ b.wrote = s[Len(s)].wrote /\ Topped(s, b, t)
    BY <1>1, <1>2, <1>3
  <2> QED
    BY <1>3, <2>1, TopStack
<1>5. Grown
  BY SameForms
<1>6. StackOK'
  BY <1>4, <1>5, NewStack
<1>7. MachineOK'
  BY <1>1, <1>2, SameNames DEF Grown
<1> QED
  BY <1>6, <1>7

-----------------------------------------------------------------------------
(* Calls.                                                                    *)

\* The machine stands still.
LEMMA SameMachine ==
  ASSUME IInv, Grown, m' = m
  PROVE  MachineOK' /\ StackOK'
<1> PICK t : t = m.acts
  OBVIOUS
<1>1. StackIn(t) /\ t = m'.acts
  BY DEF IInv, StackOK
<1>2. StackOK'
  BY <1>1, NewStack
<1>3. DOMAIN m' = MFields /\ m'.bound = m.bound /\ prog' = prog /\ MachineOK
  BY DEF IInv, MachineOK, Grown
<1> QED
  BY <1>2, <1>3, SameNames

\* What is known at a call.
LEMMA CallingIs ==
  ASSUME IInv, NEW mode \in {"interp", "self", "inline", "direct", "desc"}, Calling(mode), NEW a, a = Top(m)
  PROVE  /\ Running(m) /\ answer.verdict = None /\ pending.at = None
         /\ OpOf(prog, a)[1] = "call" /\ ~Stopped(a) /\ Site(a).mode = mode /\ ActOK(a)
         /\ mode # "inline" => Waiting(a)
         /\ mode \in {"self", "inline", "direct", "desc"} => Compiled(a)
<1>1. /\ Running(m) /\ answer.verdict = None /\ pending.at = None
      /\ OpOf(prog, a)[1] = "call" /\ ~Stopped(a) /\ Site(a).mode = mode
  BY DEF Calling, Quiet
<1>2. ActOK(a)
  BY <1>1, TopIs DEF IInv
<1>3. mode \in {"self", "inline", "direct", "desc"} => Compiled(a)
  BY <1>1 DEF Site, NoSite
<1>4. Compiled(a) => mode \in {"self", "inline", "direct", "desc"}
  <2> PICK F : F = forms[a.form]
    OBVIOUS
  <2>1. Compiled(a) => Site(a).mode \in {"self", "inline", "direct", "desc"}
    BY <1>1, <1>2, AtCall DEF IInv
  <2> QED
    BY <1>1, <2>1
<1>5. mode # "inline" => Waiting(a)
  BY <1>1, <1>4 DEF Waiting
<1> QED
  BY <1>1, <1>2, <1>3, <1>5

\* A call names a function.
LEMMA CalleeIs ==
  ASSUME IInv, NEW a, ActOK(a), ~Stopped(a), OpOf(prog, a)[1] = "call"
  PROVE  Callee(a) \in Fns
<1>1. CASE Compiled(a)
  <2> PICK F : F = forms[a.form]
    OBVIOUS
  <2>1. CallOK(F.fn, F.param, Site(a), F.kinds[a.pc], F.kinds[a.pc + 1], F.writes)
    BY <1>1, AtCall DEF IInv
  <2> QED
    BY <1>1, <2>1 DEF Callee, CallOK
<1>2. CASE ~Compiled(a)
  <2>1. OpOf(prog, a)[2] \in DOMAIN Bound
    BY OpIs DEF IInv, IsOp
  <2> QED
    BY <1>2, <2>1 DEF Callee, IInv, MachineOK
<1> QED
  BY <1>1, <1>2

LEMMA CallOutInv ==
  ASSUME IInv, CallOut
  PROVE  IInv'
<1> PICK a : a = Top(m)
  OBVIOUS
<1>1. /\ Running(m) /\ answer.verdict = None
      /\ OpOf(prog, a)[1] = "call" /\ ~Stopped(a) /\ Site(a).mode \in {"interp", "desc"} /\ ActOK(a)
      /\ Waiting(a)
  <2>1. PICK mode \in {"interp", "desc"} : Calling(mode)
    BY DEF CallOut
  <2> QED
    BY <2>1, CallingIs
<1>2. /\ pending' = [at |-> "form", fn |-> Callee(a), arg |-> Acc(a)]
      /\ UNCHANGED <<prog, plain, m, deopt, answer, forms, tier, misses>>
  BY DEF CallOut, Elsewhere, Given
<1>3. Callee(a) \in Fns
  BY <1>1, CalleeIs
<1>4. Grown /\ prog' \in Programs /\ FormsOK' /\ TierOK'
  BY <1>2, SameCode
<1>5. MachineOK' /\ StackOK'
  BY <1>2, <1>4, SameMachine
<1>6. pending'.at = "form" /\ pending'.fn = Callee(a) /\ DOMAIN pending' = {"at", "fn", "arg"}
  BY <1>2
<1>7. PendingOK'
  <2>1. Waiting(a)' /\ Site(a)' = Site(a)
    BY <1>1, <1>4, ActGrows
  <2>2. a = Top(m)' /\ Running(m)' /\ answer'.verdict = None /\ Fns' = Fns
    BY <1>1, <1>2 DEF Fns
  <2> QED
    BY <1>1, <1>3, <1>6, <2>1, <2>2 DEF PendingOK
<1>8. AnswerOK'
  BY <1>1, <1>2 DEF AnswerOK, None
<1> QED
  BY <1>4, <1>5, <1>7, <1>8 DEF IInv

LEMMA BranchInv ==
  ASSUME IInv, Branch
  PROVE  IInv'
<1> PICK a : a = Top(m)
  OBVIOUS
<1> PICK s : s = Site(a)
  OBVIOUS
<1> PICK form : form = IF s.mode = "self" THEN a.form ELSE s.form
  OBVIOUS
<1> PICK b : b = [Frame(s.callee, Acc(a)) EXCEPT !.form = form]
  OBVIOUS
<1>1. /\ Running(m) /\ answer.verdict = None /\ pending.at = None
      /\ OpOf(prog, a)[1] = "call" /\ ~Stopped(a) /\ s.mode \in {"self", "direct"} /\ ActOK(a)
      /\ Waiting(a) /\ Compiled(a) /\ prog \in Programs /\ FormsOK
  <2>1. PICK mode \in {"self", "direct"} : Calling(mode)
    BY DEF Branch
  <2> QED
    BY <2>1, CallingIs DEF IInv
<1>2. m' = Push(m, b) /\ UNCHANGED <<prog, plain, forms, tier, pending, misses, deopt, answer>>
  BY DEF Branch, TierSame, Given
<1> PICK F : F = forms[a.form]
  OBVIOUS
<1> PICK acc : acc = Acc(a)
  OBVIOUS
<1>3. /\ CallOK(F.fn, F.param, s, F.kinds[a.pc], F.kinds[a.pc + 1], F.writes)
      /\ F.fn = a.fn /\ Typed(F.kinds[a.pc], acc)
  BY <1>1, AtCall
<1>4. s.callee \in Fns /\ form \in 1..Len(forms) /\ forms[form].fn = s.callee
  BY <1>1, <1>3, SeqIs DEF CallOK, DirectOK, ActOK, Compiled, FormsOK
<1>5. ActOK(b) /\ b.form = form /\ ~b.wrote
  <2> PICK callee : callee = s.callee
    OBVIOUS
  <2> PICK k : k = F.kinds[a.pc]
    OBVIOUS
  <2>1. Takes(forms[form].param, Shape(k)) \/ Takes(forms[form].param, Payload(k))
    BY <1>1, <1>3 DEF CallOK, DirectOK
  <2>2. Typed(forms[form].param, acc)
    BY <1>3, <2>1, TakesTakes DEF Typed
  <2>3. b = Entered(callee, acc, form)
    BY <1>3 DEF Entered
  <2>4. callee \in Fns /\ form \in 0..Len(forms) /\ forms[form].fn = callee
    BY <1>4
  <2>5. form # 0 => forms[form].fn = callee /\ Typed(forms[form].param, acc)
    BY <2>2, <2>4
  <2>6. prog \in Programs /\ FormsOK /\ callee \in Fns /\ form \in 0..Len(forms)
    BY <1>1, <2>4
  <2> QED
    BY ONLY <2>3, <2>5, <2>6, FrameOK
<1>6. Called(a, b)
  BY <1>1, <1>5 DEF Called
<1>7. WritesNone(a) => WritesNone(b)
  BY <1>1, <1>3, <1>4, <1>5 DEF WritesNone, CallOK, DirectOK, Compiled
<1>8. Grown /\ prog' \in Programs /\ FormsOK' /\ TierOK'
  BY <1>2, SameCode
<1>9. MachineOK' /\ StackOK'
  BY <1>1, <1>2, <1>5, <1>6, <1>7, <1>8, Pushed
<1>10. PendingOK' /\ AnswerOK'
  BY <1>1, <1>2 DEF PendingOK, AnswerOK, None
<1> QED
  BY <1>8, <1>9, <1>10 DEF IInv

-----------------------------------------------------------------------------
(* Answers.                                                                  *)

\* The call on top, and what the walk made of it.
LEMMA AtWaiting ==
  ASSUME prog \in Programs, FormsOK, NEW a, ActOK(a), Waiting(a), Compiled(a), NEW F, F = forms[a.form]
  PROVE  /\ CallOK(F.fn, F.param, Site(a), F.kinds[a.pc], F.kinds[a.pc + 1], F.writes)
         /\ Site(a).mode \in {"self", "direct", "desc"}
<1>1. ~Stopped(a) /\ OpOf(prog, a)[1] = "call" /\ Site(a).mode \in {"self", "direct", "desc"}
  BY DEF Waiting
<1> QED
  BY <1>1, AtCall

LEMMA FinishInv ==
  ASSUME IInv, Finish
  PROVE  IInv'
<1> PICK a, s : a = Top(m) /\ s = Site(a)
  OBVIOUS
<1> PICK fn, arg, pc : fn = deopt.fn /\ arg = deopt.acc /\ pc = deopt.pc
  OBVIOUS
<1> PICK y : y = Frame(fn, arg)
  OBVIOUS
<1> PICK b : b = [y EXCEPT !.pc = pc]
  OBVIOUS
<1>1. /\ Running(m) /\ pending.at = None /\ Waiting(a) /\ answer.verdict = "deopt"
      /\ s.mode \in {"interp", "desc"} \/ s.writes
      /\ m' = Push(m, b) /\ answer' = NoAnswer
      /\ UNCHANGED <<prog, forms, tier, pending, deopt>>
  BY AnsweredIs DEF Finish, TierSame, Given
<1>2. fn \in Fns /\ pc \in 1..Len(prog[fn]) /\ prog \in Programs /\ FormsOK
  BY <1>1 DEF IInv, AnswerOK
<1>3. DOMAIN b = ActFields /\ b.fn = fn /\ b.pc = pc /\ b.form = 0 /\ ~b.wrote
  <2>1. y = [fn |-> fn, pc |-> 1, acc |-> arg, form |-> 0, wrote |-> FALSE]
    BY DEF Frame
  <2>2. DOMAIN y = ActFields /\ y.fn = fn /\ y.form = 0 /\ ~y.wrote
    BY <2>1 DEF ActFields
  <2> QED
    BY <2>2 DEF ActFields
<1>4. ActOK(b)
  <2>1. 0 \in 0..Len(forms)
    BY <1>2, SeqIs DEF FormsOK
  <2> QED
    BY <1>2, <1>3, <2>1 DEF ActOK, Compiled
<1>5. Called(a, b)
  BY <1>3 DEF Called
<1>6. ActOK(a)
  BY <1>1, TopIs DEF IInv
<1>7. ~WritesNone(a)
  <2> SUFFICES ASSUME Compiled(a) PROVE forms[a.form].writes
    BY DEF WritesNone
  <2> PICK F : F = forms[a.form]
    OBVIOUS
  <2>1. /\ CallOK(F.fn, F.param, s, F.kinds[a.pc], F.kinds[a.pc + 1], F.writes)
        /\ s.mode \in {"self", "direct", "desc"}
    BY <1>1, <1>2, <1>6, AtWaiting
  <2> QED
    BY <1>1, <2>1 DEF CallOK
<1>8. Grown /\ prog' \in Programs /\ FormsOK' /\ TierOK'
  BY <1>1, SameCode
<1>9. MachineOK' /\ StackOK'
  BY <1>1, <1>3, <1>4, <1>5, <1>7, <1>8, Pushed
<1>10. PendingOK' /\ AnswerOK'
  BY <1>1 DEF PendingOK, AnswerOK, None, NoAnswer
<1> QED
  BY <1>8, <1>9, <1>10 DEF IInv

LEMMA InlineInv ==
  ASSUME IInv, Inline
  PROVE  IInv'
<1> PICK a, s, v, acc, cell : a = Top(m) /\ s = Site(a) /\ v = Inlined(a) /\ acc = Acc(a) /\ cell = m.cell
  OBVIOUS
<1> PICK F, g : F = forms[a.form] /\ g = s.callee
  OBVIOUS
<1>1. /\ Running(m) /\ answer.verdict = None /\ pending.at = None
      /\ OpOf(prog, a)[1] = "call" /\ ~Stopped(a) /\ s.mode = "inline" /\ ActOK(a)
      /\ Compiled(a) /\ prog \in Programs /\ FormsOK
  <2>1. Calling("inline")
    BY DEF Inline
  <2> QED
    BY <2>1, CallingIs DEF IInv
<1>2. /\ m' = SetTop(m, Stepped(a, v)) /\ ~InlineFails(a)
      /\ UNCHANGED <<prog, plain, forms, tier, pending, misses, deopt, answer>>
  BY DEF Inline, TierSame, Given
<1> PICK k, j, kind : k = F.kinds[a.pc] /\ j = F.kinds[a.pc + 1] /\ kind = s.cell
  OBVIOUS
<1>3. /\ CallOK(F.fn, F.param, s, k, j, F.writes)
      /\ Typed(k, acc)
  BY <1>1, AtCall
<1>4. g \in Fns /\ Inlinable(prog[g]) /\ j = InlineKind(prog[g], k, kind) /\ j # None
  BY <1>1, <1>3 DEF CallOK
<1>5. v = ValuesBy(cell, acc, prog[g], Len(prog[g]))[Len(prog[g])]
  BY <1>3, InlinedIs
<1>6. (\E i \in DOMAIN prog[g] : prog[g][i][1] = "load") => Takes(kind, cell.kind)
  BY <1>2 DEF InlineFails
<1>7. Typed(j, v)
  <2> SUFFICES ASSUME ShapesStand PROVE Takes(Shape(j), v.kind)
    BY DEF Typed
  <2>1. InlinedAs(g, k, kind, j, acc, cell, v)
    BY <1>3, <1>4, <1>5, <1>6 DEF InlinedAs, Typed
  <2> QED
    BY <1>1, <2>1, InlineFits
<1>8. MachineOK' /\ StackOK'
  <2>1. OpOf(prog, a)[1] \notin {"ret", "throw"}
    BY <1>1
  <2> QED
    BY <1>1, <1>2, <1>7, <2>1, Resumed
<1>9. Grown /\ prog' \in Programs /\ FormsOK' /\ TierOK'
  BY <1>2, SameCode
<1>10. PendingOK' /\ AnswerOK'
  BY <1>1, <1>2 DEF PendingOK, AnswerOK, None
<1> QED
  BY <1>8, <1>9, <1>10 DEF IInv

LEMMA ResultInv ==
  ASSUME IInv, Result
  PROVE  IInv'
<1> PICK a, s, v : a = Top(m) /\ s = Site(a) /\ v = Handed(s)
  OBVIOUS
<1>1. /\ Running(m) /\ pending.at = None /\ Waiting(a) /\ answer.verdict = "done"
      /\ ~Surprise(s) /\ m' = SetTop(m, Stepped(a, v)) /\ answer' = NoAnswer
      /\ UNCHANGED <<prog, plain, forms, tier, pending, misses, deopt>>
  BY AnsweredIs DEF Result, TierSame, Given
<1>2. ActOK(a) /\ prog \in Programs /\ FormsOK /\ Fit(a)
  BY <1>1, TopIs DEF IInv, AnswerOK
<1>3. ASSUME Compiled(a) PROVE Typed(forms[a.form].kinds[a.pc + 1], v)
  <2> PICK F : F = forms[a.form]
    OBVIOUS
  <2> PICK next, k : next = F.kinds[a.pc + 1] /\ k = F.kinds[a.pc]
    OBVIOUS
  <2>1. CallOK(F.fn, F.param, s, k, next, F.writes) /\ s.mode \in {"self", "direct", "desc"}
    BY <1>1, <1>2, <1>3, AtWaiting
  <2>2. Tagged(s) => Takes(s.ret, v.kind)
    BY <1>1 DEF Surprise
  <2>3. CASE Tagged(s)
    <3>1. next = s.ret \/ next = Taken(s.ret)
      BY <2>1 DEF CallOK
    <3>2. Takes(s.ret, v.kind) /\ Shape(s.ret) = s.ret
      BY <2>2, <2>3, TakesReal
    <3>3. Shape(next) = s.ret
      BY <3>1, <3>2, KindIs
    <3> QED
      BY <3>2, <3>3 DEF Typed
  <2>4. CASE ~Tagged(s)
    <3>1. s.mode \in {"self", "direct"} /\ answer.raw
      BY <2>1, <2>4 DEF Tagged
    <3>2. v = answer.value
      BY <3>1 DEF Handed
    <3> QED
      BY <1>2, <3>1, <3>2 DEF Fit
  <2> QED
    BY <2>3, <2>4
<1>4. MachineOK' /\ StackOK'
  <2>1. OpOf(prog, a)[1] \notin {"ret", "throw"} /\ ~Stopped(a)
    BY <1>1 DEF Waiting, Stopped
  <2> QED
    BY <1>1, <1>3, <2>1, Resumed
<1>5. Grown /\ prog' \in Programs /\ FormsOK' /\ TierOK'
  BY <1>1, SameCode
<1>6. PendingOK' /\ AnswerOK'
  BY <1>1 DEF PendingOK, AnswerOK, None, NoAnswer
<1> QED
  BY <1>4, <1>5, <1>6 DEF IInv

-----------------------------------------------------------------------------
(* The code and the tier.                                                    *)

\* What tier[f] says of the form it holds.
Same(t, u) ==
    /\ DOMAIN u = TierFields
    /\ u.form = t.form /\ u.param = t.param /\ u.ret = t.ret
    /\ u.noWrite = t.noWrite /\ u.version = t.version

\* What it says of a form just compiled.
OfNew(u, c) ==
    /\ DOMAIN u = TierFields
    /\ u.form = Len(forms) + 1 /\ u.param = c.param /\ u.ret = Merged(c.walk.rets)
    /\ u.noWrite = ~c.walk.writes /\ u.version = m.version

\* What a step does to the code there is: nothing new, or one new form, whose
\* sites were resolved in this state.
Moved ==
    \/ /\ forms' = forms
       /\ \A f \in Fns : tier'[f].version = tier[f].version /\ tier'[f].form \in {0, tier[f].form}
    \/ \E f \in Fns : \E F :
          /\ forms' = Append(forms, F)
          /\ \A i \in 1..Len(F.sites) : Fresh(F.sites[i])
          /\ tier'[f].form = Len(forms) + 1 /\ tier'[f].version = m.version
          /\ \A g \in Fns : g # f => tier'[g] = tier[g]

\* Which keeps all that is said of code.
CodeOK == Grown /\ prog' \in Programs /\ FormsOK' /\ TierOK' /\ Moved

LEMMA SameMoved ==
  ASSUME IInv, UNCHANGED <<prog, forms, tier>>
  PROVE  CodeOK
<1>1. Moved
  BY DEF Moved
<1> QED
  BY <1>1, SameCode DEF CodeOK

\* Fields of the tier that say nothing of the form.
LEMMA Sets ==
  ASSUME NEW t, DOMAIN t = TierFields, NEW x, NEW u,
         \/ u = [t EXCEPT !.blocked = x]
         \/ u = [t EXCEPT !.recompiles = x]
         \/ u = [t EXCEPT !.declines = x]
         \/ u = [t EXCEPT !.tried = x]
         \/ u = [t EXCEPT !.poly = x]
         \/ u = [t EXCEPT !.count = x]
         \/ u = [t EXCEPT !.cold = x]
         \/ u = [t EXCEPT !.attempts = x]
         \/ u = [t EXCEPT !.refused = x]
  PROVE  Same(t, u)
<1>1. CASE u = [t EXCEPT !.blocked = x]
  BY <1>1 DEF Same, TierFields, Untried
<1>2. CASE u = [t EXCEPT !.recompiles = x]
  BY <1>2 DEF Same, TierFields, Untried
<1>3. CASE u = [t EXCEPT !.declines = x]
  BY <1>3 DEF Same, TierFields, Untried
<1>4. CASE u = [t EXCEPT !.tried = x]
  BY <1>4 DEF Same, TierFields, Untried
<1>5. CASE u = [t EXCEPT !.poly = x]
  BY <1>5 DEF Same, TierFields, Untried
<1>6. CASE u = [t EXCEPT !.count = x]
  BY <1>6 DEF Same, TierFields, Untried
<1>7. CASE u = [t EXCEPT !.cold = x]
  BY <1>7 DEF Same, TierFields, Untried
<1>8. CASE u = [t EXCEPT !.attempts = x]
  BY <1>8 DEF Same, TierFields, Untried
<1>9. CASE u = [t EXCEPT !.refused = x]
  BY <1>9 DEF Same, TierFields, Untried
<1> QED
  BY <1>1, <1>2, <1>3, <1>4, <1>5, <1>6, <1>7, <1>8, <1>9

LEMMA SameSame ==
  ASSUME NEW t, NEW u, NEW v, Same(t, u), Same(u, v)
  PROVE  Same(t, v)
BY DEF Same

LEMMA SameNew ==
  ASSUME NEW t, NEW u, NEW c, OfNew(t, c), Same(t, u)
  PROVE  OfNew(u, c)
BY DEF Same, OfNew

\* A failed compile is counted.
LEMMA FailedIs ==
  ASSUME NEW t, DOMAIN t = TierFields, NEW c, NEW u, u = Failed(t, c)
  PROVE  Same(t, u)
<1> PICK n, k : n = t.cold + 1 /\ k = t.attempts + 1
  OBVIOUS
<1> PICK v, w : v = [t EXCEPT !.cold = n] /\ w = [t EXCEPT !.attempts = k]
  OBVIOUS
<1>1. Same(t, v) /\ Same(t, w)
  BY Sets
<1>2. DOMAIN v = TierFields /\ DOMAIN w = TierFields
  BY <1>1 DEF Same
<1>3. \/ u = [v EXCEPT !.count = 0]
      \/ u = [w EXCEPT !.refused = TRUE]
      \/ u = [w EXCEPT !.count = 0]
  BY DEF Failed
<1>4. Same(v, u) \/ Same(w, u)
  BY <1>2, <1>3, Sets
<1> QED
  BY <1>1, <1>4, SameSame

LEMMA StaticIs ==
  ASSUME IInv
  PROVE  Static
BY DEF IInv, Static, FormsOK, Shaped

\* One function's fields are set.
LEMMA TierSet ==
  ASSUME IInv, NEW f \in Fns, NEW u, tier' = [tier EXCEPT ![f] = u],
         DOMAIN u = TierFields, u.form \in {0, tier[f].form},
         u.version = tier[f].version,
         u.form # 0 => Same(tier[f], u), UNCHANGED <<prog, forms>>
  PROVE  CodeOK
<1>1. Grown /\ prog' \in Programs /\ FormsOK'
  BY SameForms
<1>2. TierOK /\ DOMAIN tier = Fns /\ Fns' = Fns /\ forms' = forms
  BY DEF IInv, TierOK, Fns
<1> PICK t : t = tier[f]
  OBVIOUS
<1>3. DOMAIN t = TierFields /\ t.form \in 0..Len(forms) /\ (t.form # 0 => Agrees(t, f))
  BY <1>2 DEF TierOK
<1>4. u.form \in 0..Len(forms) /\ (u.form # 0 => Agrees(u, f))
  <2>1. CASE u.form = 0
    BY <1>1, <2>1, SeqIs DEF Grown
  <2>2. CASE u.form # 0
    BY <1>3, <2>2 DEF Same, Agrees
  <2> QED
    BY <2>1, <2>2
<1>5. DOMAIN tier' = Fns /\ tier'[f] = u /\ \A g \in Fns : g # f => tier'[g] = tier[g]
  BY <1>2
<1>6. ASSUME NEW g \in Fns
      PROVE  /\ DOMAIN tier'[g] = TierFields
             /\ tier'[g].form \in 0..Len(forms)
             /\ tier'[g].form # 0 => Agrees(tier'[g], g)
  <2>1. CASE g = f
    BY <1>4, <1>5, <2>1
  <2>2. CASE g # f
    BY <1>2, <1>5, <2>2 DEF TierOK
  <2> QED
    BY <2>1, <2>2
<1>7. TierOK'
  BY <1>2, <1>5, <1>6 DEF TierOK, Agrees
<1>8. \A g \in Fns : tier'[g].version = tier[g].version /\ tier'[g].form \in {0, tier[g].form}
  BY <1>5
<1>9. Moved
  BY <1>2, <1>8 DEF Moved
<1> QED
  BY <1>1, <1>7, <1>9 DEF CodeOK

\* A compile that comes to something adds its form and installs it.
LEMMA KeepOK ==
  ASSUME IInv, NEW f \in Fns, NEW param, NEW c \in Compile(f, param), NEW u, Keep(f, u, c), prog' = prog,
         c.ok => OfNew(u, c), ~c.ok => Same(tier[f], u)
  PROVE  CodeOK
<1>1. tier' = [tier EXCEPT ![f] = u] /\ forms' = IF c.ok THEN Append(forms, Form(f, c)) ELSE forms
  BY DEF Keep
<1>2. CASE ~c.ok
  <2>1. DOMAIN u = TierFields /\ u.form = tier[f].form /\ u.version = tier[f].version
    BY <1>2 DEF Same
  <2> QED
    BY <1>1, <1>2, <2>1, TierSet
<1>3. CASE c.ok
  <2> PICK F : F = Form(f, c)
    OBVIOUS
  <2> PICK s, t, n : s = forms /\ t = forms' /\ n = Len(forms)
    OBVIOUS
  <2>1. Static /\ IsSeq(s) /\ n \in Nat
    BY StaticIs, SeqIs DEF Static
  <2>2. /\ Shaped(F) /\ Spoken(F) /\ ReturnsAs(F)
        /\ F.fn = f /\ F.param = c.param /\ F.ret = Merged(c.walk.rets) /\ F.writes = c.walk.writes
    BY <1>3, <2>1, CompiledIs
  <2>3. IsSeq(t) /\ Len(t) = n + 1 /\ t[n + 1] = F /\ \A i \in 1..n : t[i] = s[i]
    <3>1. Extended(s, F, t)
      BY <1>1, <1>3, <2>1, AppendIs
    <3> QED
      BY <3>1 DEF Extended
  <2>4. Grown
    BY <2>1, <2>3 DEF Grown
  <2>5. FormsOK'
    <3>1. forms' = Append(forms, F) /\ FormsOK
      BY <1>1, <1>3 DEF IInv
    <3> QED
      BY <2>2, <2>4, <3>1, FormsLonger
  <2>6. TierOK /\ DOMAIN tier = Fns /\ Fns' = Fns
    BY DEF IInv, TierOK, Fns
  <2>7. DOMAIN tier' = Fns /\ tier'[f] = u /\ \A g \in Fns : g # f => tier'[g] = tier[g]
    BY <1>1, <2>6
  <2>8. ASSUME NEW g \in Fns
        PROVE  /\ DOMAIN tier'[g] = TierFields
               /\ tier'[g].form \in 0..n + 1
               /\ tier'[g].form # 0 => Agrees(tier[g], g)'
    <3> PICK x : x = tier'[g]
      OBVIOUS
    <3>1. CASE g = f
      <4>1. x = u /\ OfNew(u, c)
        BY <1>3, <2>7, <3>1
      <4>2. DOMAIN x = TierFields /\ x.form = n + 1
        BY <4>1 DEF OfNew
      <4>3. F.writes = ~x.noWrite
        <5>1. F.writes \in BOOLEAN
          BY <2>2 DEF Shaped
        <5> QED
          BY <2>2, <4>1, <5>1 DEF OfNew
      <4>4. F.fn = g /\ F.param = x.param /\ F.ret = x.ret /\ t[x.form] = F
        BY <2>2, <2>3, <3>1, <4>1, <4>2 DEF OfNew
      <4>5. Agrees(x, g)'
        BY <4>3, <4>4 DEF Agrees
      <4> QED
        BY <2>1, <4>2, <4>5
    <3>2. CASE g # f
      <4>1. x = tier[g]
        BY <2>7, <3>2
      <4>2. DOMAIN x = TierFields /\ x.form \in 0..n /\ (x.form # 0 => Agrees(x, g))
        BY <2>6, <4>1 DEF TierOK
      <4>3. x.form # 0 => t[x.form] = s[x.form]
        BY <2>1, <2>3, <4>2
      <4>4. x.form # 0 => Agrees(x, g)'
        BY <4>2, <4>3 DEF Agrees
      <4> QED
        BY <2>1, <4>2, <4>4
    <3> QED
      BY <3>1, <3>2
  <2>9. TierOK'
    BY <2>3, <2>6, <2>7, <2>8 DEF TierOK
  <2>10. Moved
    <3>1. \A i \in 1..Len(F.sites) : Fresh(F.sites[i])
      BY <1>3, <2>1, CompiledIs
    <3>2. u.form = Len(forms) + 1 /\ u.version = m.version
      BY <1>3 DEF OfNew
    <3>3. forms' = Append(forms, F)
      BY <1>1, <1>3
    <3> QED
      BY <2>7, <3>1, <3>2, <3>3 DEF Moved
  <2> QED
    BY <2>4, <2>5, <2>9, <2>10 DEF IInv, CodeOK
<1> QED
  BY <1>2, <1>3

-----------------------------------------------------------------------------
\* A call on its way in moves on to another stage.
LEMMA StageInv ==
  ASSUME IInv, pending.at # None, CodeOK,
         UNCHANGED <<m, deopt, answer>>,
         pending' = pending \/ \E stage \in {"count", "tier", "again"} : pending' = [pending EXCEPT !.at = stage]
  PROVE  IInv'
<1> PICK a : a = Top(m)
  OBVIOUS
<1>0. Grown /\ prog' \in Programs /\ FormsOK' /\ TierOK'
  BY DEF CodeOK
<1>1. /\ DOMAIN pending = {"at", "fn", "arg"} /\ pending.fn \in Fns
      /\ answer.verdict = None /\ Running(m) /\ Waiting(a)
      /\ Site(a).mode \in {"interp", "desc"} /\ pending.at \in {None, "form", "count", "tier", "again"}
  BY DEF IInv, PendingOK
<1>2. ActOK(a)
  BY <1>1, TopIs DEF IInv
<1>3. MachineOK' /\ StackOK'
  BY <1>0, SameMachine
<1>4. /\ DOMAIN pending' = {"at", "fn", "arg"} /\ pending'.fn = pending.fn
      /\ pending'.at \in {"form", "count", "tier", "again"}
  <2>1. CASE pending' = pending
    BY <1>1, <2>1
  <2>2. CASE pending' # pending
    <3>1. PICK stage \in {"count", "tier", "again"} : pending' = [pending EXCEPT !.at = stage]
      BY <2>2
    <3> QED
      BY <1>1, <3>1
  <2> QED
    BY <2>1, <2>2
<1>5. PendingOK'
  <2>1. Waiting(a)' /\ Site(a)' = Site(a)
    BY <1>0, <1>1, <1>2, ActGrows
  <2>2. a = Top(m)' /\ Running(m)' /\ answer'.verdict = None /\ Fns' = Fns
    BY <1>0, <1>1 DEF Fns, Grown
  <2> QED
    BY <1>1, <1>4, <2>1, <2>2 DEF PendingOK
<1>6. AnswerOK'
  BY <1>1 DEF AnswerOK, None
<1> QED
  BY <1>0, <1>3, <1>5, <1>6 DEF IInv

\* The body starts, compiled or interpreted.
LEMMA RunInv ==
  ASSUME IInv, pending.at # None, CodeOK,
         NEW form \in 0..Len(forms), Run(form),
         form # 0 => forms[form].fn = pending.fn /\ Typed(forms[form].param, pending.arg)
  PROVE  IInv'
<1> PICK a, fn, arg : a = Top(m) /\ fn = pending.fn /\ arg = pending.arg
  OBVIOUS
<1> PICK b : b = Entered(fn, arg, form)
  OBVIOUS
<1>0. Grown /\ prog' \in Programs /\ FormsOK' /\ TierOK'
  BY DEF CodeOK
<1>1. /\ fn \in Fns /\ answer.verdict = None /\ Running(m) /\ Waiting(a)
      /\ Site(a).mode \in {"interp", "desc"}
  BY DEF IInv, PendingOK
<1>2. m' = Push(m, b) /\ pending' = NoCall /\ UNCHANGED <<prog, plain, deopt, answer>>
  BY DEF Run, Entered, Given
<1>3. ActOK(a) /\ prog \in Programs /\ FormsOK
  BY <1>1, TopIs DEF IInv
<1>4. ActOK(b) /\ b.form = form /\ ~b.wrote
  BY <1>1, <1>3, FrameOK
<1>5. Called(a, b)
  BY <1>1 DEF Called
<1>6. ~WritesNone(a)
  <2> SUFFICES ASSUME Compiled(a) PROVE forms[a.form].writes
    BY DEF WritesNone
  <2> PICK F : F = forms[a.form]
    OBVIOUS
  <2>1. /\ CallOK(F.fn, F.param, Site(a), F.kinds[a.pc], F.kinds[a.pc + 1], F.writes)
        /\ Site(a).mode \in {"self", "direct", "desc"}
    BY <1>1, <1>3, AtWaiting
  <2> QED
    BY <1>1, <2>1 DEF CallOK
<1>7. MachineOK' /\ StackOK'
  BY <1>0, <1>1, <1>2, <1>4, <1>5, <1>6, Pushed
<1>8. pending'.at = None
  BY <1>2 DEF NoCall
<1>9. PendingOK' /\ AnswerOK'
  BY <1>1, <1>2, <1>8 DEF PendingOK, AnswerOK, None
<1> QED
  BY <1>0, <1>7, <1>9 DEF IInv

-----------------------------------------------------------------------------
(* Entry.                                                                    *)

\* What is known of a call on its way in.
LEMMA AtIs ==
  ASSUME IInv, NEW stages \in SUBSET {"form", "count", "tier", "again"}, At(stages)
  PROVE  /\ pending.at # None /\ pending.at \in stages
         /\ pending.fn \in Fns /\ T = tier[pending.fn] /\ DOMAIN T = TierFields
         /\ T.form \in 0..Len(forms)
<1>1. pending.at \in stages /\ pending.at # None
  BY DEF At, None
<1> QED
  BY <1>1 DEF IInv, PendingOK, TierOK, T

\* What each action of the entry does to the code.
LEMMA NoFormCode ==
  ASSUME IInv, NoForm
  PROVE  CodeOK
BY SameMoved DEF NoForm, Elsewhere, Given

LEMMA EnterAgainCode ==
  ASSUME IInv, EnterAgain
  PROVE  CodeOK
BY SameMoved DEF EnterAgain, Elsewhere, Given

LEMMA EnterCode ==
  ASSUME IInv, Enter
  PROVE  CodeOK
BY SameMoved DEF Enter, Run, Given

LEMMA RetiredCode ==
  ASSUME IInv, Retired
  PROVE  CodeOK
<1> PICK t, u, f : t = T /\ u = [t EXCEPT !.blocked = None] /\ f = pending.fn
  OBVIOUS
<1>1. /\ pending.at # None /\ f \in Fns /\ t = tier[f] /\ DOMAIN t = TierFields
  BY AtIs DEF Retired
<1>2. tier' = [tier EXCEPT ![f] = u] /\ Decline /\ UNCHANGED <<prog, forms>>
  BY DEF Retired, Set, Decline, Elsewhere, Run, Given
<1>3. Same(t, u)
  BY <1>1, Sets
<1>4. CodeOK
  <2>1. DOMAIN u = TierFields /\ u.form \in {0, tier[f].form} /\ u.version = tier[f].version /\ Same(tier[f], u)
    BY <1>1, <1>3 DEF Same
  <2> QED
    BY <1>1, <1>2, <2>1, TierSet
<1> QED
  BY <1>4

LEMMA RefuseCode ==
  ASSUME IInv, Refuse
  PROVE  CodeOK
<1> PICK t, u, f : t = T /\ u = [t EXCEPT !.refused = TRUE, !.form = 0, !.blocked = None] /\ f = pending.fn
  OBVIOUS
<1>1. /\ pending.at # None /\ f \in Fns /\ t = tier[f] /\ DOMAIN t = TierFields
  BY AtIs DEF Refuse, Ready
<1>2. tier' = [tier EXCEPT ![f] = u] /\ Decline /\ UNCHANGED <<prog, forms>>
  BY DEF Refuse, Set, Decline, Elsewhere, Run, Given
<1>3. DOMAIN u = TierFields /\ u.form = 0 /\ u.version = tier[f].version
  BY <1>1 DEF TierFields, Untried
<1>4. CodeOK
  BY <1>1, <1>2, <1>3, TierSet
<1> QED
  BY <1>4

LEMMA CountCode ==
  ASSUME IInv, Count
  PROVE  CodeOK
<1> PICK t, f : t = T /\ f = pending.fn
  OBVIOUS
<1>1. /\ pending.at # None /\ f \in Fns /\ t = tier[f] /\ DOMAIN t = TierFields
  BY AtIs DEF Count
<1>2. UNCHANGED <<prog, forms>>
  BY DEF Count, Run, Elsewhere, Given
<1>3. CodeOK
  <2>1. CASE t.count < Threshold
    <3> PICK n : n = t.count + 1
      OBVIOUS
    <3> PICK u : u = [t EXCEPT !.count = n]
      OBVIOUS
    <3>1. tier' = [tier EXCEPT ![f] = u]
      BY <2>1 DEF Count, Set
    <3>2. Same(t, u)
      BY <1>1, Sets
    <3>3. DOMAIN u = TierFields /\ u.form \in {0, tier[f].form} /\ u.version = tier[f].version /\ Same(tier[f], u)
      BY <1>1, <3>2 DEF Same
    <3> QED
      BY <1>1, <1>2, <3>1, <3>3, TierSet
  <2>2. CASE ~(t.count < Threshold)
    <3>1. tier' = tier
      BY <2>2 DEF Count
    <3> QED
      BY <1>2, <3>1, SameMoved
  <2> QED
    BY <2>1, <2>2
<1> QED
  BY <1>3

LEMMA CompileFirstCode ==
  ASSUME IInv, CompileFirst
  PROVE  CodeOK
<1> PICK t, f : t = T /\ f = pending.fn
  OBVIOUS
<1>1. /\ pending.at # None /\ f \in Fns /\ t = tier[f] /\ DOMAIN t = TierFields
  BY AtIs DEF CompileFirst
<1> PICK param : param = Param(pending.arg, t.poly)
  OBVIOUS
<1>2. PICK c \in Compile(f, param) :
          /\ Keep(f, IF c.ok THEN Installed(t, f, c) ELSE Failed(t, c), c)
          /\ IF c.ok THEN To("again") /\ Elsewhere ELSE Run(0)
  BY DEF CompileFirst
<1> PICK u : u = IF c.ok THEN Installed(t, f, c) ELSE Failed(t, c)
  OBVIOUS
<1>3. prog' = prog
  BY <1>2 DEF Run, Elsewhere, Given
<1>4. c.ok => OfNew(u, c)
  BY <1>1, InstalledIs DEF OfNew
<1>5. ~c.ok => Same(tier[f], u)
  <2> SUFFICES ASSUME ~c.ok PROVE Same(t, u)
    BY <1>1
  <2>1. u = Failed(t, c)
    OBVIOUS
  <2> QED
    BY <1>1, <2>1, FailedIs
<1>6. CodeOK
  BY <1>1, <1>2, <1>3, <1>4, <1>5, KeepOK
<1> QED
  BY <1>6

LEMMA RecompileBlockedCode ==
  ASSUME IInv, RecompileBlocked
  PROVE  CodeOK
<1> PICK t0, f, n : t0 = T /\ f = pending.fn /\ n = t0.recompiles + 1
  OBVIOUS
<1>1. /\ pending.at # None /\ f \in Fns /\ t0 = tier[f] /\ DOMAIN t0 = TierFields
  BY AtIs DEF RecompileBlocked
<1> PICK param, t : param = Param(pending.arg, t0.poly) /\ t = [t0 EXCEPT !.recompiles = n]
  OBVIOUS
<1>2. PICK c \in Compile(f, param) :
          Keep(f, IF ~c.ok THEN [t EXCEPT !.blocked = None]
                  ELSE IF Installed(t, f, c).blocked = t0.blocked \/ n >= MaxRecompiles
                      THEN [Installed(t, f, c) EXCEPT !.blocked = None]
                  ELSE Installed(t, f, c), c)
  BY DEF RecompileBlocked
<1> PICK new : new = Installed(t, f, c)
  OBVIOUS
<1>3. UNCHANGED <<prog, pending, m, deopt, answer>>
  BY DEF RecompileBlocked, Elsewhere, Given
<1>4. Same(t0, t) /\ DOMAIN t = TierFields
  BY <1>1, Sets DEF Same
<1>5. OfNew(new, c) /\ DOMAIN new = TierFields
  BY <1>4, InstalledIs DEF OfNew
<1> PICK x, y : x = [t EXCEPT !.blocked = None] /\ y = [new EXCEPT !.blocked = None]
  OBVIOUS
<1>6. Same(t0, x) /\ OfNew(y, c)
  <2>1. Same(t, x) /\ Same(new, y)
    BY <1>4, <1>5, Sets
  <2> QED
    BY <1>4, <1>5, <2>1, SameSame, SameNew
<1>7. PICK u : Keep(f, u, c) /\ (c.ok => u \in {y, new}) /\ (~c.ok => u = x)
  BY <1>2
<1>8. (c.ok => OfNew(u, c)) /\ (~c.ok => Same(tier[f], u))
  BY <1>1, <1>5, <1>6, <1>7
<1>9. CodeOK
  BY <1>1, <1>3, <1>7, <1>8, KeepOK
<1> QED
  BY <1>9

LEMMA WrongArgumentCode ==
  ASSUME IInv, WrongArgument
  PROVE  CodeOK
<1> PICK t0, f, n : t0 = T /\ f = pending.fn /\ n = t0.declines + 1
  OBVIOUS
<1>1. /\ pending.at # None /\ f \in Fns /\ t0 = tier[f] /\ DOMAIN t0 = TierFields
  BY AtIs DEF WrongArgument, Ready
<1> PICK d : d = [t0 EXCEPT !.declines = n]
  OBVIOUS
<1> PICK t : t = [d EXCEPT !.tried = TRUE]
  OBVIOUS
<1> PICK p : p = [t EXCEPT !.poly = TRUE]
  OBVIOUS
<1>2. Same(t0, d) /\ Same(t0, t) /\ DOMAIN p = TierFields
  <2>1. Same(t0, d) /\ DOMAIN d = TierFields
    BY <1>1, Sets DEF Same
  <2>2. Same(d, t) /\ DOMAIN t = TierFields
    BY <2>1, Sets DEF Same
  <2>3. Same(t, p)
    BY <2>2, Sets
  <2> QED
    BY <2>1, <2>2, <2>3, SameSame DEF Same
<1>3. Decline /\ prog' = prog
  BY DEF WrongArgument, Decline, Run, Elsewhere, Given
<1>4. \/ UNCHANGED <<tier, forms>>
      \/ tier' = [tier EXCEPT ![f] = d] /\ forms' = forms
      \/ \E c \in Compile(f, "inst") : Keep(f, IF c.ok THEN Installed(p, f, c) ELSE t, c)
  BY DEF WrongArgument, Set
<1>5. CodeOK
  <2>1. CASE UNCHANGED <<tier, forms>>
    BY <1>3, <2>1, SameMoved
  <2>2. CASE tier' = [tier EXCEPT ![f] = d] /\ forms' = forms
    <3>1. DOMAIN d = TierFields /\ d.form \in {0, tier[f].form} /\ d.version = tier[f].version /\ Same(tier[f], d)
      BY <1>1, <1>2 DEF Same
    <3> QED
      BY <1>1, <1>3, <2>2, <3>1, TierSet
  <2>3. CASE \E c \in Compile(f, "inst") : Keep(f, IF c.ok THEN Installed(p, f, c) ELSE t, c)
    <3>1. PICK c \in Compile(f, "inst") : Keep(f, IF c.ok THEN Installed(p, f, c) ELSE t, c)
      BY <2>3
    <3> PICK u : u = IF c.ok THEN Installed(p, f, c) ELSE t
      OBVIOUS
    <3>2. ASSUME c.ok PROVE OfNew(u, c)
      <4>1. u = Installed(p, f, c)
        BY <3>2
      <4>2. DOMAIN p = TierFields
        BY <1>2
      <4> QED
        BY ONLY <4>1, <4>2, InstalledIs DEF OfNew
    <3>3. ~c.ok => Same(tier[f], u)
      BY <1>1, <1>2
    <3> QED
      BY <1>1, <1>3, <3>1, <3>2, <3>3, KeepOK
  <2> QED
    BY <1>4, <2>1, <2>2, <2>3
<1> QED
  BY <1>5

-----------------------------------------------------------------------------
\* What an action of the entry does: the call moves on to another stage, or its
\* body starts, interpreted or in the current form.
OnItsWay ==
    /\ pending.at # None /\ CodeOK
    /\ \/ /\ UNCHANGED <<m, deopt, answer>>
          /\ \/ pending' = pending
             \/ \E stage \in {"count", "tier", "again"} : pending' = [pending EXCEPT !.at = stage]
       \/ Run(0)
       \/ /\ Run(T.form)
          /\ T.form # 0 /\ T.version = m.version /\ Takes(T.param, pending.arg.kind)

LEMMA DeclineIs ==
  ASSUME pending.at # None, CodeOK, Decline
  PROVE  OnItsWay
BY DEF Decline, To, Elsewhere, OnItsWay

LEMMA EntryIs ==
  ASSUME IInv,
         \/ NoForm \/ Retired \/ RecompileBlocked \/ WrongArgument \/ Refuse
         \/ Enter \/ Count \/ EnterAgain \/ CompileFirst
  PROVE  OnItsWay
<1>1. CASE NoForm
  <2>1. pending.at # None /\ CodeOK
    BY <1>1, AtIs, NoFormCode DEF NoForm
  <2> QED
    BY <1>1, <2>1 DEF NoForm, To, Elsewhere, OnItsWay
<1>2. CASE Retired
  <2>1. pending.at # None /\ CodeOK /\ Decline
    BY <1>2, AtIs, RetiredCode DEF Retired
  <2> QED
    BY <2>1, DeclineIs
<1>3. CASE RecompileBlocked
  <2>1. pending.at # None /\ CodeOK
    BY <1>3, AtIs, RecompileBlockedCode DEF RecompileBlocked
  <2>2. UNCHANGED <<m, deopt, answer, pending>>
    BY <1>3 DEF RecompileBlocked, Elsewhere
  <2> QED
    BY <2>1, <2>2 DEF OnItsWay
<1>4. CASE WrongArgument
  <2>1. pending.at # None /\ CodeOK /\ Decline
    BY <1>4, AtIs, WrongArgumentCode DEF WrongArgument, Ready
  <2> QED
    BY <2>1, DeclineIs
<1>5. CASE Refuse
  <2>1. pending.at # None /\ CodeOK /\ Decline
    BY <1>5, AtIs, RefuseCode DEF Refuse, Ready
  <2> QED
    BY <2>1, DeclineIs
<1>6. CASE Enter
  <2>1. pending.at # None /\ CodeOK
    BY <1>6, AtIs, EnterCode DEF Enter, Ready
  <2> QED
    BY <1>6, <2>1 DEF Enter, Ready, Valid, OnItsWay
<1>7. CASE Count
  <2>1. pending.at # None /\ CodeOK
    BY <1>7, AtIs, CountCode DEF Count
  <2> QED
    BY <1>7, <2>1 DEF Count, To, Elsewhere, OnItsWay
<1>8. CASE EnterAgain
  <2>1. pending.at # None /\ CodeOK
    BY <1>8, AtIs, EnterAgainCode DEF EnterAgain
  <2> QED
    BY <1>8, <2>1 DEF EnterAgain, To, Elsewhere, OnItsWay
<1>9. CASE CompileFirst
  <2>1. pending.at # None /\ CodeOK
    BY <1>9, AtIs, CompileFirstCode DEF CompileFirst
  <2> QED
    BY <1>9, <2>1 DEF CompileFirst, To, Elsewhere, OnItsWay
<1> QED
  BY <1>1, <1>2, <1>3, <1>4, <1>5, <1>6, <1>7, <1>8, <1>9

LEMMA EntryInv ==
  ASSUME IInv,
         \/ NoForm \/ Retired \/ RecompileBlocked \/ WrongArgument \/ Refuse
         \/ Enter \/ Count \/ EnterAgain \/ CompileFirst
  PROVE  IInv'
<1>1. OnItsWay
  BY EntryIs
<1>2. pending.at # None /\ CodeOK
  BY <1>1 DEF OnItsWay
<1>3. CASE Run(0)
  <2>1. 0 \in 0..Len(forms)
    BY <1>2, SeqIs DEF Grown, CodeOK
  <2> QED
    BY <1>2, <1>3, <2>1, RunInv
<1>4. CASE /\ Run(T.form)
           /\ T.form # 0 /\ T.version = m.version /\ Takes(T.param, pending.arg.kind)
  <2> PICK t, form : t = T /\ form = t.form
    OBVIOUS
  <2>1. t = tier[pending.fn] /\ pending.fn \in Fns
    BY <1>2 DEF IInv, PendingOK, T
  <2>2. form \in 0..Len(forms) /\ forms[form].fn = pending.fn /\ forms[form].param = t.param
    BY <1>4, <2>1 DEF IInv, TierOK, Agrees
  <2>3. Run(form) /\ Typed(t.param, pending.arg)
    BY <1>4, TakesReal DEF Typed
  <2> QED
    BY <1>2, <2>2, <2>3, RunInv
<1>5. CASE /\ UNCHANGED <<m, deopt, answer>>
           /\ \/ pending' = pending
              \/ \E stage \in {"count", "tier", "again"} : pending' = [pending EXCEPT !.at = stage]
  BY <1>2, <1>5, StageInv
<1> QED
  BY <1>1, <1>3, <1>4, <1>5 DEF OnItsWay

\* The initial states.
LEMMA Starts ==
  ASSUME Init
  PROVE  IInv
<1> PICK arg : arg = Start.acc
  OBVIOUS
<1> PICK b, t : b = Frame("main", arg) /\ t = <<b>>
  OBVIOUS
<1>1. prog \in Programs /\ forms = <<>> /\ pending.at = None /\ answer.verdict = None
  BY DEF Init, NoCall, NoAnswer
<1>2. IsSeq(forms) /\ Len(forms) = 0
  <2>1. <<>> \in Seq({}) /\ Len(<<>>) = 0
    OBVIOUS
  <2> QED
    BY <1>1, <2>1, SeqFrom
<1>3. DOMAIN m = MFields /\ m.acts = t /\ m.bound = Bound
  BY DEF Init, Started, MFields
<1>4. MachineOK
  BY <1>1, <1>3, Bodies DEF MachineOK
<1>5. DOMAIN b = ActFields /\ b.fn = "main" /\ b.pc = 1 /\ b.form = 0 /\ ~b.wrote
  BY DEF Frame, ActFields
<1>6. ActOK(b)
  <2>1. "main" \in Fns /\ IsBody(prog, prog["main"])
    BY <1>1, Bodies
  <2> QED
    BY <1>2, <1>5, <2>1 DEF ActOK, Compiled, IsBody
<1>7. StackIn(t)
  <2>1. Len(t) = 1 /\ t[1] = b /\ t \in Seq({b})
    OBVIOUS
  <2>2. IsSeq(t)
    BY <2>1, SeqFrom
  <2>3. ~WritesNone(b)
    BY <1>5 DEF WritesNone, Compiled
  <2> QED
    BY <1>5, <1>6, <2>1, <2>2, <2>3 DEF StackIn
<1>8. FormsOK
  BY <1>2 DEF FormsOK
<1>9. TierOK
  <2>1. tier = [f \in Fns |-> Untried]
    BY DEF Init
  <2>2. DOMAIN Untried = TierFields /\ Untried.form = 0
    BY DEF TierFields, Untried
  <2> QED
    BY <1>2, <2>1, <2>2 DEF TierOK
<1>10. PendingOK /\ AnswerOK
  BY <1>1 DEF PendingOK, AnswerOK, None
<1> QED
  BY <1>1, <1>3, <1>4, <1>7, <1>8, <1>9, <1>10 DEF IInv, StackOK

LEMMA Stutters ==
  ASSUME IInv, UNCHANGED vars
  PROVE  IInv'
<1>1. UNCHANGED <<prog, forms, tier, m, pending, answer, deopt>>
  BY DEF vars
<1>2. CodeOK
  BY <1>1, SameMoved
<1>3. CASE pending.at # None
  BY <1>1, <1>2, <1>3, StageInv
<1>4. CASE pending.at = None
  <2>1. MachineOK' /\ StackOK'
    BY <1>1, <1>2, SameMachine DEF CodeOK
  <2>2. PendingOK'
    BY <1>1, <1>4 DEF PendingOK, None
  <2>3. ASSUME Running(m), NEW a, a = Top(m)
        PROVE  /\ Waiting(a) => Waiting(a)'
               /\ Fit(a) => Fit(a)'
    <3>1. ActOK(a)
      BY <2>3, TopIs DEF IInv
    <3>2. (Waiting(a) => Waiting(a)') /\ Site(a)' = Site(a)
      BY <1>2, <3>1, ActGrows DEF CodeOK
    <3>3. ShapesStand' => ShapesStand
      BY <1>2, StandsGrows DEF CodeOK
    <3> QED
      BY <1>1, <3>2, <3>3 DEF Fit, Typed
  <2>4. AnswerOK /\ Fns' = Fns
    BY <1>1 DEF IInv, Fns
  <2>5. Running(m)' = Running(m) /\ Top(m)' = Top(m)
    BY <1>1
  <2>6. answer.verdict # None /\ Running(m) => Waiting(Top(m))'
    BY <2>3, <2>4, <2>5 DEF AnswerOK
  <2>7. answer.verdict = "done" /\ Running(m) => Fit(Top(m))'
    BY <2>3, <2>4, <2>5 DEF AnswerOK
  <2>8. AnswerOK'
    BY <1>1, <2>4, <2>5, <2>6, <2>7 DEF AnswerOK
  <2> QED
    BY <1>2, <2>1, <2>2, <2>8 DEF IInv, CodeOK
<1> QED
  BY <1>3, <1>4

\* Every step.
LEMMA Steps ==
  ASSUME IInv, [Next \/ Done]_vars
  PROVE  IInv'
<1>1. CASE Step
  BY <1>1, StepInv
<1>2. CASE Deopt
  BY <1>2, DeoptInv
<1>3. CASE Return
  BY <1>3, ReturnInv
<1>4. CASE Raise
  BY <1>4, RaiseInv
<1>5. CASE CallOut
  BY <1>5, CallOutInv
<1>6. CASE Branch
  BY <1>6, BranchInv
<1>7. CASE BranchLow
  BY <1>7, BranchLowInv
<1>8. CASE Inline
  BY <1>8, InlineInv
<1>9. CASE InlineLeave
  BY <1>9, InlineLeaveInv
<1>10. CASE \/ NoForm \/ Retired \/ RecompileBlocked \/ WrongArgument \/ Refuse
            \/ Enter \/ Count \/ EnterAgain \/ CompileFirst
  BY <1>10, EntryInv
<1>11. CASE Result
  BY <1>11, ResultInv
<1>12. CASE ResultSurprise
  BY <1>12, ResultSurpriseInv
<1>13. CASE Finish
  BY <1>13, FinishInv
<1>14. CASE Redo
  BY <1>14, RedoInv
<1>15. CASE Unwind
  BY <1>15, UnwindInv
<1>16. CASE UNCHANGED vars
  BY <1>16, Stutters
<1> QED
  BY <1>1, <1>2, <1>3, <1>4, <1>5, <1>6, <1>7, <1>8, <1>9, <1>10, <1>11, <1>12, <1>13, <1>14,
     <1>15, <1>16 DEF Next, Done

\* IInv is an invariant, whatever the programs and the limits.
THEOREM Invariant == Spec => []IInv
<1>1. Init => IInv
  BY Starts
<1>2. IInv /\ [Next \/ Done]_vars => IInv'
  BY Steps
<1> QED
  BY <1>1, <1>2, PTL DEF Spec

(* A compiled activation stands where its form goes and, for as long as no     *)
(* body has taken back the class it calls itself for (ShapesStand), holds a    *)
(* value of the kind and the shape the walk of jit_compile.c gave it at that   *)
(* operation: every load is guarded, every result checked or of the kind its   *)
(* site was compiled for.                                                      *)
THEOREM TypeCorrect == Spec => []TypeOK
<1>1. ASSUME IInv PROVE TypeOK
  <2>1. \A f \in Fns : tier[f].form \in 0..Len(forms)
    BY <1>1 DEF IInv, TierOK
  <2>2. ASSUME NEW i \in DOMAIN m.acts, NEW a, a = m.acts[i]
        PROVE  /\ a.pc \in DOMAIN prog[a.fn]
               /\ Compiled(a) => /\ forms[a.form].fn = a.fn
                                 /\ a.pc \in DOMAIN forms[a.form].kinds
                                 /\ ShapesStand => Takes(Shape(forms[a.form].kinds[a.pc]), a.acc.kind)
    <3> PICK s : s = m.acts
      OBVIOUS
    <3>1. StackIn(s) /\ DOMAIN s = 1..Len(s)
      BY <1>1, SeqIs DEF IInv, StackOK, StackIn
    <3>2. ActOK(a)
      BY <2>2, <3>1 DEF StackIn
    <3>3. DOMAIN prog[a.fn] = 1..Len(prog[a.fn])
      <4>1. IsBody(prog, prog[a.fn])
        BY <1>1, <3>2, Bodies DEF IInv, ActOK
      <4> QED
        BY <4>1 DEF IsBody
    <3>4. ASSUME Compiled(a) PROVE DOMAIN forms[a.form].kinds = 1..Len(forms[a.form].kinds)
      <4> PICK F : F = forms[a.form]
        OBVIOUS
      <4>1. Shaped(F)
        BY <1>1, <3>2, <3>4, SeqIs DEF IInv, FormsOK, ActOK, Compiled
      <4> QED
        BY <4>1, SeqIs DEF Shaped
    <3> QED
      BY <3>2, <3>3, <3>4 DEF ActOK, Typed
  <2> QED
    BY <2>1, <2>2 DEF TypeOK
<1> QED
  BY <1>1, Invariant, PTL

(* A form with jitFuncNoWrite set has written nothing while it runs, nor has   *)
(* anything it called: a caller may run the whole call again.                  *)
THEOREM NoWriteKept == Spec => []NoWriteHonest
<1>1. ASSUME IInv PROVE NoWriteHonest
  <2> PICK s : s = m.acts
    OBVIOUS
  <2>1. StackIn(s) /\ DOMAIN s = 1..Len(s)
    BY <1>1, SeqIs DEF IInv, StackOK, StackIn
  <2>2. \A i \in DOMAIN s : WritesNone(s[i]) => ~s[i].wrote
    BY <2>1 DEF StackIn
  <2> QED
    BY <2>2 DEF NoWriteHonest, WritesNone
<1> QED
  BY <1>1, Invariant, PTL

-----------------------------------------------------------------------------
(* Bindings: what a step does to activations.                                *)

\* t has no activation s has not.
Within(s, t) ==
    \A i \in 1..Len(t) : i \in 1..Len(s) /\ t[i].fn = s[i].fn /\ t[i].form = s[i].form

LEMMA ToppedWithin ==
  ASSUME NEW s, NEW a, NEW t, Topped(s, a, t), Len(s) > 0, a.fn = s[Len(s)].fn, a.form = s[Len(s)].form
  PROVE  Within(s, t)
<1> PICK n : n = Len(s)
  OBVIOUS
<1>1. n \in Nat /\ n > 0 /\ Len(t) = n /\ t[n] = a /\ \A i \in 1..n - 1 : t[i] = s[i]
  BY DEF Topped
<1>2. ASSUME NEW i \in 1..n PROVE t[i].fn = s[i].fn /\ t[i].form = s[i].form
  BY <1>1
<1> QED
  BY <1>1, <1>2 DEF Within

LEMMA ShortenedWithin ==
  ASSUME NEW s, NEW t, Shortened(s, t)
  PROVE  Within(s, t)
<1>1. Len(s) \in Nat /\ Len(t) \in Nat
  BY SeqIs DEF Shortened
<1> QED
  BY <1>1 DEF Shortened, Within

\* What a step does to the machine, as far as the bindings go.
NoNew == Within(m.acts, m'.acts)

\* One activation more, not of the script.
NewTop(b) == Extended(m.acts, b, m'.acts) /\ b.fn # "main"

\* Its form is one of those that may run, whichever set of them is taken.
Fair(b) == b.form # 0 => \A S : Upheld(S) => b.form \in S

\* No name is bound anew.
SameBindings == m'.bound = m.bound /\ m'.version = m.version

\* What the machine's moves come to.
LEMMA PopMoves ==
  ASSUME IInv, Running(m), m' = Pop(m)
  PROVE  NoNew /\ SameBindings
<1> PICK w, x : w = m /\ x = m'
  OBVIOUS
<1>1. IsSeq(w.acts) /\ Len(w.acts) > 0 /\ DOMAIN w = MFields /\ x = Pop(w)
  BY TopIs DEF IInv, MachineOK
<1>2. Shortened(w.acts, x.acts) /\ x.bound = w.bound /\ x.version = w.version
  BY <1>1, PopMIs
<1>3. Within(w.acts, x.acts)
  BY <1>2, ShortenedWithin
<1> QED
  BY <1>2, <1>3 DEF NoNew, SameBindings

LEMMA ResumeMoves ==
  ASSUME IInv, Running(m), NEW v, m' = SetTop(m, Stepped(Top(m), v))
  PROVE  NoNew /\ SameBindings
<1> PICK w, x, a, b : w = m /\ x = m' /\ a = Top(m) /\ b = Stepped(a, v)
  OBVIOUS
<1>1. /\ IsSeq(w.acts) /\ Len(w.acts) > 0 /\ DOMAIN w = MFields /\ x = SetTop(w, b)
      /\ a = w.acts[Len(w.acts)] /\ DOMAIN a = ActFields
  BY TopIs DEF IInv, MachineOK, ActOK
<1>2. Topped(w.acts, b, x.acts) /\ x.bound = w.bound /\ x.version = w.version
  BY <1>1, SetTopMIs
<1>3. b.fn = a.fn /\ b.form = a.form
  BY <1>1, SteppedIs
<1> PICK s, t : s = w.acts /\ t = x.acts
  OBVIOUS
<1>4. Within(s, t)
  BY <1>1, <1>2, <1>3, ToppedWithin
<1> QED
  BY <1>2, <1>4 DEF NoNew, SameBindings

LEMMA PushMoves ==
  ASSUME IInv, Running(m), NEW b, m' = Push(m, b), b.fn # "main"
  PROVE  NewTop(b) /\ SameBindings
<1> PICK w, x : w = m /\ x = m'
  OBVIOUS
<1>1. IsSeq(w.acts) /\ DOMAIN w = MFields /\ x = Push(w, b)
  BY TopIs DEF IInv, MachineOK
<1>2. Extended(w.acts, b, x.acts) /\ x.bound = w.bound /\ x.version = w.version
  BY <1>1, PushIs
<1> QED
  BY <1>2 DEF NewTop, SameBindings

LEMMA StayMoves ==
  ASSUME m' = m
  PROVE  NoNew /\ SameBindings
BY DEF NoNew, Within, SameBindings

\* A binding changes only while the script runs alone.
Rebound ==
    /\ Len(m.acts) = 1 /\ m.acts[1].form = 0
    /\ m'.version = m.version + 1
    /\ \A name \in DOMAIN Bound : m'.bound[name] # "main"

\* An operation binds a name only if it is the script's.
LEMMA StepMoves ==
  ASSUME OnlyScriptBinds, IInv, NotScript, Step
  PROVE  NoNew /\ (SameBindings \/ Rebound) /\ UNCHANGED <<forms, tier, pending, answer>>
<1> PICK a : a = Top(m)
  OBVIOUS
<1> PICK op : op = OpOf(prog, a)
  OBVIOUS
<1> PICK b : b = [a EXCEPT !.acc = Acc(a)]
  OBVIOUS
<1> PICK w, x : w = SetTop(m, b) /\ x = m'
  OBVIOUS
<1>0. Before(a, op, b, w)
  BY DEF Before
<1>1. /\ Running(m) /\ m' = Effect(w, op) /\ UNCHANGED <<forms, tier, pending, answer>>
      /\ Len(m.acts) \in Nat /\ Len(m.acts) > 0 /\ a = m.acts[Len(m.acts)] /\ ActOK(a)
      /\ b.fn = a.fn /\ b.form = a.form
  BY ONLY IInv, Step, <1>0, BeforeIs
<1>2. /\ DOMAIN w = MFields /\ w.bound = m.bound /\ w.version = m.version /\ Topped(m.acts, b, w.acts)
      /\ StackIn(w.acts)
  BY ONLY IInv, Step, <1>0, BeforeIs
<1>3. /\ IsSeq(w.acts) /\ Len(w.acts) = Len(m.acts) /\ w.acts[Len(w.acts)] = b /\ Top(w) = b
      /\ \A i \in 1..Len(w.acts) : DOMAIN w.acts[i] = ActFields
      /\ op[1] \in EffectOps /\ (op[1] = "bind" => op[2] \in DOMAIN Bound /\ op[3] \in Fns)
  BY ONLY IInv, Step, <1>0, BeforeIs
<1>4. DOMAIN w = MFields /\ IsSeq(w.acts) /\ Len(w.acts) > 0 /\ x = Effect(w, op)
  BY <1>1, <1>2, <1>3
<1>5. /\ \E v, s : s = EffectOn(op, w.acts) /\ Topped(s, Stepped(s[Len(s)], v), x.acts)
      /\ x.bound = IF op[1] = "bind" THEN [w.bound EXCEPT ![op[2]] = op[3]] ELSE w.bound
      /\ x.version = IF op[1] = "bind" THEN w.version + 1 ELSE w.version
  BY ONLY <1>3, <1>4, EffectIs
<1>6. PICK v, s : s = EffectOn(op, w.acts) /\ Topped(s, Stepped(s[Len(s)], v), x.acts)
  BY <1>5
<1>7. /\ Len(s) = Len(w.acts)
      /\ \A i \in 1..Len(s) : s[i].fn = w.acts[i].fn /\ s[i].form = w.acts[i].form /\ DOMAIN s[i] = ActFields
  <2> PICK t : t = w.acts
    OBVIOUS
  <2>1. IsSeq(t) /\ \A i \in 1..Len(t) : DOMAIN t[i] = ActFields
    BY <1>3
  <2>2. CASE s = Marked(t)
    BY <2>1, <2>2, MarkedIs
  <2>3. CASE s = t
    BY <2>1, <2>3
  <2> QED
    BY <1>6, <2>2, <2>3 DEF EffectOn
<1> PICK n, c, d : n = Len(s) /\ c = s[n] /\ d = Stepped(c, v)
  OBVIOUS
<1>8. n \in 1..n /\ n = Len(m.acts)
  <2> PICK k, l, t : k = Len(m.acts) /\ t = w.acts /\ l = Len(t)
    OBVIOUS
  <2>1. k \in Nat /\ k > 0 /\ l = k /\ n = l
    BY <1>1, <1>3, <1>7
  <2> QED
    BY ONLY <2>1, k = Len(m.acts)
<1>9. d.fn = c.fn /\ d.form = c.form
  <2>1. DOMAIN c = ActFields
    BY <1>7, <1>8
  <2> QED
    BY <2>1, SteppedIs
<1>10. Within(s, x.acts)
  <2> PICK t : t = x.acts
    OBVIOUS
  <2>1. Topped(s, d, t) /\ Len(s) > 0 /\ d.fn = s[Len(s)].fn /\ d.form = s[Len(s)].form
    BY <1>6, <1>8, <1>9
  <2> QED
    BY <2>1, ToppedWithin
<1>11. Within(m.acts, w.acts)
  <2> PICK q, t : q = m.acts /\ t = w.acts
    OBVIOUS
  <2>1. Topped(q, b, t) /\ Len(q) > 0 /\ b.fn = q[Len(q)].fn /\ b.form = q[Len(q)].form
    BY <1>1, <1>2
  <2> QED
    BY <2>1, ToppedWithin
<1>12. NoNew
  <2> PICK q, t, r : q = m.acts /\ t = w.acts /\ r = x.acts
    OBVIOUS
  <2>1. Within(q, t) /\ Within(s, r) /\ Len(s) = Len(t)
    BY <1>7, <1>10, <1>11
  <2>2. \A i \in 1..Len(s) : s[i].fn = t[i].fn /\ s[i].form = t[i].form
    BY <1>7
  <2>3. Within(q, r)
    BY ONLY <2>1, <2>2 DEF Within
  <2> QED
    BY <2>3 DEF NoNew
<1>13. CASE op[1] # "bind"
  <2>1. SameBindings
    BY <1>2, <1>5, <1>13 DEF SameBindings
  <2> QED
    BY <1>1, <1>12, <2>1
<1>14. CASE op[1] = "bind"
  <2>1. a.fn = "main" /\ op[3] # "main"
    <3>1. prog \in Programs /\ a.fn \in DOMAIN prog /\ a.pc \in DOMAIN prog[a.fn] /\ op = prog[a.fn][a.pc]
      <4>1. IsBody(prog, prog[a.fn]) /\ a.fn \in Fns /\ prog \in Programs
        BY <1>1, Bodies DEF IInv, ActOK
      <4> QED
        BY <1>1, <4>1 DEF ActOK, OpOf, IsBody, Fns
    <3> QED
      BY <1>14, <3>1 DEF OnlyScriptBinds
  <2>2. Len(m.acts) = 1
    <3> PICK q, k : q = m.acts /\ k = Len(q)
      OBVIOUS
    <3>1. k \in Nat /\ k > 0 /\ q[k].fn = "main" /\ \A i \in 2..k : q[i].fn # "main"
      BY <1>1, <2>1 DEF NotScript, Below
    <3>2. k > 1 => k \in 2..k
      BY ONLY <3>1
    <3>3. k = 1
      BY ONLY <3>1, <3>2
    <3> QED
      BY <3>3
  <2>3. m.acts[1].form = 0
    BY <1>1, <2>2, TopIs DEF IInv, Compiled
  <2>4. x.version = m.version + 1 /\ x.bound = [m.bound EXCEPT ![op[2]] = op[3]]
    BY <1>2, <1>5, <1>14
  <2>5. \A name \in DOMAIN Bound : x.bound[name] # "main"
    BY <2>1, <2>4 DEF NotScript, IInv, MachineOK
  <2>6. Rebound
    BY <2>2, <2>3, <2>4, <2>5 DEF Rebound
  <2> QED
    BY <1>1, <1>12, <2>6
<1> QED
  BY <1>13, <1>14

-----------------------------------------------------------------------------
(* The forms that may run.                                                   *)

\* One summary of what a step does to bindings, code and activations.
Summary ==
    /\ CodeOK
    /\ \/ SameBindings /\ NoNew
       \/ SameBindings /\ \E b : NewTop(b) /\ Fair(b)
       \/ Rebound /\ NoNew /\ UNCHANGED <<forms, tier>>
    /\ pending'.at # None => pending'.fn # "main"
    /\ answer'.verdict = "deopt" /\ Running(m)' => deopt'.fn # "main"

\* New forms call only what may be called.
LEMMA NewSites ==
  ASSUME NotScript, NEW s, Fresh(s)
  PROVE  s.callee # "main"
BY DEF Fresh, NotScript, NoSite, None

\* What S covers a larger set covers.
LEMMA CoveredMore ==
  ASSUME NEW S, NEW R, S \subseteq R, NEW F, Covered(S, F), m'.bound = m.bound
  PROVE  Covered(R, F)'
BY DEF Covered

\* The forms that may run stay current.
LEMMA UpheldStays ==
  ASSUME IInv, Dated, Summary, SameBindings, NEW S, Upheld(S)
  PROVE  \E R \in SUBSET (1..Len(forms)') : Upheld(R)'
<1> PICK n, old, new : n = Len(forms) /\ old = m.acts /\ new = m'.acts
  OBVIOUS
<1>1. /\ S \in SUBSET (1..n) /\ \A k \in S : Covered(S, forms[k])
      /\ \A f \in Fns : tier[f].form # 0 /\ tier[f].version = m.version => tier[f].form \in S
      /\ Owned(S, old)
  BY DEF Upheld
<1>2. Owned(S, new)
  <2>1. NoNew \/ \E b : NewTop(b) /\ Fair(b)
    BY DEF Summary
  <2>2. CASE NoNew
    BY <1>1, <2>2 DEF NoNew, Within, Owned
  <2>3. CASE \E b : NewTop(b) /\ Fair(b)
    <3> PICK b : NewTop(b) /\ Fair(b)
      BY <2>3
    <3> PICK k : k = Len(old)
      OBVIOUS
    <3>1. k \in Nat /\ Len(new) = k + 1 /\ new[k + 1] = b /\ \A i \in 1..k : new[i] = old[i]
      BY DEF NewTop, Extended
    <3>2. b.form # 0 => b.form \in S
      BY DEF Fair
    <3>3. ASSUME NEW i \in 1..k + 1, new[i].form # 0 PROVE new[i].form \in S
      <4>1. CASE i = k + 1
        BY ONLY <3>1, <3>2, <3>3, <4>1
      <4>2. CASE i # k + 1
        <5>1. i \in 1..k /\ new[i] = old[i]
          BY ONLY <3>1, <3>3, <4>2
        <5> QED
          BY ONLY <1>1, <3>3, <5>1, k = Len(old) DEF Owned
      <4> QED
        BY ONLY <4>1, <4>2
    <3> QED
      BY <3>1, <3>3 DEF Owned
  <2> QED
    BY <2>1, <2>2, <2>3
<1>3. Grown /\ Fns' = Fns /\ n \in Nat /\ m'.bound = m.bound /\ m'.version = m.version
  BY SeqIs DEF Summary, CodeOK, Grown, Fns, SameBindings
<1>4. CASE /\ forms' = forms
           /\ \A f \in Fns : tier'[f].version = tier[f].version /\ tier'[f].form \in {0, tier[f].form}
  <2>1. \A k \in S : Covered(S, forms[k])'
    <3> TAKE k \in S
    <3> PICK F : F = forms[k]
      OBVIOUS
    <3>1. Covered(S, F)'
      BY <1>1, <1>3, CoveredMore
    <3> QED
      BY <1>4, <3>1
  <2>2. \A f \in Fns' : tier'[f].form # 0 /\ tier'[f].version = m'.version => tier'[f].form \in S
    BY <1>1, <1>3, <1>4
  <2>3. S \in SUBSET (1..Len(forms)')
    BY <1>1, <1>4
  <2>4. Upheld(S)'
    BY <1>2, <2>1, <2>2, <2>3 DEF Upheld
  <2> QED
    BY <2>3, <2>4
<1>5. CASE \E f \in Fns : \E F :
          /\ forms' = Append(forms, F)
          /\ \A i \in 1..Len(F.sites) : Fresh(F.sites[i])
          /\ tier'[f].form = Len(forms) + 1 /\ tier'[f].version = m.version
          /\ \A g \in Fns : g # f => tier'[g] = tier[g]
  <2> PICK f \in Fns : \E F :
          /\ forms' = Append(forms, F)
          /\ \A i \in 1..Len(F.sites) : Fresh(F.sites[i])
          /\ tier'[f].form = Len(forms) + 1 /\ tier'[f].version = m.version
          /\ \A g \in Fns : g # f => tier'[g] = tier[g]
    BY <1>5
  <2>1. PICK F :
          /\ forms' = Append(forms, F)
          /\ \A i \in 1..Len(F.sites) : Fresh(F.sites[i])
          /\ tier'[f].form = n + 1 /\ tier'[f].version = m.version
          /\ \A g \in Fns : g # f => tier'[g] = tier[g]
    OBVIOUS
  <2> PICK R : R = S \cup {n + 1}
    OBVIOUS
  <2>2. Len(forms') = n + 1 /\ forms'[n + 1] = F /\ \A k \in 1..n : forms'[k] = forms[k]
    <3> PICK s, t : s = forms /\ t = forms'
      OBVIOUS
    <3>1. IsSeq(s) /\ t = Append(s, F)
      BY <1>3, <2>1 DEF Grown
    <3>2. Extended(s, F, t)
      BY <3>1, AppendIs
    <3> QED
      BY <3>2 DEF Extended
  <2>3. R \in SUBSET (1..Len(forms)') /\ S \subseteq R
    <3>1. R \in SUBSET (1..n + 1) /\ S \subseteq R
      BY ONLY <1>1, <1>3, R = S \cup {n + 1}
    <3>2. Len(forms') = n + 1
      BY <2>2
    <3> QED
      BY <3>1, <3>2
  <2>4. Covered(S, F)
    <3> SUFFICES ASSUME NEW i \in 1..Len(F.sites), NEW s, s = F.sites[i]
                 PROVE  /\ s.name # None => m.bound[s.name] = s.callee
                        /\ s.mode = "direct" => s.form \in S
      BY DEF Covered
    <3>1. Fresh(s)
      BY <2>1
    <3> QED
      BY <1>1, <3>1 DEF Fresh
  <2>5. \A k \in R : Covered(R, forms[k])'
    <3> TAKE k \in R
    <3> PICK G : G = forms'[k]
      OBVIOUS
    <3>1. Covered(S, G)
      <4>1. CASE k \in S
        BY <1>1, <2>2, <4>1
      <4>2. CASE k = n + 1
        BY <2>2, <2>4, <4>2
      <4> QED
        BY <4>1, <4>2
    <3>2. Covered(R, G)'
      BY <1>3, <2>3, <3>1, CoveredMore
    <3> QED
      BY <3>2
  <2>6. \A g \in Fns' : tier'[g].form # 0 /\ tier'[g].version = m'.version => tier'[g].form \in R
    BY <1>1, <1>3, <2>1
  <2>7. Owned(R, new)
    BY <1>2, <2>3 DEF Owned
  <2>8. Upheld(R)'
    BY <2>3, <2>5, <2>6, <2>7 DEF Upheld
  <2> QED
    BY <2>3, <2>8
<1> QED
  BY <1>4, <1>5 DEF Summary, CodeOK, Moved

\* With a binding changed nothing compiled runs and nothing compiled is current.
LEMMA UpheldAnew ==
  ASSUME IInv, Dated, CodeOK, Rebound, NoNew, UNCHANGED <<forms, tier>>
  PROVE  Upheld({})'
<1>1. Owned({}, m'.acts)
  BY DEF Owned, NoNew, Within, Rebound
<1>2. Fns' = Fns
  BY DEF CodeOK, Grown, Fns
<1>3. \A f \in Fns : tier'[f].version # m'.version
  <2> TAKE f \in Fns
  <2> PICK x, y : x = tier[f].version /\ y = m.version
    OBVIOUS
  <2>1. y \in Nat /\ x \in 0..y
    BY DEF Dated
  <2>2. x # y + 1
    BY <2>1
  <2> QED
    BY <2>2 DEF Rebound
<1> QED
  BY <1>1, <1>2, <1>3 DEF Upheld

\* So a step keeps CInv.
LEMMA SummaryKeeps ==
  ASSUME IInv, CInv, Summary
  PROVE  CInv'
<1>1. Fns' = Fns /\ Grown /\ NotScript /\ Dated
  BY DEF Summary, CodeOK, Grown, Fns, CInv
<1>2. \A name \in DOMAIN Bound : m'.bound[name] # "main"
  BY <1>1 DEF Summary, SameBindings, Rebound, NotScript
<1>3. Below(m'.acts)
  <2> PICK s, t : s = m.acts /\ t = m'.acts
    OBVIOUS
  <2>1. Below(s)
    BY <1>1 DEF NotScript
  <2>2. CASE NoNew
    <3>1. IsSeq(s)
      BY DEF IInv, StackOK, StackIn
    <3>2. \A i \in 1..Len(t) : i \in 1..Len(s) /\ t[i].fn = s[i].fn
      BY <2>2 DEF NoNew, Within
    <3>3. ASSUME NEW i \in 2..Len(t) PROVE t[i].fn # "main"
      <4>1. i \in 1..Len(t)
        OBVIOUS
      <4>2. i \in 2..Len(s) /\ t[i].fn = s[i].fn
        BY <3>1, <3>2, <4>1, SeqIs
      <4> QED
        BY <2>1, <4>2 DEF Below
    <3> QED
      BY <3>3 DEF Below
  <2>3. CASE \E b : NewTop(b)
    <3> PICK b : NewTop(b)
      BY <2>3
    <3> PICK k : k = Len(s)
      OBVIOUS
    <3>1. k \in Nat /\ Len(t) = k + 1 /\ t[k + 1] = b /\ (\A i \in 1..k : t[i] = s[i]) /\ b.fn # "main"
      BY DEF NewTop, Extended
    <3>2. ASSUME NEW i \in 2..k + 1 PROVE t[i].fn # "main"
      BY <2>1, <3>1 DEF Below
    <3> QED
      BY <3>1, <3>2 DEF Below
  <2> QED
    BY <2>2, <2>3 DEF Summary
<1>4. \A n \in 1..Len(forms') : \A i \in 1..Len(forms'[n].sites) : forms'[n].sites[i].callee # "main"
  <2>1. \A n \in 1..Len(forms) : \A i \in 1..Len(forms[n].sites) : forms[n].sites[i].callee # "main"
    BY <1>1 DEF NotScript
  <2>2. CASE forms' = forms
    BY <2>1, <2>2
  <2>3. CASE \E F : forms' = Append(forms, F) /\ \A i \in 1..Len(F.sites) : Fresh(F.sites[i])
    <3> PICK F : forms' = Append(forms, F) /\ \A i \in 1..Len(F.sites) : Fresh(F.sites[i])
      BY <2>3
    <3> PICK s, t, k : s = forms /\ t = forms' /\ k = Len(forms)
      OBVIOUS
    <3>1. Len(t) = k + 1 /\ t[k + 1] = F /\ k \in Nat /\ \A n \in 1..k : t[n] = s[n]
      <4>1. IsSeq(s) /\ t = Append(s, F)
        BY <1>1 DEF Grown
      <4>2. Extended(s, F, t)
        BY <4>1, AppendIs
      <4> QED
        BY <4>2 DEF Extended
    <3>2. \A i \in 1..Len(F.sites) : F.sites[i].callee # "main"
      BY <1>1, NewSites
    <3> QED
      BY <2>1, <3>1, <3>2
  <2> QED
    BY <2>2, <2>3 DEF Summary, CodeOK, Moved
<1>5. NotScript'
  BY <1>2, <1>3, <1>4 DEF NotScript, Summary
<1>6. Dated'
  <2>1. m.version \in Nat /\ \A f \in Fns : tier[f].version \in 0..m.version
    BY <1>1 DEF Dated
  <2>2. m'.version \in {m.version, m.version + 1}
    BY DEF Summary, SameBindings, Rebound
  <2>3. ASSUME NEW f \in Fns PROVE tier'[f].version \in 0..m.version
    <3>1. tier'[f].version \in {tier[f].version, m.version}
      BY DEF Summary, CodeOK, Moved
    <3> QED
      BY <2>1, <3>1
  <2> PICK v, w : v = m.version /\ w = m'.version
    OBVIOUS
  <2>4. w \in Nat /\ \A x \in 0..v : x \in 0..w
    BY <2>1, <2>2
  <2> QED
    BY <1>1, <2>3, <2>4 DEF Dated
<1>7. \E R \in SUBSET (1..Len(forms)') : Upheld(R)'
  <2>1. CASE SameBindings
    <3> PICK S : Upheld(S)
      BY DEF CInv
    <3> QED
      BY <1>1, <2>1, UpheldStays
  <2>2. CASE Rebound /\ NoNew /\ UNCHANGED <<forms, tier>>
    <3>1. Upheld({})'
      BY <1>1, <2>2, UpheldAnew DEF Summary
    <3> PICK R : R = {}
      OBVIOUS
    <3>2. R \in SUBSET (1..Len(forms)') /\ Upheld(R)'
      BY <3>1
    <3> QED
      BY <3>2
  <2> QED
    BY <2>1, <2>2 DEF Summary
<1> QED
  BY <1>5, <1>6, <1>7 DEF CInv

-----------------------------------------------------------------------------
(* Each action, for bindings.                                                *)

\* What leaves, with someone to take its answer, is not the script.
LEMMA TopBelow ==
  ASSUME IInv, NotScript, Running(m), m' = Pop(m), Running(m)'
  PROVE  Top(m).fn # "main"
<1> PICK w, x : w = m /\ x = m'
  OBVIOUS
<1>1. IsSeq(w.acts) /\ Len(w.acts) > 0 /\ DOMAIN w = MFields /\ x = Pop(w) /\ Top(m) = w.acts[Len(w.acts)]
  BY TopIs DEF IInv, MachineOK
<1>2. Shortened(w.acts, x.acts)
  BY <1>1, PopMIs
<1> PICK s, t : s = w.acts /\ t = x.acts
  OBVIOUS
<1>3. Running(x) /\ IsSeq(t)
  BY <1>2 DEF Shortened
<1>4. Len(t) \in Nat /\ Len(t) > 0 /\ Len(s) \in Nat
  BY <1>1, <1>3, RunningIs, SeqIs
<1>5. Len(t) = Len(s) - 1
  BY <1>2 DEF Shortened
<1>6. Len(s) \in 2..Len(s)
  BY <1>4, <1>5
<1> QED
  BY <1>1, <1>6 DEF NotScript, Below

\* An activation leaves with anything but a result.
LEMMA LeftMoves ==
  ASSUME IInv, NotScript, Running(m), pending.at = None, m' = Pop(m),
         UNCHANGED <<prog, forms, tier, pending>>,
         answer'.verdict = "deopt" => deopt'.fn = Top(m).fn
  PROVE  Summary
<1>1. CodeOK
  BY SameMoved
<1>2. NoNew /\ SameBindings
  BY PopMoves
<1>3. answer'.verdict = "deopt" /\ Running(m)' => deopt'.fn # "main"
  BY TopBelow
<1> QED
  BY <1>1, <1>2, <1>3 DEF Summary

LEMMA LeaveMoves ==
  ASSUME IInv, NotScript, Running(m), pending.at = None, NEW pc, NEW v, LeaveAt(pc, v)
  PROVE  Summary
<1>1. /\ m' = Pop(m) /\ UNCHANGED <<prog, forms, tier, pending>>
      /\ deopt' = [fn |-> Top(m).fn, pc |-> pc, acc |-> v]
  BY DEF LeaveAt, TierSame, Given
<1>2. deopt'.fn = Top(m).fn
  BY <1>1
<1> QED
  BY <1>1, <1>2, LeftMoves

LEMMA RaiseMoves ==
  ASSUME IInv, NotScript, Raise
  PROVE  Summary
<1>1. /\ Running(m) /\ pending.at = None /\ m' = Pop(m)
      /\ UNCHANGED <<prog, forms, tier, pending>>
      /\ answer' = [verdict |-> "raised", fn |-> Top(m).fn]
  BY DEF Raise, Quiet, TierSame, Given
<1>2. answer'.verdict # "deopt"
  BY <1>1
<1> QED
  BY <1>1, <1>2, LeftMoves

\* A return changes what has been observed, no form.
LEMMA ReturnMoves ==
  ASSUME IInv, NotScript, Return
  PROVE  Summary
<1> PICK a : a = Top(m)
  OBVIOUS
<1>1. /\ Running(m) /\ pending.at = None /\ m' = Pop(m)
      /\ UNCHANGED <<prog, forms, pending>>
      /\ tier' = IF Compiled(a) THEN tier ELSE [tier EXCEPT ![a.fn] = Observed(@, a.acc.kind)]
  BY DEF Return, Quiet, Given
<1>2. answer'.verdict = "done"
  BY DEF Return
<1>3. \A f \in Fns : tier'[f].version = tier[f].version /\ tier'[f].form = tier[f].form
  <2> SUFFICES ASSUME NEW f \in Fns PROVE tier'[f].version = tier[f].version /\ tier'[f].form = tier[f].form
    OBVIOUS
  <2> PICK t, u, k : t = tier[f] /\ u = Observed(t, k) /\ k = a.acc.kind
    OBVIOUS
  <2>1. DOMAIN tier = Fns /\ DOMAIN t = TierFields
    BY DEF IInv, TierOK
  <2>2. tier'[f] = t \/ tier'[f] = u
    BY <1>1, <2>1
  <2>3. u.version = t.version /\ u.form = t.form
    BY <2>1 DEF Observed, TierFields, Untried
  <2> QED
    BY <2>2, <2>3
<1>4. Moved
  BY <1>1, <1>3 DEF Moved
<1>5. CodeOK
  <2>1. IInv'
    BY ReturnInv
  <2>2. Grown
    BY <1>1, SameForms
  <2> QED
    BY <1>4, <2>1, <2>2 DEF CodeOK, IInv
<1>6. NoNew /\ SameBindings
  BY <1>1, PopMoves
<1> QED
  BY <1>1, <1>2, <1>5, <1>6 DEF Summary

\* A value is handed to the activation on top.
LEMMA HandedMoves ==
  ASSUME IInv, NotScript, Running(m), NEW v, m' = SetTop(m, Stepped(Top(m), v)),
         UNCHANGED <<prog, forms, tier, pending>>, answer'.verdict # "deopt", pending.at = None
  PROVE  Summary
<1>1. CodeOK
  BY SameMoved
<1>2. NoNew /\ SameBindings
  BY ResumeMoves
<1> QED
  BY <1>1, <1>2 DEF Summary

LEMMA InlineMoves ==
  ASSUME IInv, NotScript, Inline
  PROVE  Summary
<1>1. /\ Running(m) /\ pending.at = None /\ answer.verdict = None
      /\ m' = SetTop(m, Stepped(Top(m), Inlined(Top(m))))
      /\ UNCHANGED <<prog, forms, tier, pending, answer>>
  BY DEF Inline, Calling, Quiet, TierSame, Given
<1>2. answer'.verdict # "deopt"
  BY <1>1 DEF None
<1> PICK v : v = Inlined(Top(m))
  OBVIOUS
<1>3. m' = SetTop(m, Stepped(Top(m), v))
  BY <1>1
<1> QED
  BY ONLY IInv, NotScript, <1>1, <1>2, <1>3, HandedMoves

LEMMA ResultMoves ==
  ASSUME IInv, NotScript, Result
  PROVE  Summary
<1>1. /\ Running(m) /\ pending.at = None
      /\ m' = SetTop(m, Stepped(Top(m), Handed(Site(Top(m)))))
      /\ UNCHANGED <<prog, forms, tier, pending>> /\ answer' = NoAnswer
  BY AnsweredIs DEF Result, TierSame, Given
<1>2. answer'.verdict # "deopt"
  BY <1>1 DEF NoAnswer, None
<1> PICK v : v = Handed(Site(Top(m)))
  OBVIOUS
<1>3. m' = SetTop(m, Stepped(Top(m), v))
  BY <1>1
<1> QED
  BY ONLY IInv, NotScript, <1>1, <1>2, <1>3, HandedMoves

LEMMA StepSummary ==
  ASSUME OnlyScriptBinds, IInv, NotScript, Step
  PROVE  Summary
<1>1. NoNew /\ (SameBindings \/ Rebound) /\ UNCHANGED <<forms, tier, pending, answer>>
  BY StepMoves
<1>2. pending.at = None /\ answer.verdict = None /\ prog' = prog
  BY DEF Step, Quiet, TierSame, Given
<1>3. CodeOK
  BY <1>1, <1>2, SameMoved
<1>4. answer'.verdict # "deopt"
  BY <1>1, <1>2 DEF None
<1> QED
  BY <1>1, <1>2, <1>3, <1>4 DEF Summary

\* All the ways to leave part-way.
LEMMA DeoptMoves ==
  ASSUME IInv, NotScript, Deopt \/ InlineLeave \/ BranchLow \/ Redo \/ ResultSurprise
  PROVE  Summary
<1>1. CASE Deopt
  <2>1. Running(m) /\ pending.at = None
    BY <1>1 DEF Deopt, Quiet
  <2>2. \E pc, v : LeaveAt(pc, v)
    BY <1>1 DEF Deopt
  <2> QED
    BY <2>1, <2>2, LeaveMoves
<1>2. CASE InlineLeave
  <2>1. Running(m) /\ pending.at = None
    BY <1>2 DEF InlineLeave, Calling, Quiet
  <2>2. \E pc, v : LeaveAt(pc, v)
    BY <1>2 DEF InlineLeave
  <2> QED
    BY <2>1, <2>2, LeaveMoves
<1>3. CASE BranchLow
  <2>1. Running(m) /\ pending.at = None
    BY <1>3 DEF BranchLow, Calling, Quiet
  <2>2. \E pc, v : LeaveAt(pc, v)
    BY <1>3 DEF BranchLow
  <2> QED
    BY <2>1, <2>2, LeaveMoves
<1>4. CASE Redo
  <2>1. Running(m) /\ pending.at = None
    BY <1>4, AnsweredIs DEF Redo
  <2>2. \E pc, v : LeaveAt(pc, v)
    BY <1>4 DEF Redo
  <2> QED
    BY <2>1, <2>2, LeaveMoves
<1>5. CASE ResultSurprise
  <2>1. Running(m) /\ pending.at = None
    BY <1>5, AnsweredIs DEF ResultSurprise
  <2>2. \E pc, v : LeaveAt(pc, v)
    BY <1>5 DEF ResultSurprise
  <2> QED
    BY <2>1, <2>2, LeaveMoves
<1> QED
  BY <1>1, <1>2, <1>3, <1>4, <1>5

-----------------------------------------------------------------------------
(* Calls and the entry, for bindings.                                        *)

\* What a site calls is never the script.
LEMMA CalleeNamed ==
  ASSUME IInv, NotScript, NEW a, ActOK(a), ~Stopped(a), OpOf(prog, a)[1] = "call"
  PROVE  Callee(a) # "main"
<1>1. CASE Compiled(a)
  <2> PICK F : F = forms[a.form]
    OBVIOUS
  <2>1. a.pc \in 1..Len(F.sites) /\ Site(a) = F.sites[a.pc]
    BY <1>1, AtCall DEF IInv
  <2>2. a.form \in 1..Len(forms)
    BY <1>1, SeqIs DEF IInv, FormsOK, ActOK, Compiled
  <2>3. F.sites[a.pc].callee # "main"
    BY <2>1, <2>2 DEF NotScript
  <2> QED
    BY <1>1, <2>1, <2>3 DEF Callee
<1>2. CASE ~Compiled(a)
  <2>1. OpOf(prog, a)[2] \in DOMAIN Bound
    BY OpIs DEF IInv, IsOp
  <2> QED
    BY <1>2, <2>1 DEF Callee, NotScript
<1> QED
  BY <1>1, <1>2

\* Calls.
LEMMA CallOutMoves ==
  ASSUME IInv, NotScript, CallOut
  PROVE  Summary
<1> PICK a : a = Top(m)
  OBVIOUS
<1>1. /\ answer.verdict = None
      /\ OpOf(prog, a)[1] = "call" /\ ~Stopped(a) /\ ActOK(a)
  <2>1. PICK mode \in {"interp", "desc"} : Calling(mode)
    BY DEF CallOut
  <2> QED
    BY <2>1, CallingIs
<1>2. /\ pending' = [at |-> "form", fn |-> Callee(a), arg |-> Acc(a)]
      /\ UNCHANGED <<prog, m, deopt, answer, forms, tier>>
  BY DEF CallOut, Elsewhere, Given
<1>3. Callee(a) # "main"
  BY <1>1, CalleeNamed
<1>4. CodeOK /\ NoNew /\ SameBindings
  BY <1>2, SameMoved, StayMoves
<1>5. pending'.fn = Callee(a)
  BY <1>2
<1>6. answer'.verdict # "deopt"
  BY <1>1, <1>2 DEF None
<1> QED
  BY <1>3, <1>4, <1>5, <1>6 DEF Summary

\* The form a call branches to is among those that may run.
LEMMA BranchFair ==
  ASSUME IInv, NEW S, Upheld(S), Running(m), NEW a, a = Top(m), Compiled(a), ~Stopped(a),
         OpOf(prog, a)[1] = "call"
  PROVE  a.form \in S /\ (Site(a).mode = "direct" => Site(a).form \in S)
<1> PICK F, s, k : F = forms[a.form] /\ s = m.acts /\ k = Len(s)
  OBVIOUS
<1>1. ActOK(a) /\ k \in 1..k /\ a = s[k]
  BY TopIs DEF IInv
<1>2. a.form \in S
  BY <1>1 DEF Upheld, Owned, Compiled
<1>3. a.pc \in 1..Len(F.sites) /\ Site(a) = F.sites[a.pc]
  BY <1>1, AtCall DEF IInv
<1>4. Covered(S, F)
  BY <1>2 DEF Upheld
<1> QED
  BY <1>2, <1>3, <1>4 DEF Covered

LEMMA BranchMoves ==
  ASSUME IInv, NotScript, Branch
  PROVE  Summary
<1> PICK a : a = Top(m)
  OBVIOUS
<1> PICK s : s = Site(a)
  OBVIOUS
<1> PICK form, callee, acc : form = (IF s.mode = "self" THEN a.form ELSE s.form) /\ callee = s.callee /\ acc = Acc(a)
  OBVIOUS
<1> PICK b : b = Entered(callee, acc, form)
  OBVIOUS
<1>1. /\ Running(m) /\ answer.verdict = None /\ pending.at = None
      /\ OpOf(prog, a)[1] = "call" /\ ~Stopped(a) /\ s.mode \in {"self", "direct"} /\ ActOK(a)
      /\ Compiled(a)
  <2>1. PICK mode \in {"self", "direct"} : Calling(mode)
    BY DEF Branch
  <2> QED
    BY <2>1, CallingIs DEF IInv
<1>2. m' = Push(m, b) /\ UNCHANGED <<prog, forms, tier, pending, deopt, answer>>
  BY DEF Branch, TierSame, Given, Entered
<1>3. b.fn = callee /\ b.form = form
  BY FrameIs
<1>4. callee # "main"
  <2>1. Callee(a) # "main"
    BY <1>1, CalleeNamed
  <2> QED
    BY <1>1, <2>1 DEF Callee
<1>5. Fair(b)
  <2> SUFFICES ASSUME NEW S, Upheld(S) PROVE form \in S
    BY <1>3 DEF Fair
  <2>1. a.form \in S /\ (s.mode = "direct" => s.form \in S)
    BY <1>1, BranchFair
  <2> QED
    BY <1>1, <2>1
<1>6. CodeOK
  BY <1>2, SameMoved
<1>7. NewTop(b) /\ SameBindings
  BY <1>1, <1>2, <1>3, <1>4, PushMoves
<1> QED
  BY <1>1, <1>2, <1>5, <1>6, <1>7 DEF Summary, None

LEMMA FinishMoves ==
  ASSUME IInv, NotScript, Finish
  PROVE  Summary
<1> PICK fn, arg, pc : fn = deopt.fn /\ arg = deopt.acc /\ pc = deopt.pc
  OBVIOUS
<1> PICK y : y = Frame(fn, arg)
  OBVIOUS
<1> PICK b : b = [y EXCEPT !.pc = pc]
  OBVIOUS
<1>1. /\ Running(m) /\ pending.at = None /\ answer.verdict = "deopt"
      /\ m' = Push(m, b) /\ answer' = NoAnswer
      /\ UNCHANGED <<prog, forms, tier, pending>>
  BY AnsweredIs DEF Finish, TierSame, Given
<1>2. b.fn = fn /\ b.form = 0
  <2>1. y = [fn |-> fn, pc |-> 1, acc |-> arg, form |-> 0, wrote |-> FALSE]
    BY DEF Frame
  <2>2. DOMAIN y = ActFields /\ y.fn = fn /\ y.form = 0
    BY <2>1 DEF ActFields
  <2> QED
    BY <2>2 DEF ActFields
<1>3. fn # "main"
  BY <1>1 DEF NotScript
<1>4. CodeOK
  BY <1>1, SameMoved
<1>5. NewTop(b) /\ SameBindings
  BY <1>1, <1>2, <1>3, PushMoves
<1>6. Fair(b)
  BY <1>2 DEF Fair
<1>7. answer'.verdict # "deopt"
  BY <1>1 DEF NoAnswer, None
<1> QED
  BY <1>1, <1>4, <1>5, <1>6, <1>7 DEF Summary

LEMMA UnwindMoves ==
  ASSUME IInv, NotScript, Unwind
  PROVE  Summary
<1>1. /\ Running(m) /\ pending.at = None
      /\ UNCHANGED <<prog, forms, tier, pending>>
  BY AnsweredIs DEF Unwind, TierSame, Given
<1>2. CASE Len(m.acts) # 1
  <2>1. m' = Pop(m) /\ answer' = [verdict |-> "raised", fn |-> Top(m).fn]
    BY <1>2 DEF Unwind
  <2>2. answer'.verdict # "deopt"
    BY <2>1
  <2> QED
    BY <1>1, <2>1, <2>2, LeftMoves
<1>3. CASE Len(m.acts) = 1
  <2> PICK a : a = Top(m)
    OBVIOUS
  <2> PICK b : b = Stepped(a, a.acc)
    OBVIOUS
  <2>1. ActOK(a) /\ a = m.acts[1] /\ MachineOK
    BY <1>1, <1>3, TopIs DEF IInv
  <2>2. b.fn = a.fn /\ b.form = a.form
    BY <2>1, SteppedIs DEF ActOK
  <2> PICK t, q, w : t = <<b>> /\ q = Append(m.seen, Value("raised", 0)) /\ w = m
    OBVIOUS
  <2> PICK y : y = [w EXCEPT !.seen = q]
    OBVIOUS
  <2>3. DOMAIN y = MFields /\ y.bound = w.bound /\ y.version = w.version
    BY <2>1 DEF MachineOK, MFields
  <2>4. m' = [y EXCEPT !.acts = t]
    BY <1>3, <2>1 DEF Unwind, Caught
  <2>5. m'.acts = t /\ SameBindings
    BY <2>3, <2>4 DEF MFields, SameBindings
  <2>6. NoNew
    <3>1. Len(t) = 1 /\ t[1] = b
      OBVIOUS
    <3>2. \A i \in 1..1 : i = 1
      OBVIOUS
    <3>3. Within(m.acts, t)
      BY <1>3, <2>1, <2>2, <3>1, <3>2 DEF Within
    <3> QED
      BY <2>5, <3>3 DEF NoNew
  <2>7. answer'.verdict # "deopt"
    BY <1>3 DEF Unwind, NoAnswer, None
  <2>8. CodeOK
    BY <1>1, SameMoved
  <2> QED
    BY <1>1, <2>5, <2>6, <2>7, <2>8 DEF Summary
<1> QED
  BY <1>2, <1>3

-----------------------------------------------------------------------------
\* The call on its way in changes nothing the program holds.
LEMMA StageMoves ==
  ASSUME IInv, NotScript, pending.at # None, CodeOK, UNCHANGED <<m, deopt, answer>>,
         pending' = pending \/ \E stage \in {"count", "tier", "again"} : pending' = [pending EXCEPT !.at = stage]
  PROVE  Summary
<1>1. DOMAIN pending = {"at", "fn", "arg"} /\ answer.verdict = None
  BY DEF IInv, PendingOK
<1>2. pending'.fn = pending.fn
  BY <1>1
<1>3. NoNew /\ SameBindings
  BY StayMoves
<1> QED
  BY <1>1, <1>2, <1>3 DEF Summary, NotScript, None

\* The body starts.
LEMMA RunMoves ==
  ASSUME IInv, NotScript, pending.at # None, CodeOK, NEW form, Run(form),
         form # 0 => form = tier[pending.fn].form /\ tier[pending.fn].version = m.version
  PROVE  Summary
<1> PICK fn, arg : fn = pending.fn /\ arg = pending.arg
  OBVIOUS
<1> PICK b : b = Entered(fn, arg, form)
  OBVIOUS
<1>1. Running(m) /\ answer.verdict = None /\ fn \in Fns /\ fn # "main"
  BY DEF IInv, PendingOK, NotScript
<1>2. m' = Push(m, b) /\ pending' = NoCall /\ UNCHANGED <<deopt, answer>>
  BY DEF Run, Entered
<1>3. b.fn = fn /\ b.form = form
  BY FrameIs
<1>4. NewTop(b) /\ SameBindings
  BY <1>1, <1>2, <1>3, PushMoves
<1>5. Fair(b)
  BY <1>1, <1>3 DEF Fair, Upheld
<1>6. pending'.at = None
  BY <1>2 DEF NoCall
<1> QED
  BY <1>1, <1>2, <1>4, <1>5, <1>6 DEF Summary, None

\* All of the entry.
LEMMA EntryMoves ==
  ASSUME IInv, NotScript,
         \/ NoForm \/ Retired \/ RecompileBlocked \/ WrongArgument \/ Refuse
         \/ Enter \/ Count \/ EnterAgain \/ CompileFirst
  PROVE  Summary
<1>1. OnItsWay
  BY EntryIs
<1>2. pending.at # None /\ CodeOK
  BY <1>1 DEF OnItsWay
<1>3. CASE Run(0)
  BY <1>2, <1>3, RunMoves
<1>4. CASE /\ Run(T.form)
           /\ T.form # 0 /\ T.version = m.version /\ Takes(T.param, pending.arg.kind)
  <2> PICK form : form = T.form
    OBVIOUS
  <2>1. Run(form) /\ form = tier[pending.fn].form /\ tier[pending.fn].version = m.version
    BY <1>4 DEF T
  <2> QED
    BY <1>2, <2>1, RunMoves
<1>5. CASE /\ UNCHANGED <<m, deopt, answer>>
           /\ \/ pending' = pending
              \/ \E stage \in {"count", "tier", "again"} : pending' = [pending EXCEPT !.at = stage]
  BY <1>2, <1>5, StageMoves
<1> QED
  BY <1>1, <1>3, <1>4, <1>5 DEF OnItsWay

-----------------------------------------------------------------------------
(* What a program calls.                                                     *)

\* Nothing happens.
LEMMA Stay ==
  ASSUME IInv, NotScript, UNCHANGED vars
  PROVE  Summary
<1>1. UNCHANGED <<prog, forms, tier, m, pending, answer, deopt>>
  BY DEF vars
<1>2. CodeOK /\ NoNew /\ SameBindings
  BY <1>1, SameMoved, StayMoves
<1> QED
  BY <1>1, <1>2 DEF Summary, NotScript

\* The initial states, for bindings.
LEMMA StartsCurrent ==
  ASSUME OnlyScriptBinds, Init
  PROVE  CInv
<1> PICK arg : arg = Start.acc
  OBVIOUS
<1> PICK b, t : b = Frame("main", arg) /\ t = <<b>>
  OBVIOUS
<1>1. /\ forms = <<>> /\ pending.at = None /\ answer.verdict = None
      /\ tier = [f \in Fns |-> Untried]
  BY DEF Init, NoCall, NoAnswer
<1>2. m.acts = t /\ m.bound = Bound /\ m.version = 0 /\ Len(t) = 1 /\ t[1] = b
  BY DEF Init, Started
<1>3. Len(forms) = 0
  BY <1>1
<1>4. b.form = 0
  BY DEF Frame
<1>5. Untried.form = 0 /\ Untried.version = 0
  BY DEF Untried
<1>6. NotScript
  BY <1>1, <1>2, <1>3 DEF NotScript, OnlyScriptBinds, Below, None
<1>7. Dated
  BY <1>1, <1>2, <1>5 DEF Dated
<1>8. Upheld({})
  <2>1. Owned({}, t)
    BY <1>2, <1>4 DEF Owned
  <2> QED
    BY <1>1, <1>2, <1>5, <2>1 DEF Upheld
<1> QED
  BY <1>6, <1>7, <1>8 DEF CInv, Upheld

\* Every step, for bindings.
LEMMA StepsCurrent ==
  ASSUME OnlyScriptBinds, IInv, CInv, [Next \/ Done]_vars
  PROVE  CInv'
<1>1. NotScript
  BY DEF CInv
<1>2. Summary
  <2>1. CASE Step
    BY <1>1, <2>1, StepSummary
  <2>2. CASE Return
    BY <1>1, <2>2, ReturnMoves
  <2>3. CASE Raise
    BY <1>1, <2>3, RaiseMoves
  <2>4. CASE Deopt \/ InlineLeave \/ BranchLow \/ Redo \/ ResultSurprise
    BY <1>1, <2>4, DeoptMoves
  <2>5. CASE CallOut
    BY <1>1, <2>5, CallOutMoves
  <2>6. CASE Branch
    BY <1>1, <2>6, BranchMoves
  <2>7. CASE Inline
    BY <1>1, <2>7, InlineMoves
  <2>8. CASE \/ NoForm \/ Retired \/ RecompileBlocked \/ WrongArgument \/ Refuse \/ Enter
             \/ Count \/ EnterAgain \/ CompileFirst
    BY <1>1, <2>8, EntryMoves
  <2>9. CASE Result
    BY <1>1, <2>9, ResultMoves
  <2>10. CASE Finish
    BY <1>1, <2>10, FinishMoves
  <2>11. CASE Unwind
    BY <1>1, <2>11, UnwindMoves
  <2>12. CASE UNCHANGED vars
    BY <1>1, <2>12, Stay
  <2> QED
    BY <2>1, <2>2, <2>3, <2>4, <2>5, <2>6, <2>7, <2>8, <2>9, <2>10, <2>11, <2>12 DEF Next, Done
<1> QED
  BY <1>2, SummaryKeeps

(* In a program in which only the script binds names, a compiled activation    *)
(* calls what they are bound to now: the version test at entry and the one     *)
(* emitDirectCall makes of a callee are enough.                                *)
THEOREM Current ==
  ASSUME OnlyScriptBinds
  PROVE  Spec => []CallsCurrent
<1>1. Init => IInv /\ CInv
  BY Starts, StartsCurrent
<1>2. IInv /\ CInv /\ [Next \/ Done]_vars => (IInv /\ CInv)'
  BY Steps, StepsCurrent
<1>3. ASSUME IInv, CInv PROVE CallsCurrent
  <2> SUFFICES ASSUME NEW i \in DOMAIN m.acts, NEW a, a = m.acts[i], Compiled(a),
                      NEW s \in Range(forms[a.form].sites), s.name # None
               PROVE  m.bound[s.name] = s.callee
    BY DEF CallsCurrent
  <2> PICK t, F : t = m.acts /\ F = forms[a.form]
    OBVIOUS
  <2>1. StackIn(t) /\ DOMAIN t = 1..Len(t)
    BY <1>3, SeqIs DEF IInv, StackOK, StackIn
  <2>2. a.form \in 1..Len(forms)
    BY <1>3, <2>1, SeqIs DEF StackIn, ActOK, Compiled, IInv, FormsOK
  <2>3. PICK S : Upheld(S)
    BY <1>3 DEF CInv
  <2>4. a.form \in S
    BY <2>1, <2>3 DEF Upheld, Owned, Compiled
  <2>5. Covered(S, F)
    BY <2>3, <2>4 DEF Upheld
  <2>6. DOMAIN F.sites = 1..Len(F.sites)
    BY <1>3, <2>2, SeqIs DEF IInv, FormsOK, Shaped
  <2>7. PICK j \in 1..Len(F.sites) : s = F.sites[j]
    BY <2>6 DEF Range
  <2> QED
    BY <2>5, <2>7 DEF Covered
<1> QED
  BY <1>1, <1>2, <1>3, PTL DEF Spec

==============================================================================
