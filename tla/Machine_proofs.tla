--------------------------- MODULE Machine_proofs ---------------------------
(***************************************************************************)
(* Proofs about Machine, for any programs and whatever code they load as:   *)
(* nothing is assumed of it, nor of the verifier.                           *)
(*                                                                          *)
(* DefersOnce needs the frames' stretches of vm.defers to follow one        *)
(* another, so that a frame that leaves when none of its own blocks wait    *)
(* takes none with it (NoneOfIts), and the last frame leaves none behind.   *)
(* That needs a frame to be there whenever an instruction, the unwinder or  *)
(* runFrameDefers works at it, which holds because the C activations nest   *)
(* and each run keeps a frame of its own above its base (Stacked), but for  *)
(* the topmost while the exception leaves it.  IdsOK counts the blocks.     *)
(*                                                                          *)
(* Lists here hold frames, activations and blocks of all shapes, so their   *)
(* element set is made of their own elements (IsList).                      *)
(*                                                                          *)
(* The second part is about the depth of the operand stack, the third about *)
(* the control-flow graph (Depths).                                         *)
(***************************************************************************)
EXTENDS Depths, FiniteSetTheorems, SequenceTheorems, TLAPS

-----------------------------------------------------------------------------
(* Lists whose elements have no set of their own.                            *)

LEMMA ListFacts ==
  ASSUME NEW s, IsList(s)
  PROVE  /\ Len(s) \in Nat /\ DOMAIN s = 1..Len(s)
         /\ s # <<>> <=> Len(s) > 0
         /\ s = <<>> <=> Len(s) = 0
<1> PICK S : S = {s[i] : i \in DOMAIN s}
  OBVIOUS
<1>1. s \in Seq(S)
  BY DEF IsList
<1>2. Len(s) \in Nat /\ DOMAIN s = 1..Len(s)
  BY <1>1
<1> QED
  BY <1>1, <1>2, EmptySeq

\* What is a list of any set is one of its own elements.
LEMMA ListOf ==
  ASSUME NEW S, NEW s \in Seq(S)
  PROVE  IsList(s)
<1> DEFINE T == {s[i] : i \in DOMAIN s}
<1>1. Len(s) \in Nat /\ DOMAIN s = 1..Len(s) /\ s = [i \in 1..Len(s) |-> s[i]]
  OBVIOUS
<1>2. \A i \in 1..Len(s) : s[i] \in T
  BY <1>1
<1> HIDE DEF T
<1>3. s \in Seq(T)
  BY <1>1, <1>2
<1> QED
  BY <1>3 DEF IsList, T

LEMMA AppendList ==
  ASSUME NEW s, IsList(s), NEW e
  PROVE  /\ IsList(Append(s, e)) /\ Len(Append(s, e)) = Len(s) + 1
         /\ \A i \in 1..Len(s) : Append(s, e)[i] = s[i]
         /\ Append(s, e)[Len(s) + 1] = e
         /\ Append(s, e) # <<>>
<1> PICK S : S = {s[i] : i \in DOMAIN s} \cup {e}
  OBVIOUS
<1>1. Len(s) \in Nat /\ DOMAIN s = 1..Len(s) /\ s \in Seq({s[i] : i \in DOMAIN s})
  BY ListFacts DEF IsList
<1>2. s \in Seq(S) /\ e \in S
  BY <1>1
<1>3. /\ Append(s, e) \in Seq(S) /\ Len(Append(s, e)) = Len(s) + 1
      /\ \A i \in 1..Len(s) : Append(s, e)[i] = s[i]
      /\ Append(s, e)[Len(s) + 1] = e
  BY <1>2
<1>4. IsList(Append(s, e))
  BY <1>3, ListOf
<1> QED
  BY <1>1, <1>3, <1>4, ListFacts

LEMMA PredList ==
  ASSUME NEW s, IsList(s), s # <<>>
  PROVE  /\ IsList(Pred(s)) /\ Len(Pred(s)) = Len(s) - 1
         /\ \A i \in 1..Len(s) - 1 : Pred(s)[i] = s[i]
<1> PICK S : S = {s[i] : i \in DOMAIN s}
  OBVIOUS
<1>1. Len(s) \in Nat /\ Len(s) > 0 /\ s \in Seq(S)
  BY ListFacts DEF IsList
<1> PICK n : n = Len(s) - 1
  OBVIOUS
<1>2. SubSeq(s, 1, n) \in Seq(S) /\ Len(SubSeq(s, 1, n)) = n
      /\ \A i \in 1..n : SubSeq(s, 1, n)[i] = s[i]
  BY <1>1
<1>3. Pred(s) = SubSeq(s, 1, n)
  BY DEF Pred
<1>4. IsList(Pred(s))
  BY <1>2, <1>3, ListOf
<1> QED
  BY <1>1, <1>2, <1>3, <1>4

With(s, i, e) == [s EXCEPT ![i] = e]

LEMMA WithList ==
  ASSUME NEW s, IsList(s), NEW i \in 1..Len(s), NEW e
  PROVE  /\ IsList(With(s, i, e)) /\ Len(With(s, i, e)) = Len(s)
         /\ With(s, i, e)[i] = e
         /\ \A j \in 1..Len(s) : j # i => With(s, i, e)[j] = s[j]
<1> PICK t : t = With(s, i, e)
  OBVIOUS
<1> PICK S : S = {s[j] : j \in DOMAIN s} \cup {e}
  OBVIOUS
<1>1. Len(s) \in Nat /\ DOMAIN s = 1..Len(s) /\ s \in Seq({s[j] : j \in DOMAIN s})
  BY ListFacts DEF IsList
<1>2. s \in Seq(S) /\ e \in S
  BY <1>1
<1>3. /\ t \in Seq(S) /\ Len(t) = Len(s)
      /\ t[i] = e
      /\ \A j \in 1..Len(s) : j # i => t[j] = s[j]
  BY <1>1, <1>2 DEF With
<1>4. IsList(t)
  BY <1>3, ListOf
<1> QED
  BY <1>3, <1>4

LEMMA TwoMore ==
  ASSUME NEW s, IsList(s), NEW a, NEW b
  PROVE  s \o <<a, b>> = Append(Append(s, a), b)
<1> PICK S : S = {s[i] : i \in DOMAIN s} \cup {a, b}
  OBVIOUS
<1>1. s \in Seq(S) /\ a \in S /\ b \in S
  <2>1. s \in Seq({s[i] : i \in DOMAIN s}) /\ Len(s) \in Nat /\ DOMAIN s = 1..Len(s)
    BY ListFacts DEF IsList
  <2> QED
    BY <2>1
<1> QED
  BY <1>1

\* A list cut at its length or beyond by Upto, or at its length, is itself.
LEMMA WholeList ==
  ASSUME NEW s, IsList(s), NEW n \in Nat, n >= Len(s)
  PROVE  Upto(s, n) = s /\ (n = Len(s) => SubSeq(s, 1, n) = s)
<1> PICK S : S = {s[i] : i \in DOMAIN s}
  OBVIOUS
<1>1. Len(s) \in Nat /\ s \in Seq(S)
  BY ListFacts DEF IsList
<1>2. SubSeq(s, 1, Len(s)) = s
  BY <1>1
<1>3. Upto(s, n) = SubSeq(s, 1, Len(s))
  BY <1>1 DEF Upto
<1> QED
  BY <1>2, <1>3

-----------------------------------------------------------------------------
(* Frames and their stretches of vm.defers.                                  *)

LEMMA TopFrame ==
  ASSUME NEW fs, NEW m, Stretched(fs, m), fs # <<>>
  PROVE  /\ Len(fs) \in Nat /\ Len(fs) > 0 /\ IsList(fs)
         /\ DOMAIN fs[Len(fs)] = FrameFields
         /\ fs[Len(fs)].deferBase \in 0..m
BY ListFacts DEF Stretched

LEMMA StretchedAt ==
  ASSUME NEW fs, NEW m \in Nat, Stretched(fs, m), fs # <<>>, NEW f,
         DOMAIN f = FrameFields, f.deferBase = fs[Len(fs)].deferBase
  PROVE  Stretched([fs EXCEPT ![Len(fs)] = f], m)
<1> PICK n, gs : n = Len(fs) /\ gs = [fs EXCEPT ![Len(fs)] = f]
  OBVIOUS
<1>1. n \in Nat /\ n > 0 /\ IsList(fs) /\ n \in 1..Len(fs)
  BY TopFrame
<1>2. IsList(gs) /\ Len(gs) = n /\ gs[n] = f /\ \A j \in 1..n : j # n => gs[j] = fs[j]
  <2>1. gs = With(fs, n, f)
    BY DEF With
  <2>2. IsList(fs) /\ n \in 1..Len(fs) /\ Len(fs) = n
    BY <1>1
  <2>3. /\ IsList(With(fs, n, f)) /\ Len(With(fs, n, f)) = n /\ With(fs, n, f)[n] = f
        /\ \A j \in 1..n : j # n => With(fs, n, f)[j] = fs[j]
    BY ONLY <2>2, WithList
  <2> QED
    BY ONLY <2>1, <2>3
<1>3. gs # <<>>
  BY <1>1, <1>2, ListFacts
<1>4. \A j \in 1..n : DOMAIN gs[j] = FrameFields /\ gs[j].deferBase = fs[j].deferBase
  BY <1>1, <1>2 DEF Stretched
<1>5. \A i \in 1..n : gs[i].deferBase \in 0..m /\ \A j \in 1..i : gs[j].deferBase <= gs[i].deferBase
  BY <1>1, <1>4 DEF Stretched
<1>6. gs[1].deferBase = 0
  BY <1>1, <1>4 DEF Stretched
<1>7. Stretched(gs, m)
  BY <1>1, <1>2, <1>3, <1>4, <1>5, <1>6 DEF Stretched
<1> QED
  BY <1>7

LEMMA StretchedMore ==
  ASSUME NEW fs, NEW m \in Nat, Stretched(fs, m), NEW f,
         DOMAIN f = FrameFields, f.deferBase = m
  PROVE  Stretched(Append(fs, f), m)
<1> PICK n, gs : n = Len(fs) /\ gs = Append(fs, f)
  OBVIOUS
<1>1. n \in Nat /\ IsList(fs) /\ (fs = <<>> <=> n = 0)
  BY ListFacts DEF Stretched
<1>2. /\ IsList(gs) /\ Len(gs) = n + 1 /\ gs # <<>>
      /\ \A j \in 1..n : gs[j] = fs[j]
      /\ gs[n + 1] = f
  BY <1>1, AppendList
<1>3. \A i \in 1..n + 1 : i \in 1..n \/ i = n + 1
  BY <1>1
<1>4. ASSUME NEW i \in 1..n + 1
      PROVE  DOMAIN gs[i] = FrameFields /\ gs[i].deferBase \in 0..m
  BY <1>1, <1>2, <1>3 DEF Stretched
<1>5. ASSUME NEW i \in 1..n + 1, NEW j \in 1..i
      PROVE  gs[j].deferBase <= gs[i].deferBase
  <2>1. CASE i = n + 1
    <3>1. j \in 1..n + 1
      BY <1>1
    <3> QED
      BY <1>2, <1>4, <2>1, <3>1
  <2>2. CASE i \in 1..n
    BY <1>1, <1>2, <2>2 DEF Stretched
  <2> QED
    BY <1>3, <2>1, <2>2
<1>6. gs[1].deferBase = 0
  BY <1>1, <1>2 DEF Stretched
<1>7. Stretched(gs, m)
  BY <1>1, <1>2, <1>4, <1>5, <1>6 DEF Stretched
<1> QED
  BY <1>7

LEMMA StretchedLess ==
  ASSUME NEW fs, NEW m \in Nat, Stretched(fs, m), fs # <<>>, ~ (m > fs[Len(fs)].deferBase)
  PROVE  Stretched(Pred(fs), m)
<1> PICK n, gs : n = Len(fs) /\ gs = Pred(fs)
  OBVIOUS
<1>1. n \in Nat /\ n > 0 /\ IsList(fs) /\ fs[n].deferBase = m
  BY TopFrame
<1>2. IsList(gs) /\ Len(gs) = n - 1 /\ \A j \in 1..n - 1 : gs[j] = fs[j]
  BY <1>1, PredList
<1>3. gs = <<>> <=> n = 1
  BY <1>1, <1>2, ListFacts
<1>4. \A i \in 1..n - 1 : i \in 1..n /\ 1..i \subseteq 1..n - 1
  BY <1>1
<1>5. \A i \in 1..n - 1 :
         /\ DOMAIN gs[i] = FrameFields /\ gs[i].deferBase \in 0..m
         /\ \A j \in 1..i : gs[j].deferBase <= gs[i].deferBase
  BY <1>1, <1>2, <1>4 DEF Stretched
<1>6. IF gs = <<>> THEN m = 0 ELSE gs[1].deferBase = 0
  <2>1. fs[1].deferBase = 0
    BY DEF Stretched
  <2>2. n # 1 => 1 \in 1..n - 1
    BY <1>1
  <2> QED
    BY <1>1, <1>2, <1>3, <2>1, <2>2
<1>7. Stretched(gs, m)
  BY <1>1, <1>2, <1>5, <1>6 DEF Stretched
<1> QED
  BY <1>7

LEMMA StretchedTo ==
  ASSUME NEW fs, NEW m \in Nat, Stretched(fs, m), fs # <<>>,
         NEW n \in Nat, n >= fs[Len(fs)].deferBase
  PROVE  Stretched(fs, n)
<1>1. Len(fs) \in Nat /\ Len(fs) > 0
  BY TopFrame
<1>2. \A i \in 1..Len(fs) : fs[i].deferBase <= fs[Len(fs)].deferBase
  BY <1>1 DEF Stretched
<1>3. \A i \in 1..Len(fs) : fs[i].deferBase \in 0..n
  BY <1>1, <1>2 DEF Stretched
<1> QED
  BY <1>3 DEF Stretched

-----------------------------------------------------------------------------
(* The C stack.                                                              *)

LEMMA TopActivation ==
  ASSUME NEW cs, NEW n, NEW do, Stacked(cs, n, do), do \in {"run", "unwind", "defers"}
  PROVE  /\ cs # <<>> /\ IsList(cs) /\ Len(cs) \in Nat /\ Len(cs) > 0
         /\ cs[Len(cs)].k = IF do = "defers" THEN "defers" ELSE "run"
         /\ do # "defers" => cs[Len(cs)].base \in 0..n
BY ListFacts DEF Stacked, Suits

\* In a run some frame is left, in one that is being unwound perhaps none.
LEMMA RunHasFrames ==
  ASSUME NEW cs, NEW n \in Nat, NEW do, Stacked(cs, n, do)
  PROVE  /\ do = "run" => cs[Len(cs)].base < n
         /\ do = "defers" => n > 0
<1>1. CASE do = "run"
  <2>1. cs[Len(cs)].base \in 0..n /\ cs[Len(cs)].base # n
    <3>1. Len(cs) \in 1..Len(cs) /\ cs[Len(cs)].k = "run"
      BY <1>1, TopActivation
    <3> QED
      BY <1>1, <3>1 DEF Stacked
  <2> QED
    BY <1>1, <2>1
<1>2. CASE do = "defers"
  <2>1. cs[1].k = "run" /\ cs[1].base = 0 /\ cs[1].base # n
    BY <1>2, TopActivation DEF Stacked
  <2> QED
    BY <1>2, <2>1
<1> QED
  BY <1>1, <1>2

LEMMA StackedAt ==
  ASSUME NEW cs, NEW n \in Nat, NEW do, NEW m \in Nat, NEW to, Stacked(cs, n, do),
         do \in {"run", "unwind"}, to \in {"run", "unwind"},
         m >= cs[Len(cs)].base, to = "run" => m > cs[Len(cs)].base
  PROVE  Stacked(cs, m, to)
<1> PICK z : z = Len(cs)
  OBVIOUS
<1>1. z \in Nat /\ z > 0 /\ cs # <<>> /\ cs[z].k = "run" /\ cs[z].base \in 0..n
  BY TopActivation
<1>2. ASSUME NEW j \in 1..z, cs[j].k = "run"
      PROVE  /\ cs[j].base \in 0..m
             /\ cs[j].base = m => j = z /\ to = "unwind"
             /\ \A i \in 1..j - 1 : cs[i].k = "run" => cs[i].base < cs[j].base
  <2>1. cs[j].base \in 0..n
    BY <1>2 DEF Stacked
  <2>2. CASE j = z
    BY <1>1, <1>2, <2>1, <2>2 DEF Stacked
  <2>3. CASE j # z
    <3>1. j \in 1..z - 1 /\ z \in 1..z
      BY <1>1, <2>3
    <3>2. cs[j].base < cs[z].base
      BY <1>1, <1>2, <3>1 DEF Stacked
    <3>3. cs[j].base < m
      BY <1>1, <2>1, <3>2
    <3> QED
      BY <1>2, <2>1, <3>3 DEF Stacked
  <2> QED
    BY <2>2, <2>3
<1> QED
  BY <1>1, <1>2 DEF Stacked, Suits

\* A native, the defers of a frame or one block of them on top.
LEMMA StackedMore ==
  ASSUME NEW cs, NEW n \in Nat, NEW do \in {"run", "defers"}, NEW a, Stacked(cs, n, do),
         "k" \in DOMAIN a, a.k # "run", Nests(cs[Len(cs)].k, a.k),
         NEW to, Suits(to, a.k)
  PROVE  Stacked(Append(cs, a), n, to)
<1> PICK z, ds : z = Len(cs) /\ ds = Append(cs, a)
  OBVIOUS
<1>1. z \in Nat /\ z > 0 /\ IsList(cs) /\ cs # <<>>
  BY TopActivation
<1>2. /\ IsList(ds) /\ Len(ds) = z + 1 /\ ds # <<>>
      /\ \A j \in 1..z : ds[j] = cs[j]
      /\ ds[z + 1] = a
  BY <1>1, AppendList
<1>3. ASSUME NEW j \in 1..z
      PROVE  /\ "k" \in DOMAIN ds[j]
             /\ IF j = 1 THEN ds[1].k = "run" /\ ds[1].base = 0
                         ELSE Nests(ds[j - 1].k, ds[j].k)
             /\ ds[j].k = "run" =>
                  /\ ds[j].base \in 0..n /\ ds[j].base # n
                  /\ \A i \in 1..j - 1 : ds[i].k = "run" => ds[i].base < ds[j].base
  <2>1. ds[j] = cs[j] /\ \A i \in 1..j - 1 : ds[i] = cs[i]
    BY <1>1, <1>2
  <2>2. j # 1 => ds[j - 1] = cs[j - 1]
    BY <1>1, <1>2
  <2>3. ds[1] = cs[1]
    BY <1>1, <1>2
  <2>4. cs[j].k = "run" => cs[j].base # n
    BY <1>1 DEF Stacked
  <2> QED
    BY <1>1, <2>1, <2>2, <2>3, <2>4 DEF Stacked
<1>4. Nests(ds[z].k, ds[z + 1].k) /\ "k" \in DOMAIN ds[z + 1] /\ ds[z + 1].k # "run"
  BY <1>1, <1>2
<1>5. Suits(to, ds[z + 1].k)
  BY <1>2
<1>6. \A j \in 1..z + 1 : j \in 1..z \/ (j = z + 1 /\ j # 1 /\ j - 1 = z)
  BY <1>1
<1>7. ASSUME NEW j \in 1..z + 1
      PROVE  /\ "k" \in DOMAIN ds[j]
             /\ IF j = 1 THEN ds[1].k = "run" /\ ds[1].base = 0
                         ELSE Nests(ds[j - 1].k, ds[j].k)
             /\ ds[j].k = "run" =>
                  /\ ds[j].base \in 0..n /\ ds[j].base # n
                  /\ \A i \in 1..j - 1 : ds[i].k = "run" => ds[i].base < ds[j].base
  <2>1. CASE j \in 1..z
    BY <1>3, <2>1
  <2>2. CASE j = z + 1 /\ j # 1 /\ j - 1 = z
    BY <1>4, <2>2
  <2> QED
    BY <1>6, <2>1, <2>2
<1>8. Stacked(ds, n, to)
  BY <1>2, <1>5, <1>7 DEF Stacked
<1> QED
  BY <1>8

\* The run a native or a deferred block starts.
LEMMA StackedRun ==
  ASSUME NEW cs, NEW n \in Nat, Stacked(cs, n, "returned"), cs # <<>>
  PROVE  Stacked(Append(cs, [k |-> "run", base |-> n]), n + 1, "run")
<1> PICK a : a = [k |-> "run", base |-> n]
  OBVIOUS
<1> PICK z, ds : z = Len(cs) /\ ds = Append(cs, a)
  OBVIOUS
<1>1. z \in Nat /\ z > 0 /\ IsList(cs) /\ cs[z].k \in {"native", "deferred"}
  BY ListFacts DEF Stacked, Suits
<1>2. /\ IsList(ds) /\ Len(ds) = z + 1 /\ ds # <<>>
      /\ \A j \in 1..z : ds[j] = cs[j]
      /\ ds[z + 1] = a
  BY <1>1, AppendList
<1>3. ASSUME NEW j \in 1..z
      PROVE  /\ "k" \in DOMAIN ds[j]
             /\ IF j = 1 THEN ds[1].k = "run" /\ ds[1].base = 0
                         ELSE Nests(ds[j - 1].k, ds[j].k)
             /\ ds[j].k = "run" =>
                  /\ ds[j].base \in 0..n /\ ds[j].base # n
                  /\ \A i \in 1..j - 1 : ds[i].k = "run" => ds[i].base < ds[j].base
  <2>1. ds[j] = cs[j] /\ \A i \in 1..j - 1 : ds[i] = cs[i]
    BY <1>1, <1>2
  <2>2. j # 1 => ds[j - 1] = cs[j - 1]
    BY <1>1, <1>2
  <2>3. ds[1] = cs[1]
    BY <1>1, <1>2
  <2>4. cs[j].k = "run" => cs[j].base # n
    BY <1>1 DEF Stacked
  <2> QED
    BY <1>1, <2>1, <2>2, <2>3, <2>4 DEF Stacked
<1>4. Nests(ds[z].k, "run") /\ "k" \in DOMAIN a /\ a.k = "run" /\ a.base = n
  BY <1>1, <1>2 DEF Nests
<1>5. \A j \in 1..z : ds[j].k = "run" =>
        ds[j].base < n /\ ds[j].base \in 0..n + 1 /\ ds[j].base # n + 1
  BY <1>3
<1>6. ASSUME NEW j \in 1..z + 1
      PROVE  /\ "k" \in DOMAIN ds[j]
             /\ IF j = 1 THEN ds[1].k = "run" /\ ds[1].base = 0
                         ELSE Nests(ds[j - 1].k, ds[j].k)
             /\ ds[j].k = "run" =>
                  /\ ds[j].base \in 0..n + 1 /\ ds[j].base # n + 1
                  /\ \A i \in 1..j - 1 : ds[i].k = "run" => ds[i].base < ds[j].base
  <2>1. CASE j \in 1..z
    BY <1>3, <1>5, <2>1
  <2>2. CASE j = z + 1
    <3>1. j # 1 /\ j - 1 = z /\ ds[j] = a
      BY <1>1, <1>2, <2>2
    <3>2. n \in 0..n + 1 /\ n # n + 1
      OBVIOUS
    <3> QED
      BY <1>4, <1>5, <3>1, <3>2
  <2> QED
    BY <1>1, <2>1, <2>2
<1>7. Suits("run", ds[z + 1].k)
  BY <1>2, <1>4 DEF Suits
<1>8. Stacked(ds, n + 1, "run")
  BY <1>2, <1>6, <1>7 DEF Stacked
<1> QED
  BY <1>8

\* What is above the activation that ends is below the next.
LEMMA StackedLess ==
  ASSUME NEW cs, NEW n \in Nat, NEW do, Stacked(cs, n, do), cs # <<>>,
         do = "unwind" => cs[Len(cs)].base = n,
         do # "run",
         NEW to, to = IF do = "unwind" THEN "returned"
                      ELSE IF cs[Len(cs)].k = "deferred" THEN "defers" ELSE "run"
  PROVE  Stacked(Pred(cs), n, to)
<1> PICK z, ds : z = Len(cs) /\ ds = Pred(cs)
  OBVIOUS
<1>1. z \in Nat /\ z > 0 /\ IsList(cs) /\ z \in 1..Len(cs)
  BY ListFacts DEF Stacked
<1>2. IsList(ds) /\ Len(ds) = z - 1 /\ \A j \in 1..z - 1 : ds[j] = cs[j]
  BY <1>1, PredList
<1>3. ds = <<>> <=> z = 1
  BY <1>1, <1>2, ListFacts
<1>4. Suits(do, cs[z].k) /\ (do = "unwind" => cs[z].base = n)
  BY DEF Stacked
<1>5. ASSUME NEW j \in 1..z - 1
      PROVE  /\ "k" \in DOMAIN ds[j]
             /\ IF j = 1 THEN ds[1].k = "run" /\ ds[1].base = 0
                         ELSE Nests(ds[j - 1].k, ds[j].k)
             /\ ds[j].k = "run" =>
                  /\ ds[j].base \in 0..n /\ ds[j].base # n
                  /\ \A i \in 1..j - 1 : ds[i].k = "run" => ds[i].base < ds[j].base
  <2>1. ds[j] = cs[j] /\ \A i \in 1..j - 1 : ds[i] = cs[i]
    BY <1>1, <1>2
  <2>2. j # 1 => ds[j - 1] = cs[j - 1]
    BY <1>1, <1>2
  <2>3. ds[1] = cs[1] /\ j \in 1..Len(cs) /\ j # Len(cs)
    BY <1>1, <1>2
  <2>4. cs[j].k = "run" => cs[j].base # n
    BY <1>1, <2>3 DEF Stacked
  <2> QED
    BY <1>1, <2>1, <2>2, <2>3, <2>4 DEF Stacked
<1>6. CASE z = 1
  <2>1. cs[1].k = "run" /\ cs[1].base = 0
    BY <1>1 DEF Stacked
  <2>2. do = "unwind"
    BY <1>4, <1>6, <2>1 DEF Suits
  <2>3. ds = <<>> /\ n = 0 /\ to = "returned"
    BY <1>3, <1>4, <1>6, <2>1, <2>2
  <2> QED
    BY <1>2, <1>5, <2>3 DEF Stacked
<1>7. CASE z # 1
  <2>1. ds # <<>> /\ Len(ds) = z - 1 /\ ds[z - 1] = cs[z - 1] /\ Nests(cs[z - 1].k, cs[z].k)
    BY <1>1, <1>2, <1>3, <1>7 DEF Stacked
  <2>2. Suits(to, cs[z - 1].k)
    BY <1>4, <2>1 DEF Suits, Nests
  <2> QED
    BY <1>2, <1>5, <2>1, <2>2 DEF Stacked
<1> QED
  BY <1>6, <1>7

\* An activation takes note of a failure.
LEMMA StackedNote ==
  ASSUME NEW cs, NEW n \in Nat, Stacked(cs, n, "defers"), NEW a,
         "k" \in DOMAIN a, a.k = "defers"
  PROVE  Stacked(With(cs, Len(cs), a), n, "defers")
<1> PICK z, ds : z = Len(cs) /\ ds = With(cs, z, a)
  OBVIOUS
<1>1. z \in Nat /\ z > 0 /\ IsList(cs) /\ cs[z].k = "defers" /\ z \in 1..Len(cs)
  BY TopActivation
<1>2. IsList(ds) /\ Len(ds) = z /\ ds[z] = a /\ \A j \in 1..z : j # z => ds[j] = cs[j]
  BY <1>1, WithList
<1>3. ds # <<>>
  BY <1>1, <1>2, ListFacts
<1>4. \A j \in 1..z : "k" \in DOMAIN ds[j] /\ ds[j].k = cs[j].k
  BY <1>1, <1>2 DEF Stacked
<1>5. \A j \in 1..z : cs[j].k = "run" => ds[j] = cs[j]
  BY <1>1, <1>2
<1>6. ASSUME NEW j \in 1..z
      PROVE  /\ "k" \in DOMAIN ds[j]
             /\ IF j = 1 THEN ds[1].k = "run" /\ ds[1].base = 0
                         ELSE Nests(ds[j - 1].k, ds[j].k)
             /\ ds[j].k = "run" =>
                  /\ ds[j].base \in 0..n /\ ds[j].base # n
                  /\ \A i \in 1..j - 1 : ds[i].k = "run" => ds[i].base < ds[j].base
  <2>1. j # 1 => ds[j - 1].k = cs[j - 1].k
    BY <1>1, <1>4
  <2>2. cs[1].k = "run" /\ cs[1].base = 0
    BY <1>1 DEF Stacked
  <2>3. ds[1] = cs[1]
    BY <1>1, <1>5, <2>2
  <2>4. \A i \in 1..j - 1 : i \in 1..z
    BY <1>1
  <2>5. cs[j].k = "run" =>
          /\ cs[j].base \in 0..n /\ cs[j].base # n
          /\ \A i \in 1..j - 1 : cs[i].k = "run" => cs[i].base < cs[j].base
    BY <1>1 DEF Stacked
  <2>6. j # 1 => Nests(cs[j - 1].k, cs[j].k)
    BY <1>1 DEF Stacked
  <2> QED
    BY <1>4, <1>5, <2>1, <2>2, <2>3, <2>4, <2>5, <2>6
<1>7. Suits("defers", ds[z].k)
  BY <1>2 DEF Suits
<1>8. Stacked(ds, n, "defers")
  BY <1>2, <1>3, <1>6, <1>7 DEF Stacked
<1> QED
  BY <1>8

-----------------------------------------------------------------------------
(* DefersOnce.                                                               *)

LEMMA InFrame ==
  ASSUME DefersInv, ctl.do \in {"run", "defers"} \/ Unwinding
  PROVE  /\ frames # <<>> /\ Len(frames) \in Nat /\ Len(frames) > 0 /\ IsList(frames)
         /\ DOMAIN Frame = FrameFields /\ Frame.deferBase \in 0..Len(defers)
         /\ Len(defers) \in Nat /\ IsList(defers)
         /\ ctl.do # "defers" => RunBase \in Nat /\ RunBase < Len(frames)
<1>1. IsList(frames) /\ Len(frames) \in Nat /\ Len(defers) \in Nat /\ IsList(defers)
  BY ListFacts DEF DefersInv, FramesOK, IdsOK, Stretched
<1>2. CASE ctl.do \in {"run", "defers"}
  <2>1. /\ ctl.do = "run" => cstack[Len(cstack)].base < Len(frames)
        /\ ctl.do = "defers" => Len(frames) > 0
    BY <1>1, RunHasFrames DEF DefersInv, CStackOK
  <2>2. ctl.do = "run" => cstack[Len(cstack)].base \in Nat
    BY <1>1, TopActivation DEF DefersInv, CStackOK
  <2>3. Len(frames) > 0
    BY <1>1, <1>2, <2>1, <2>2
  <2> QED
    BY <1>1, <1>2, <2>1, <2>2, <2>3, TopFrame, ListFacts DEF DefersInv, FramesOK, Frame, RunBase
<1>3. CASE Unwinding
  <2>1. RunBase \in Nat /\ RunBase < Len(frames)
    BY <1>1, <1>3, TopActivation DEF DefersInv, CStackOK, Unwinding, RunBase
  <2>2. Len(frames) > 0
    BY <1>1, <2>1
  <2> QED
    BY <1>1, <2>1, <2>2, TopFrame, ListFacts DEF DefersInv, FramesOK, Frame
<1> QED
  BY <1>2, <1>3

LEMMA GotoFacts ==
  ASSUME DefersInv, frames # <<>>, NEW pc, Goto(pc)
  PROVE  /\ Stretched(frames', Len(defers)) /\ Len(frames') = Len(frames) /\ IsList(frames')
         /\ frames'[Len(frames)] = [Frame EXCEPT !.pc = pc]
<1>1. /\ IsList(frames) /\ Len(frames) \in Nat /\ Len(frames) > 0 /\ Len(frames) \in 1..Len(frames)
      /\ DOMAIN Frame = FrameFields /\ Len(defers) \in Nat
  BY TopFrame, ListFacts DEF DefersInv, FramesOK, IdsOK, Frame
<1> PICK n, fs, f : n = Len(frames) /\ fs = frames /\ f = [Frame EXCEPT !.pc = pc]
  OBVIOUS
<1>2. DOMAIN f = FrameFields /\ f.deferBase = Frame.deferBase
  BY <1>1 DEF FrameFields
<1>3. frames' = [fs EXCEPT ![Len(fs)] = f] /\ frames' = With(fs, n, f)
  BY DEF Goto, Frame, With
<1>4. Stretched([fs EXCEPT ![Len(fs)] = f], Len(defers))
  <2>1. PICK m : m = Len(defers)
    OBVIOUS
  <2>2. Stretched(fs, m) /\ fs # <<>> /\ f.deferBase = fs[Len(fs)].deferBase /\ m \in Nat
    BY <1>1, <1>2, <2>1 DEF DefersInv, FramesOK, Frame
  <2> QED
    BY <1>2, <2>1, <2>2, StretchedAt
<1>5. IsList(With(fs, n, f)) /\ Len(With(fs, n, f)) = n /\ With(fs, n, f)[n] = f
  BY <1>1, WithList
<1> QED
  BY <1>3, <1>4, <1>5

LEMMA Quiet ==
  ASSUME DefersInv, ctl.do = "run" \/ Unwinding, ctl'.do \in {"run", "unwind"},
         UNCHANGED <<cstack, defers, registered, ran>>,
         Stretched(frames', Len(defers)), Len(frames') >= RunBase,
         ctl'.do = "run" => Len(frames') > RunBase
  PROVE  DefersInv'
<1>1. FramesOK'
  BY DEF FramesOK
<1>2. IdsOK'
  BY DEF DefersInv, IdsOK
<1>3. CStackOK'
  <2>1. PICK n, m, do, to : n = Len(frames) /\ m = Len(frames') /\ do = ctl.do /\ to = ctl'.do
    OBVIOUS
  <2>2. n \in Nat /\ m \in Nat
    BY <2>1, InFrame, ListFacts DEF Stretched
  <2>3. do \in {"run", "unwind"} /\ to \in {"run", "unwind"}
    BY <2>1 DEF Unwinding
  <2>4. Stacked(cstack, n, do)
    BY <2>1 DEF DefersInv, CStackOK
  <2>5. PICK cs : cs = cstack
    OBVIOUS
  <2>6. m >= cs[Len(cs)].base /\ (to = "run" => m > cs[Len(cs)].base)
    BY <2>1, <2>5 DEF RunBase
  <2>7. Stacked(cs, m, to)
    BY <2>2, <2>3, <2>4, <2>5, <2>6, StackedAt
  <2> QED
    BY <2>1, <2>5, <2>7 DEF CStackOK
<1> QED
  BY <1>1, <1>2, <1>3 DEF DefersInv

\* A step within a frame.
LEMMA QuietGoto ==
  ASSUME DefersInv, ctl.do = "run" \/ Unwinding, \E pc : Goto(pc),
         UNCHANGED <<cstack, defers, registered, ran>>,
         ctl'.do \in {"run", "unwind"}
  PROVE  DefersInv'
<1>1. PICK pc : Goto(pc)
  OBVIOUS
<1>2. Stretched(frames', Len(defers)) /\ Len(frames') = Len(frames)
  BY <1>1, InFrame, GotoFacts
<1>3. RunBase \in Nat /\ RunBase < Len(frames) /\ Len(frames) \in Nat
  BY InFrame DEF Unwinding
<1> QED
  BY <1>2, <1>3, Quiet

\* A frame is pushed, after the caller's program counter moved on.
LEMMA CalledFacts ==
  ASSUME DefersInv, ctl.do = "run", NEW fn, NEW slots, NEW base,
         frames' = Append([frames EXCEPT ![Len(frames)].pc = @ + 1], NewFrame(fn, slots, base))
  PROVE  Stretched(frames', Len(defers)) /\ Len(frames') = Len(frames) + 1
<1>1. frames # <<>> /\ IsList(frames) /\ Len(frames) \in Nat /\ Len(frames) \in 1..Len(frames)
      /\ DOMAIN Frame = FrameFields /\ Len(defers) \in Nat /\ Stretched(frames, Len(defers))
  BY InFrame DEF DefersInv, FramesOK
<1> PICK fs, n, m, f, g, gs :
      /\ fs = frames /\ n = Len(frames) /\ m = Len(defers)
      /\ f = [Frame EXCEPT !.pc = @ + 1] /\ g = NewFrame(fn, slots, base)
      /\ gs = [fs EXCEPT ![n] = f]
  OBVIOUS
<1>2. frames' = Append(gs, g)
  BY DEF Frame
<1>3. DOMAIN f = FrameFields /\ f.deferBase = fs[Len(fs)].deferBase
  BY <1>1 DEF FrameFields, Frame
<1>4. DOMAIN g = FrameFields /\ g.deferBase = m
  BY DEF NewFrame, FrameFields
<1>5. Stretched(gs, m)
  <2>1. Stretched([fs EXCEPT ![Len(fs)] = f], m)
    BY <1>1, <1>3, StretchedAt
  <2> QED
    BY <2>1
<1>6. Stretched(Append(gs, g), m)
  BY <1>1, <1>4, <1>5, StretchedMore
<1>7. Len(gs) = n /\ IsList(gs)
  <2>1. gs = With(fs, n, f) /\ IsList(fs) /\ n \in 1..Len(fs) /\ n = Len(fs)
    BY <1>1 DEF With
  <2>2. IsList(With(fs, n, f)) /\ Len(With(fs, n, f)) = Len(fs)
    BY ONLY <2>1, WithList
  <2> QED
    BY <2>1, <2>2
<1>8. Len(Append(gs, g)) = n + 1
  BY <1>7, AppendList
<1> QED
  BY <1>2, <1>6, <1>8

\* A call: of a closure, of a native that calls back, or of neither.
LEMMA InvokeKeeps ==
  ASSUME DefersInv, ctl.do = "run", Invoke, UNCHANGED <<defers, registered, ran>>
  PROVE  DefersInv'
<1>1. RunBase \in Nat /\ RunBase < Len(frames) /\ Len(frames) \in Nat
  BY InFrame
<1>2. CASE Peek[1] = "fn" /\ UNCHANGED <<cstack, ctl>>
           /\ EnterCall([frames EXCEPT ![Len(frames)].pc = @ + 1], mem, Peek[2], top - 1)
  <2>1. PICK fn, s : fn = Peek[2] /\ s = top - 1
    OBVIOUS
  <2>2. frames' = Append([frames EXCEPT ![Len(frames)].pc = @ + 1], NewFrame(fn, s, s))
    BY <1>2, <2>1 DEF EnterCall
  <2>3. Stretched(frames', Len(defers)) /\ Len(frames') = Len(frames) + 1
    BY <2>2, CalledFacts
  <2>4. Len(frames') > RunBase /\ Len(frames') >= RunBase
    BY <1>1, <2>3
  <2> QED
    BY <1>2, <2>3, <2>4, Quiet
<1>3. CASE /\ cstack' = cstack \o <<[k |-> "native", base |-> top],
                                    [k |-> "run", base |-> Len(frames)]>>
           /\ UNCHANGED ctl
           /\ \E f, m : EnterCall([frames EXCEPT ![Len(frames)].pc = @ + 1], m, f, top)
  <2>1. PICK f, m, s : s = top /\ EnterCall([frames EXCEPT ![Len(frames)].pc = @ + 1], m, f, s)
    BY <1>3
  <2>2. frames' = Append([frames EXCEPT ![Len(frames)].pc = @ + 1], NewFrame(f, s, s))
    BY <2>1 DEF EnterCall
  <2>3. Stretched(frames', Len(defers)) /\ Len(frames') = Len(frames) + 1
    BY <2>2, CalledFacts
  <2>4. PICK cs, n, a : cs = cstack /\ n = Len(frames) /\ a = [k |-> "native", base |-> top]
    OBVIOUS
  <2>5. Stacked(cs, n, "run") /\ cs[Len(cs)].k = "run" /\ IsList(cs) /\ n \in Nat
    BY <1>1, <2>4, TopActivation DEF DefersInv, CStackOK
  <2>6. "k" \in DOMAIN a /\ a.k = "native" /\ Nests(cs[Len(cs)].k, a.k) /\ Suits("returned", a.k)
    BY <2>4, <2>5 DEF Nests, Suits
  <2>7. Stacked(Append(cs, a), n, "returned")
    BY <2>5, <2>6, StackedMore
  <2>8. Append(cs, a) # <<>>
    BY <2>5, AppendList
  <2>9. Stacked(Append(Append(cs, a), [k |-> "run", base |-> n]), n + 1, "run")
    BY <2>5, <2>7, <2>8, StackedRun
  <2>10. cstack' = Append(Append(cs, a), [k |-> "run", base |-> n])
    BY <1>3, <2>4, <2>5, TwoMore
  <2>11. CStackOK'
    BY <1>3, <2>3, <2>4, <2>9, <2>10 DEF CStackOK
  <2>12. FramesOK' /\ IdsOK'
    BY <2>3 DEF DefersInv, FramesOK, IdsOK
  <2> QED
    BY <2>11, <2>12 DEF DefersInv
<1>4. CASE (\E e : Throw(e)) /\ UNCHANGED cstack
  <2>1. (\E pc : Goto(pc)) /\ ctl'.do = "unwind"
    BY <1>4 DEF Throw, Next1
  <2> QED
    BY <1>4, <2>1, QuietGoto
<1> QED
  BY <1>2, <1>3, <1>4 DEF Invoke

-----------------------------------------------------------------------------
(* One lemma per kind of step.                                               *)

\* The steps that only move the top frame's program counter, for all that
\* DefersInv says: values, jumps, throwing, handlers, and entering a handler.
LEMMA QuietSteps ==
  ASSUME DefersInv,
         \/ Const \/ GetGlobal \/ Pop \/ Mark \/ Show
         \/ Jump \/ JumpIfTrue \/ GetIter \/ ForIter
         \/ ThrowOp \/ Reraise \/ PushHandler \/ PopHandler \/ EndFinally
         \/ MatchExc \/ GetExc \/ EnterDynamic \/ EnterStatic
  PROVE  DefersInv'
<1> DEFINE Quiets == /\ ctl.do = "run" \/ Unwinding
                     /\ \E pc : Goto(pc)
                     /\ UNCHANGED <<cstack, defers, registered, ran>>
                     /\ ctl'.do \in {"run", "unwind"}
<1> USE DEF Running, Next1, Throw, lists, history
<1>1. Const \/ GetGlobal \/ Pop \/ MatchExc \/ GetExc => Quiets
  BY DEF Const, GetGlobal, Pop, MatchExc, GetExc
<1>2. Mark \/ Show \/ Jump => Quiets
  BY DEF Mark, Show, Jump
<1>3. JumpIfTrue \/ GetIter \/ ForIter => Quiets
  BY DEF JumpIfTrue, GetIter, ForIter
<1>4. ThrowOp \/ Reraise \/ EndFinally => Quiets
  BY DEF ThrowOp, Reraise, EndFinally
<1>5. PushHandler \/ PopHandler => Quiets
  BY DEF PushHandler, PopHandler
<1>6. EnterDynamic => Quiets
  <2> SUFFICES ASSUME EnterDynamic PROVE Quiets
    OBVIOUS
  <2>1. \E pc : Goto(pc)
    BY DEF EnterDynamic
  <2> QED
    BY <2>1 DEF EnterDynamic
<1>7. EnterStatic => Quiets
  BY DEF EnterStatic
<1>8. Quiets
  BY <1>1, <1>2, <1>3, <1>4, <1>5, <1>6, <1>7
<1> QED
  BY <1>8, QuietGoto

\* runFrameDefers begins.
LEMMA StartKeeps ==
  ASSUME DefersInv, ctl.do = "run" \/ Unwinding, NEW then, NEW value, StartDefers(then, value),
         (\E pc : Goto(pc)) \/ UNCHANGED frames, UNCHANGED <<defers, registered, ran>>,
         ctl.do = "unwind" => RunBase < Len(frames)
  PROVE  DefersInv'
<1>1. frames # <<>> /\ Len(frames) \in Nat /\ RunBase < Len(frames)
  BY InFrame DEF Unwinding
<1>2. Stretched(frames', Len(defers)) /\ Len(frames') = Len(frames)
  BY <1>1, GotoFacts DEF DefersInv, FramesOK
<1>3. PICK cs, n, a : /\ cs = cstack /\ n = Len(frames)
                      /\ a = [k |-> "defers", had |-> hasException,
                              carried |-> pendingException, then |-> then, value |-> value]
  OBVIOUS
<1>4. Stacked(cs, n, "run") /\ cs[Len(cs)].k = "run" /\ n \in Nat
  <2>1. PICK do : do = ctl.do
    OBVIOUS
  <2>2. Stacked(cs, n, do) /\ do \in {"run", "unwind"} /\ n \in Nat
    BY <1>1, <1>3, <2>1 DEF DefersInv, CStackOK, Unwinding
  <2>3. n > cs[Len(cs)].base /\ n >= cs[Len(cs)].base
    <3>1. cs[Len(cs)].base \in Nat /\ cs[Len(cs)].base < n
      BY <1>1, <1>3, <2>2, TopActivation DEF RunBase
    <3> QED
      BY <2>2, <3>1
  <2>4. Stacked(cs, n, "run")
    BY <2>2, <2>3, StackedAt
  <2> QED
    BY <2>2, <2>4, TopActivation
<1>5. "k" \in DOMAIN a /\ a.k = "defers" /\ Nests(cs[Len(cs)].k, a.k) /\ Suits("defers", a.k)
  BY <1>3, <1>4 DEF Nests, Suits
<1>6. Stacked(Append(cs, a), n, "defers")
  BY <1>4, <1>5, StackedMore
<1>7. CStackOK'
  BY <1>2, <1>3, <1>6 DEF CStackOK, StartDefers
<1>8. FramesOK' /\ IdsOK'
  BY <1>2 DEF DefersInv, FramesOK, IdsOK
<1> QED
  BY <1>7, <1>8 DEF DefersInv

\* A frame none of whose blocks wait: nothing of vm.defers goes with it.
LEMMA NoneOfIts ==
  ASSUME DefersInv, frames # <<>>, ~HasDefers(Frame)
  PROVE  /\ Frame.deferBase = Len(defers)
         /\ Trimmed(defers, Frame.deferBase) = defers
         /\ Upto(defers, Frame.deferBase) = defers
         /\ Stretched(Pred(frames), Len(defers)) /\ Len(Pred(frames)) = Len(frames) - 1
<1> PICK fs, m, ds : fs = frames /\ m = Len(defers) /\ ds = defers
  OBVIOUS
<1>1. m \in Nat /\ IsList(ds) /\ Stretched(fs, m) /\ IsList(fs)
  BY ListFacts DEF DefersInv, IdsOK, FramesOK, Stretched
<1>2. Frame.deferBase \in 0..m /\ ~(m > fs[Len(fs)].deferBase)
  BY <1>1, TopFrame DEF Frame, HasDefers
<1>3. Frame.deferBase = m
  BY <1>1, <1>2 DEF Frame
<1>4. SubSeq(ds, 1, m) = ds /\ Upto(ds, m) = ds
  BY <1>1, WholeList
<1>5. Stretched(Pred(fs), m) /\ Len(Pred(fs)) = Len(fs) - 1
  BY <1>1, <1>2, StretchedLess, PredList
<1> QED
  BY <1>3, <1>4, <1>5 DEF Trimmed

\* A frame is reused: it is another function's, no more.
LEMMA ReuseFacts ==
  ASSUME DefersInv, frames # <<>>, ~HasDefers(Frame), NEW f, ReuseFrame(f)
  PROVE  defers' = defers /\ Stretched(frames', Len(defers)) /\ Len(frames') = Len(frames)
<1>1. /\ IsList(frames) /\ Len(frames) \in Nat /\ Len(frames) \in 1..Len(frames)
      /\ DOMAIN Frame = FrameFields /\ Len(defers) \in Nat
  BY TopFrame, ListFacts DEF DefersInv, FramesOK, IdsOK, Frame
<1> PICK fs, n, m, g, h, gs :
      /\ fs = frames /\ n = Len(frames) /\ m = Len(defers)
      /\ g = [Frame EXCEPT !.fn = f] /\ h = [g EXCEPT !.pc = 1]
      /\ gs = With(fs, n, h)
  OBVIOUS
<1>2. DOMAIN h = FrameFields /\ h.deferBase = Frame.deferBase
  BY <1>1 DEF FrameFields
<1>3. DOMAIN fs = 1..n
  BY <1>1, ListFacts
<1>4. frames' = gs
  <2>1. frames' = [[fs EXCEPT ![n] = g] EXCEPT ![n] = [[fs EXCEPT ![n] = g][n] EXCEPT !.pc = 1]]
    BY DEF ReuseFrame, Frame
  <2>2. [fs EXCEPT ![n] = g][n] = g
    BY <1>1, <1>3
  <2> QED
    BY <1>3, <2>1, <2>2 DEF With
<1>5. Stretched(gs, m)
  <2>1. gs = [fs EXCEPT ![Len(fs)] = h]
    BY DEF With
  <2>2. Stretched(fs, m) /\ fs # <<>> /\ h.deferBase = fs[Len(fs)].deferBase /\ m \in Nat
    BY <1>1, <1>2 DEF DefersInv, FramesOK, Frame
  <2>3. Stretched([fs EXCEPT ![Len(fs)] = h], m)
    BY ONLY <1>2, <2>2, StretchedAt
  <2> QED
    BY <2>1, <2>3
<1>6. Len(gs) = n
  <2>1. IsList(fs) /\ n \in 1..Len(fs) /\ n = Len(fs)
    BY <1>1
  <2> QED
    BY <2>1, WithList
<1> QED
  BY <1>4, <1>5, <1>6, NoneOfIts DEF ReuseFrame

\* A frame is left by a return; the run it was the first frame of ends.
LEMMA ReturnKeeps ==
  ASSUME DefersInv, frames # <<>>, ~HasDefers(Frame), NEW value, NEW cs,
         Stacked(cs, Len(frames), "run"), ReturnWith(value, cs), UNCHANGED <<registered, ran>>
  PROVE  DefersInv'
<1> PICK n, z : n = Len(frames) /\ z = cs[Len(cs)].base
  OBVIOUS
<1>1. n \in Nat /\ n > 0 /\ n - 1 \in Nat /\ z \in Nat /\ z < n
  <2>1. n \in Nat /\ n > 0
    BY TopFrame DEF DefersInv, FramesOK
  <2>2. Stacked(cs, n, "run") /\ z \in 0..n /\ z < n
    BY <2>1, TopActivation, RunHasFrames
  <2> QED
    BY <2>1, <2>2
<1>2. /\ frames' = Pred(frames) /\ Len(frames') = n - 1
      /\ Stretched(frames', Len(defers)) /\ defers' = defers
  BY NoneOfIts DEF ReturnWith, LeaveFrame
<1>3. FramesOK' /\ IdsOK'
  BY <1>2 DEF DefersInv, FramesOK, IdsOK
<1>4. CASE n - 1 <= z /\ cstack' = Pred(cs) /\ ctl'.do = "returned"
  <2>1. n - 1 = z
    BY <1>1, <1>4
  <2>2. PICK m : m = n - 1 /\ m = cs[Len(cs)].base
    BY <2>1
  <2>3. Stacked(cs, m, "unwind")
    <3>1. Stacked(cs, n, "run") /\ m >= cs[Len(cs)].base /\ n \in Nat /\ m \in Nat
      BY <1>1, <2>2
    <3> QED
      BY <3>1, StackedAt
  <2>4. cs # <<>>
    BY <1>1, TopActivation
  <2>5. Stacked(Pred(cs), m, "returned")
    BY <1>1, <2>2, <2>3, <2>4, StackedLess
  <2> QED
    BY <1>2, <1>3, <1>4, <2>2, <2>5 DEF DefersInv, CStackOK
<1>5. CASE n - 1 > z /\ cstack' = cs /\ ctl'.do = "run"
  <2>1. PICK m : m = n - 1
    OBVIOUS
  <2>2. Stacked(cs, n, "run") /\ m >= cs[Len(cs)].base /\ m > cs[Len(cs)].base /\ n \in Nat /\ m \in Nat
    BY <1>1, <1>5, <2>1
  <2>3. Stacked(cs, m, "run")
    BY <2>2, StackedAt
  <2> QED
    BY <1>2, <1>3, <1>5, <2>1, <2>3 DEF DefersInv, CStackOK
<1> QED
  BY <1>2, <1>4, <1>5 DEF ReturnWith

LEMMA TailCallKeeps == DefersInv /\ TailCall => DefersInv'
<1> SUFFICES ASSUME DefersInv, TailCall PROVE DefersInv'
  OBVIOUS
<1>1. ctl.do = "run" /\ UNCHANGED <<registered, ran>> /\ frames # <<>>
  BY InFrame DEF TailCall, Running, history
<1>2. CASE Invoke /\ UNCHANGED lists
  BY <1>1, <1>2, InvokeKeeps DEF lists
<1>3. CASE Next1 /\ StartDefers("tail", Peek) /\ UNCHANGED lists
  BY <1>1, <1>3, StartKeeps DEF Next1, lists
<1>4. CASE ~HasDefers(Frame) /\ ReuseFrame(Peek[2]) /\ UNCHANGED <<cstack, ctl>>
  <2>1. defers' = defers /\ Stretched(frames', Len(defers)) /\ Len(frames') = Len(frames)
    BY <1>1, <1>4, ReuseFacts
  <2>2. Len(frames) > RunBase /\ Len(frames) >= RunBase
    BY <1>1, InFrame
  <2> QED
    BY <1>1, <1>4, <2>1, <2>2, Quiet
<1> QED
  BY <1>2, <1>3, <1>4 DEF TailCall

LEMMA ReturnStepKeeps == DefersInv /\ Return => DefersInv'
<1> SUFFICES ASSUME DefersInv, Return PROVE DefersInv'
  OBVIOUS
<1>1. ctl.do = "run" /\ UNCHANGED <<registered, ran>> /\ frames # <<>>
  BY InFrame DEF Return, history
<1>2. CASE Next1 /\ UNCHANGED lists /\ \E value : StartDefers("return", value)
  BY <1>1, <1>2, StartKeeps DEF Next1, lists
<1>3. CASE ~HasDefers(Frame) /\ \E value : ReturnWith(value, cstack)
  <2>1. Stacked(cstack, Len(frames), "run")
    BY <1>1 DEF DefersInv, CStackOK
  <2>2. PICK value, cs : cs = cstack /\ ReturnWith(value, cs)
    BY <1>3
  <2> QED
    BY <1>1, <1>3, <2>1, <2>2, ReturnKeeps
<1> QED
  BY <1>2, <1>3 DEF Return

LEMMA NativeReturnsKeeps == DefersInv /\ NativeReturns => DefersInv'
<1> SUFFICES ASSUME DefersInv, NativeReturns PROVE DefersInv'
  OBVIOUS
<1> PICK cs, n : cs = cstack /\ n = Len(frames)
  OBVIOUS
<1>1. Stacked(cs, n, "returned") /\ cs # <<>> /\ cs[Len(cs)].k = "native" /\ n \in Nat
  BY ListFacts DEF NativeReturns, DefersInv, CStackOK, FramesOK, Stretched
<1>2. Stacked(Pred(cs), n, "run")
  BY <1>1, StackedLess
<1>3. Stacked(Pred(cs), n, "unwind")
  <2>1. PICK ds : ds = Pred(cs)
    OBVIOUS
  <2>2. ds[Len(ds)].base \in 0..n /\ ds[Len(ds)].base < n
    BY <1>1, <1>2, <2>1, TopActivation, RunHasFrames
  <2>3. Stacked(ds, n, "unwind")
    BY <1>1, <1>2, <2>1, <2>2, StackedAt
  <2> QED
    BY <2>1, <2>3
<1>4. UNCHANGED <<frames, defers, registered, ran>> /\ cstack' = Pred(cs) /\ ctl'.do \in {"run", "unwind"}
  BY DEF NativeReturns, lists, history
<1>5. FramesOK' /\ IdsOK' /\ CStackOK'
  BY <1>2, <1>3, <1>4 DEF DefersInv, FramesOK, IdsOK, CStackOK
<1> QED
  BY <1>5 DEF DefersInv

LEMMA DeferredReturnsKeeps == DefersInv /\ DeferredReturns => DefersInv'
<1> SUFFICES ASSUME DefersInv, DeferredReturns PROVE DefersInv'
  OBVIOUS
<1> PICK cs, n, ds : cs = cstack /\ n = Len(frames) /\ ds = Pred(cs)
  OBVIOUS
<1>1. Stacked(cs, n, "returned") /\ cs # <<>> /\ cs[Len(cs)].k = "deferred" /\ n \in Nat /\ IsList(cs)
  BY ListFacts DEF DeferredReturns, DefersInv, CStackOK, FramesOK, Stretched, Stacked
<1>2. Stacked(ds, n, "defers") /\ Len(ds) = Len(cs) - 1
  BY <1>1, StackedLess, PredList
<1>3. IsList(ds) /\ Len(ds) > 0 /\ Len(ds) \in Nat /\ ds[Len(ds)].k = "defers"
      /\ "k" \in DOMAIN ds[Len(ds)] /\ DOMAIN ds = 1..Len(ds)
  <2>1. IsList(ds) /\ Len(ds) > 0 /\ Len(ds) \in Nat /\ ds[Len(ds)].k = "defers"
    BY <1>1, <1>2, TopActivation
  <2>2. "k" \in DOMAIN ds[Len(ds)]
    BY <1>2, <2>1 DEF Stacked
  <2> QED
    BY <2>1, <2>2, ListFacts
<1>4. UNCHANGED <<frames, defers, registered, ran>> /\ ctl'.do = "defers"
  BY DEF DeferredReturns, lists, history
<1>5. Stacked(cstack', n, "defers")
  <2>1. CASE ctl.ok
    BY <1>2, <2>1 DEF DeferredReturns
  <2>2. CASE ~ctl.ok
    <3>1. PICK z, a, b : /\ z = Len(ds) /\ a = [ds[z] EXCEPT !.had = TRUE]
                         /\ b = [a EXCEPT !.carried = pendingException]
      OBVIOUS
    <3>2. cstack' = [[ds EXCEPT ![z] = a] EXCEPT ![z] = [[ds EXCEPT ![z] = a][z] EXCEPT !.carried = pendingException]]
      BY <1>2, <2>2, <3>1 DEF DeferredReturns
    <3>3. [ds EXCEPT ![z] = a][z] = a
      <4>1. z \in DOMAIN ds
        BY <1>3, <3>1
      <4> QED
        BY ONLY <4>1
    <3>4. cstack' = With(ds, z, b)
      BY <1>3, <3>1, <3>2, <3>3 DEF With
    <3>5. "k" \in DOMAIN b /\ b.k = "defers"
      BY <1>3, <3>1
    <3>6. Stacked(With(ds, Len(ds), b), n, "defers")
      BY <1>1, <1>2, <3>5, StackedNote
    <3> QED
      BY <3>1, <3>4, <3>6
  <2> QED
    BY <2>1, <2>2
<1>6. FramesOK' /\ IdsOK' /\ CStackOK'
  BY <1>4, <1>5 DEF DefersInv, FramesOK, IdsOK, CStackOK
<1> QED
  BY <1>6 DEF DefersInv

LEMMA EscapeKeeps == DefersInv /\ Escape => DefersInv'
<1> SUFFICES ASSUME DefersInv, Escape PROVE DefersInv'
  OBVIOUS
<1> PICK cs, n : cs = cstack /\ n = Len(frames)
  OBVIOUS
<1>1. Stacked(cs, n, "unwind") /\ n \in Nat /\ n <= cs[Len(cs)].base
  BY ListFacts DEF Escape, RunBase, DefersInv, CStackOK, FramesOK, Stretched
<1>2. cs # <<>> /\ cs[Len(cs)].base = n
  <2>1. cs # <<>> /\ cs[Len(cs)].base \in 0..n
    BY <1>1, TopActivation
  <2> QED
    BY <1>1, <2>1
<1>3. Stacked(Pred(cs), n, "returned")
  BY <1>1, <1>2, StackedLess
<1>4. UNCHANGED <<frames, defers, registered, ran>> /\ cstack' = Pred(cs) /\ ctl'.do = "returned"
  BY DEF Escape, core, lists, history
<1>5. FramesOK' /\ IdsOK' /\ CStackOK'
  BY <1>3, <1>4 DEF DefersInv, FramesOK, IdsOK, CStackOK
<1> QED
  BY <1>5 DEF DefersInv

\* All the blocks of a frame have run.
LEMMA DefersDoneKeeps == DefersInv /\ DefersDone => DefersInv'
<1> SUFFICES ASSUME DefersInv, DefersDone PROVE DefersInv'
  OBVIOUS
<1> PICK n, cs : n = Len(frames) /\ cs = Pred(cstack)
  OBVIOUS
<1>1. /\ ctl.do = "defers" /\ ~HasDefers(Frame) /\ frames # <<>> /\ n \in Nat /\ n > 0
      /\ UNCHANGED <<registered, ran>>
  BY InFrame DEF DefersDone, history
<1>2. Stacked(cs, n, "run")
  <2>1. PICK ds : ds = cstack
    OBVIOUS
  <2>2. Stacked(ds, n, "defers") /\ ds # <<>> /\ ds[Len(ds)].k = "defers"
    BY <1>1, <2>1, TopActivation DEF DefersInv, CStackOK
  <2>3. Stacked(Pred(ds), n, "run")
    BY <1>1, <2>2, StackedLess
  <2> QED
    BY <2>1, <2>3
<1>3. cs[Len(cs)].base \in Nat /\ cs[Len(cs)].base < n
  BY <1>1, <1>2, TopActivation, RunHasFrames
<1>4. Stacked(cs, n, "unwind")
  BY <1>1, <1>2, <1>3, StackedAt
<1>5. CASE DiscardFrame /\ cstack' = cs /\ ctl'.do = "unwind"
  <2>1. /\ frames' = Pred(frames) /\ Len(frames') = n - 1
        /\ Stretched(frames', Len(defers)) /\ defers' = defers
    BY <1>1, <1>5, NoneOfIts DEF DiscardFrame
  <2>2. PICK m : m = n - 1
    OBVIOUS
  <2>3. m \in Nat /\ m >= cs[Len(cs)].base
    BY <1>1, <1>3, <2>2
  <2>4. Stacked(cs, m, "unwind")
    BY <1>1, <1>2, <2>3, StackedAt
  <2> QED
    BY <1>1, <1>5, <2>1, <2>2, <2>4 DEF DefersInv, FramesOK, IdsOK, CStackOK
<1>6. CASE cstack' = cs /\ ctl'.do \in {"run", "unwind"} /\ UNCHANGED <<frames, lists>>
  BY <1>1, <1>2, <1>4, <1>6 DEF DefersInv, FramesOK, IdsOK, CStackOK, lists
<1>7. CASE cstack' = cs /\ ctl'.do = "run" /\ \E f : ReuseFrame(f)
  <2>1. defers' = defers /\ Stretched(frames', Len(defers)) /\ Len(frames') = n
    BY <1>1, <1>7, ReuseFacts
  <2> QED
    BY <1>1, <1>2, <1>7, <2>1 DEF DefersInv, FramesOK, IdsOK, CStackOK
<1>8. CASE \E value : ReturnWith(value, cs)
  BY <1>1, <1>2, <1>8, ReturnKeeps
<1> QED
  BY <1>5, <1>6, <1>7, <1>8 DEF DefersDone

\* No handler of the frame takes the exception.
LEMMA UnwindFrameKeeps == DefersInv /\ UnwindFrame => DefersInv'
<1> SUFFICES ASSUME DefersInv, UnwindFrame PROVE DefersInv'
  OBVIOUS
<1>1. Unwinding /\ UNCHANGED <<registered, ran>>
  BY DEF UnwindFrame, history
<1>2. RunBase \in Nat /\ RunBase < Len(frames) /\ Len(frames) \in Nat /\ frames # <<>>
  BY <1>1, InFrame DEF Unwinding
<1>3. CASE HasDefers(Frame) /\ StartDefers("unwind", Null) /\ UNCHANGED <<core, lists>>
  BY <1>1, <1>2, <1>3, StartKeeps DEF core, lists
<1>4. CASE ~HasDefers(Frame) /\ DiscardFrame /\ UNCHANGED <<cstack, ctl>>
  <2>1. /\ frames' = Pred(frames) /\ Len(frames') = Len(frames) - 1
        /\ Stretched(frames', Len(defers)) /\ defers' = defers
    BY <1>2, <1>4, NoneOfIts DEF DiscardFrame
  <2>2. Len(frames') >= RunBase /\ ctl'.do = "unwind"
    BY <1>1, <1>2, <1>4, <2>1 DEF Unwinding
  <2> QED
    BY <1>1, <1>4, <2>1, <2>2, Quiet
<1> QED
  BY <1>3, <1>4 DEF UnwindFrame

LEMMA ExitKeeps == DefersInv /\ Exit => DefersInv'
<1> SUFFICES ASSUME DefersInv, Exit PROVE DefersInv'
  OBVIOUS
<1>1. /\ cstack = <<>> /\ frames' = <<>> /\ defers' = <<>> /\ ctl'.do = "done"
      /\ UNCHANGED <<cstack, registered, ran>>
  BY DEF Exit
<1>2. frames = <<>> /\ Len(defers) = 0 /\ defers = <<>>
  <2>1. IsList(frames) /\ IsList(defers) /\ Len(frames) = 0
    BY <1>1 DEF DefersInv, CStackOK, FramesOK, IdsOK, Stacked, Stretched
  <2>2. frames = <<>>
    BY <2>1, ListFacts
  <2> QED
    BY <2>1, <2>2, ListFacts DEF DefersInv, FramesOK, Stretched
<1>3. UNCHANGED <<frames, defers>>
  BY <1>1, <1>2
<1>4. CStackOK'
  BY <1>1, <1>2, <1>3 DEF DefersInv, CStackOK, Stacked
<1>5. FramesOK'
  BY <1>3 DEF DefersInv, FramesOK
<1>6. IdsOK'
  <2>1. UNCHANGED <<defers, registered, ran>>
    BY <1>1, <1>3
  <2> QED
    BY ONLY <2>1, DefersInv DEF DefersInv, IdsOK
<1> QED
  BY <1>4, <1>5, <1>6 DEF DefersInv

\* A block is registered, or the newest is taken to be run.
LEMMA IdsMore ==
  ASSUME IdsOK, NEW fn, defers' = Append(defers, [fn |-> fn, id |-> registered + 1]),
         registered' = registered + 1, ran' = ran
  PROVE  IdsOK' /\ Len(defers') = Len(defers) + 1
<1> PICK n, e, r : n = Len(defers) /\ e = [fn |-> fn, id |-> registered + 1] /\ r = registered
  OBVIOUS
<1>1. /\ r \in Nat /\ n \in Nat /\ IsList(defers) /\ ran \in Seq(1..r) /\ Len(ran) \in Nat
      /\ \A i \in 1..Len(ran) : ran[i] \in 1..r
  BY ListFacts DEF IdsOK
<1>0. /\ \A id \in 1..r :
           \/ \E i \in 1..Len(ran) : ran[i] = id
           \/ \E j \in 1..n : defers[j].id = id
      /\ Len(ran) + n = r
      /\ \A i, j \in 1..Len(ran) : ran[i] = ran[j] => i = j
  BY DEF IdsOK
<1>2. /\ IsList(defers') /\ Len(defers') = n + 1
      /\ \A i \in 1..n : defers'[i] = defers[i]
      /\ defers'[n + 1].id = r + 1
  BY <1>1, AppendList
<1>3. \A i \in 1..n + 1 : i \in 1..n \/ i = n + 1
  BY <1>1
<1>4. \A i \in 1..n : defers[i].id \in 1..r /\ defers'[i].id = defers[i].id
  BY <1>2 DEF IdsOK
<1>5. ran' \in Seq(1..r + 1)
  BY <1>1
<1>6. \A i \in 1..n + 1 : defers'[i].id \in 1..r + 1
  BY <1>1, <1>2, <1>3, <1>4
<1>7. ASSUME NEW i \in 1..n + 1, NEW j \in 1..n + 1, defers'[i].id = defers'[j].id
      PROVE  i = j
  <2>1. r + 1 \notin 1..r
    BY <1>1
  <2> QED
    BY <1>2, <1>3, <1>4, <1>7, <2>1 DEF IdsOK
<1>8. ASSUME NEW i \in 1..Len(ran), NEW j \in 1..n + 1
      PROVE  ran[i] # defers'[j].id
  <2>1. r + 1 \notin 1..r
    BY <1>1
  <2> QED
    BY <1>1, <1>2, <1>3, <1>4, <2>1 DEF IdsOK
<1>9. ASSUME NEW id \in 1..r + 1
      PROVE  \/ \E i \in 1..Len(ran) : ran[i] = id
             \/ \E j \in 1..n + 1 : defers'[j].id = id
  <2>1. CASE id = r + 1
    <3>1. n + 1 \in 1..n + 1
      BY <1>1
    <3> QED
      BY <1>2, <2>1, <3>1
  <2>2. CASE id \in 1..r
    <3>1. \A j \in 1..n : j \in 1..n + 1
      BY <1>1
    <3> QED
      BY ONLY <1>0, <1>4, <2>2, <3>1
  <2> QED
    BY <1>1, <2>1, <2>2
<1>10. r + 1 \in Nat /\ Len(ran) + (n + 1) = r + 1
  <2>1. r \in Nat /\ n \in Nat /\ Len(ran) \in Nat /\ Len(ran) + n = r
    BY <1>0, <1>1
  <2> QED
    BY ONLY <2>1
<1>11. registered' = r + 1 /\ ran' = ran
  OBVIOUS
<1>12. IdsOK'
  <2>1. \A i \in 1..Len(ran'), j \in 1..Len(defers') : ran'[i] # defers'[j].id
    BY ONLY <1>2, <1>8, <1>11
  <2>2. \A id \in 1..registered' : \/ \E i \in 1..Len(ran') : ran'[i] = id
                                   \/ \E j \in 1..Len(defers') : defers'[j].id = id
    BY ONLY <1>2, <1>9, <1>11
  <2>3. \A i, j \in 1..Len(defers') : defers'[i].id = defers'[j].id => i = j
    BY ONLY <1>2, <1>7
  <2> QED
    BY ONLY <1>0, <1>2, <1>5, <1>6, <1>10, <1>11, <2>1, <2>2, <2>3 DEF IdsOK
<1> QED
  BY <1>2, <1>12

LEMMA IdsRun ==
  ASSUME IdsOK, defers # <<>>, defers' = Pred(defers),
         ran' = Append(ran, defers[Len(defers)].id), registered' = registered
  PROVE  IdsOK' /\ Len(defers') = Len(defers) - 1
<1> PICK n, d, r, m : n = Len(defers) /\ d = defers[n].id /\ r = registered /\ m = Len(ran)
  OBVIOUS
<1>1. /\ r \in Nat /\ n \in Nat /\ n > 0 /\ IsList(defers) /\ ran \in Seq(1..r) /\ m \in Nat
      /\ d \in 1..r
  BY ListFacts DEF IdsOK
<1>0. /\ \A id \in 1..r :
           \/ \E i \in 1..m : ran[i] = id
           \/ \E j \in 1..n : defers[j].id = id
      /\ m + n = r
      /\ \A i \in 1..m, j \in 1..n : ran[i] # defers[j].id
      /\ \A i, j \in 1..m : ran[i] = ran[j] => i = j
  BY DEF IdsOK
<1>2. IsList(defers') /\ Len(defers') = n - 1 /\ \A i \in 1..n - 1 : defers'[i] = defers[i]
  BY <1>1, PredList
<1>3. /\ ran' \in Seq(1..r) /\ Len(ran') = m + 1
      /\ \A i \in 1..m : ran'[i] = ran[i]
      /\ ran'[m + 1] = d
  BY <1>1
<1>4. \A i \in 1..n - 1 : i \in 1..n /\ i # n
  BY <1>1
<1>5. \A i \in 1..m + 1 : i \in 1..m \/ i = m + 1
  BY <1>1
<1>6. \A i \in 1..n - 1 : defers'[i].id \in 1..r /\ defers'[i].id = defers[i].id /\ defers'[i].id # d
  <2>1. n \in 1..n
    BY <1>1
  <2> QED
    BY <1>2, <1>4, <2>1 DEF IdsOK
<1>7. \A i, j \in 1..n - 1 : defers'[i].id = defers'[j].id => i = j
  BY <1>4, <1>6 DEF IdsOK
<1>8. \A i \in 1..m : ran[i] # d
  <2>1. n \in 1..n
    BY <1>1
  <2> QED
    BY <2>1 DEF IdsOK
<1>9. \A i, j \in 1..m + 1 : ran'[i] = ran'[j] => i = j
  BY ONLY <1>0, <1>3, <1>5, <1>8
<1>10. \A i \in 1..m + 1, j \in 1..n - 1 : ran'[i] # defers'[j].id
  BY ONLY <1>0, <1>3, <1>4, <1>5, <1>6
<1>11. ASSUME NEW id \in 1..r
       PROVE  \/ \E i \in 1..m + 1 : ran'[i] = id
              \/ \E j \in 1..n - 1 : defers'[j].id = id
  <2>1. CASE \E i \in 1..m : ran[i] = id
    <3>1. \A i \in 1..m : i \in 1..m + 1
      BY <1>1
    <3> QED
      BY <1>3, <2>1, <3>1
  <2>2. CASE \E j \in 1..n : defers[j].id = id
    <3>1. PICK j \in 1..n : defers[j].id = id
      BY <2>2
    <3>2. j = n \/ j \in 1..n - 1
      BY <1>1
    <3>3. m + 1 \in 1..m + 1
      BY <1>1
    <3> QED
      BY <1>3, <1>6, <3>1, <3>2, <3>3
  <2> QED
    BY <1>0, <2>1, <2>2
<1>12. (m + 1) + (n - 1) = r /\ registered' = r
  <2>1. m \in Nat /\ n \in Nat /\ m + n = r
    BY <1>0, <1>1
  <2>2. (m + 1) + (n - 1) = r
    BY ONLY <2>1
  <2> QED
    BY <2>2
<1>13. IdsOK'
  BY ONLY <1>1, <1>2, <1>3, <1>6, <1>7, <1>9, <1>10, <1>11, <1>12 DEF IdsOK
<1> QED
  BY <1>2, <1>13

LEMMA PushDeferKeeps == DefersInv /\ PushDefer => DefersInv'
<1> SUFFICES ASSUME DefersInv, PushDefer PROVE DefersInv'
  OBVIOUS
<1>1. /\ ctl.do = "run" /\ frames # <<>> /\ \E pc : Goto(pc)
      /\ UNCHANGED <<cstack, ctl, ran>> /\ registered' = registered + 1
      /\ \E fn : defers' = Append(defers, [fn |-> fn, id |-> registered + 1])
  BY InFrame DEF PushDefer, Running, Next1
<1>2. IdsOK' /\ Len(defers') = Len(defers) + 1
  BY <1>1, IdsMore DEF DefersInv
<1>3. Stretched(frames', Len(defers)) /\ Len(frames') = Len(frames)
  BY <1>1, GotoFacts
<1>4. FramesOK'
  <2>1. PICK m, k, fs : m = Len(defers) /\ k = m + 1 /\ fs = frames'
    OBVIOUS
  <2>2. m \in Nat /\ Len(fs) > 0
    BY <1>1, <1>3, <2>1, InFrame
  <2>3. Stretched(fs, m) /\ fs # <<>>
    BY <1>3, <2>1, <2>2, ListFacts DEF Stretched
  <2>4. fs[Len(fs)].deferBase \in 0..m
    BY <2>3, TopFrame
  <2>5. k \in Nat /\ k >= fs[Len(fs)].deferBase
    BY <2>1, <2>2, <2>4
  <2>6. Stretched(fs, k)
    BY <2>2, <2>3, <2>5, StretchedTo
  <2> QED
    BY <1>2, <2>1, <2>6 DEF FramesOK
<1>5. CStackOK'
  BY <1>1, <1>3 DEF DefersInv, CStackOK
<1> QED
  BY <1>2, <1>4, <1>5 DEF DefersInv

\* The newest block leaves vm.defers and gets a frame and a run of its own; its
\* stretch starts below the place it had.
LEMMA CallDeferredKeeps == DefersInv /\ CallDeferred => DefersInv'
<1> SUFFICES ASSUME DefersInv, CallDeferred PROVE DefersInv'
  OBVIOUS
<1> PICK n, m, k, fs, cs, f, a :
      /\ n = Len(frames) /\ m = Len(defers) /\ k = m - 1 /\ fs = frames /\ cs = cstack
      /\ f = [NewFrame(defers[Len(defers)].fn, Frame.slots, top) EXCEPT !.deferBase = Len(defers) - 1]
      /\ a = [k |-> "deferred", base |-> top]
  OBVIOUS
<1>1. /\ ctl.do = "defers" /\ HasDefers(Frame) /\ ctl'.do = "run"
      /\ defers' = Pred(defers) /\ ran' = Append(ran, defers[Len(defers)].id)
      /\ registered' = registered
      /\ frames' = Append(fs, f)
      /\ cstack' = cs \o <<a, [k |-> "run", base |-> n]>>
  BY DEF CallDeferred
<1>2. /\ n \in Nat /\ m \in Nat /\ fs # <<>> /\ IsList(fs) /\ IsList(defers)
      /\ Frame.deferBase \in 0..m /\ m > Frame.deferBase
  BY <1>1, InFrame DEF HasDefers
<1>3. k \in Nat /\ k >= fs[Len(fs)].deferBase /\ defers # <<>>
  BY <1>2, ListFacts DEF Frame
<1>4. IdsOK' /\ Len(defers') = k
  BY <1>1, <1>3, IdsRun DEF DefersInv
<1>5. FramesOK'
  <2>1. Stretched(fs, k)
    <3>1. Stretched(fs, m)
      BY DEF DefersInv, FramesOK
    <3> QED
      BY <1>2, <1>3, <3>1, StretchedTo
  <2>2. DOMAIN f = FrameFields /\ f.deferBase = k
    BY DEF NewFrame, FrameFields
  <2>3. Stretched(Append(fs, f), k)
    BY <1>3, <2>1, <2>2, StretchedMore
  <2> QED
    BY <1>1, <1>4, <2>3 DEF FramesOK
<1>6. CStackOK'
  <2>1. Stacked(cs, n, "defers") /\ cs[Len(cs)].k = "defers" /\ IsList(cs)
    BY <1>1, <1>2, TopActivation DEF DefersInv, CStackOK
  <2>2. "k" \in DOMAIN a /\ a.k = "deferred" /\ Nests(cs[Len(cs)].k, a.k) /\ Suits("returned", a.k)
    BY <2>1 DEF Nests, Suits
  <2>3. Stacked(Append(cs, a), n, "returned") /\ Append(cs, a) # <<>>
    <3>1. n \in Nat
      BY <1>2
    <3>2. Stacked(Append(cs, a), n, "returned")
      BY ONLY <2>1, <2>2, <3>1, StackedMore
    <3>3. Append(cs, a) # <<>>
      BY ONLY <2>1, AppendList
    <3> QED
      BY <3>2, <3>3
  <2>4. Stacked(Append(Append(cs, a), [k |-> "run", base |-> n]), n + 1, "run")
    BY <1>2, <2>3, StackedRun
  <2>5. cstack' = Append(Append(cs, a), [k |-> "run", base |-> n])
    <3>1. PICK b : b = [k |-> "run", base |-> n]
      OBVIOUS
    <3>2. cs \o <<a, b>> = Append(Append(cs, a), b)
      BY ONLY <2>1, TwoMore
    <3> QED
      BY <1>1, <3>1, <3>2
  <2>6. Len(frames') = n + 1
    BY <1>1, <1>2, AppendList
  <2> QED
    BY <1>1, <2>4, <2>5, <2>6 DEF CStackOK
<1> QED
  BY <1>4, <1>5, <1>6 DEF DefersInv

LEMMA CallKeeps == DefersInv /\ Call => DefersInv'
BY InvokeKeeps DEF Call, Running, lists, history

LEMMA RunDefersKeeps == DefersInv /\ RunDefers => DefersInv'
<1> SUFFICES ASSUME DefersInv, RunDefers PROVE DefersInv'
  OBVIOUS
<1>1. /\ ctl.do = "run" /\ UNCHANGED <<defers, registered, ran>> /\ \E pc : Goto(pc)
      /\ \/ StartDefers("op", Null)
         \/ UNCHANGED <<cstack, ctl>>
  BY DEF RunDefers, Running, Next1, lists, history
<1> QED
  BY <1>1, StartKeeps, QuietGoto

-----------------------------------------------------------------------------
(* The theorems.                                                             *)

LEMMA StartsRight == Init => DefersInv
<1> SUFFICES ASSUME Init PROVE DefersInv
  OBVIOUS
<1>1. /\ defers = <<>> /\ registered = 0 /\ ran = <<>> /\ ctl.do = "run"
      /\ cstack = <<[k |-> "run", base |-> 0]>>
      /\ frames = <<[fn |-> Main(prog), pc |-> 1, slots |-> 0, base |-> 0,
                     handlerBase |-> 0, deferBase |-> 0]>>
  BY DEF Init
<1>2. IsList(defers) /\ IsList(cstack) /\ IsList(frames)
  <2>1. defers \in Seq({})
    BY <1>1
  <2>2. cstack \in Seq({cstack[1]})
    BY <1>1
  <2>3. frames \in Seq({frames[1]})
    BY <1>1
  <2> QED
    BY <2>1, <2>2, <2>3, ListOf
<1>3. FramesOK
  BY <1>1, <1>2 DEF FramesOK, Stretched, FrameFields
<1>4. CStackOK
  BY <1>1, <1>2 DEF CStackOK, Stacked, Suits
<1>5. IdsOK
  BY <1>1, <1>2 DEF IdsOK
<1> QED
  BY <1>3, <1>4, <1>5 DEF DefersInv

LEMMA StepKeeps == DefersInv /\ [Next]_vars => DefersInv'
<1> SUFFICES ASSUME DefersInv, [Next]_vars PROVE DefersInv'
  OBVIOUS
<1>1. CASE \/ Const \/ GetGlobal \/ Pop \/ Mark \/ Show
           \/ Jump \/ JumpIfTrue \/ GetIter \/ ForIter
           \/ ThrowOp \/ Reraise \/ PushHandler \/ PopHandler \/ EndFinally
           \/ MatchExc \/ GetExc \/ EnterDynamic \/ EnterStatic
  BY <1>1, QuietSteps
<1>2. CASE Call
  BY <1>2, CallKeeps
<1>3. CASE TailCall
  BY <1>3, TailCallKeeps
<1>4. CASE Return
  BY <1>4, ReturnStepKeeps
<1>5. CASE NativeReturns
  BY <1>5, NativeReturnsKeeps
<1>6. CASE Exit
  BY <1>6, ExitKeeps
<1>7. CASE PushDefer
  BY <1>7, PushDeferKeeps
<1>8. CASE RunDefers
  BY <1>8, RunDefersKeeps
<1>9. CASE CallDeferred
  BY <1>9, CallDeferredKeeps
<1>10. CASE DeferredReturns
  BY <1>10, DeferredReturnsKeeps
<1>11. CASE DefersDone
  BY <1>11, DefersDoneKeeps
<1>12. CASE UnwindFrame
  BY <1>12, UnwindFrameKeeps
<1>13. CASE Escape
  BY <1>13, EscapeKeeps
<1>14. CASE UNCHANGED vars
  BY <1>14 DEF vars, core, lists, history, DefersInv, FramesOK, CStackOK, IdsOK
<1> QED
  BY <1>1, <1>2, <1>3, <1>4, <1>5, <1>6, <1>7, <1>8, <1>9, <1>10, <1>11, <1>12, <1>13, <1>14
     DEF Next

\* Whatever code runs, however exceptions unwind it and natives and deferred
\* blocks re-enter the interpreter (vm_call.c, vm_except.c): the frames' stretches
\* of vm.defers follow one another, the C activations nest with a frame for each
\* run, and every registered block waits or has run, once.
THEOREM Structure == Spec => []DefersInv
<1>1. Init => DefersInv
  BY StartsRight
<1>2. DefersInv /\ [Next]_vars => DefersInv'
  BY StepKeeps
<1> QED
  BY <1>1, <1>2, PTL DEF Spec

LEMMA OnceEach == DefersInv => DefersOnce
<1> SUFFICES ASSUME DefersInv PROVE DefersOnce
  OBVIOUS
<1>1. Len(ran) \in Nat /\ Len(defers) \in Nat
  BY ListFacts DEF DefersInv, IdsOK
<1>2. ASSUME NEW id \in 1..registered
      PROVE  Cardinality({i \in 1..Len(ran) : ran[i] = id})
             + Cardinality({i \in 1..Len(defers) : defers[i].id = id}) = 1
  <2> DEFINE R == {i \in 1..Len(ran) : ran[i] = id}
             D == {i \in 1..Len(defers) : defers[i].id = id}
  <2>1. CASE \E i \in 1..Len(ran) : ran[i] = id
    <3>1. PICK i \in 1..Len(ran) : ran[i] = id
      BY <2>1
    <3>2. R = {i}
      BY <3>1 DEF DefersInv, IdsOK
    <3>3. D = {}
      BY <3>1 DEF DefersInv, IdsOK
    <3>4. Cardinality(R) = 1 /\ Cardinality(D) = 0
      BY <3>2, <3>3, FS_Singleton, FS_EmptySet
    <3> QED
      BY <3>4
  <2>2. CASE \E i \in 1..Len(defers) : defers[i].id = id
    <3>1. PICK i \in 1..Len(defers) : defers[i].id = id
      BY <2>2
    <3>2. D = {i}
      BY <3>1 DEF DefersInv, IdsOK
    <3>3. R = {}
      BY <3>1 DEF DefersInv, IdsOK
    <3>4. Cardinality(R) = 0 /\ Cardinality(D) = 1
      BY <3>2, <3>3, FS_Singleton, FS_EmptySet
    <3> QED
      BY <3>4
  <2> QED
    BY <2>1, <2>2 DEF DefersInv, IdsOK
<1>3. ctl.do = "done" => Len(ran) = registered
  <2> SUFFICES ASSUME ctl.do = "done" PROVE Len(ran) = registered
    OBVIOUS
  <2>1. Len(frames) = 0
    BY DEF DefersInv, CStackOK, Stacked, Suits
  <2>2. Len(defers) = 0
    BY <2>1, ListFacts DEF DefersInv, FramesOK, Stretched
  <2> QED
    BY <1>1, <2>2 DEF DefersInv, IdsOK
<1> QED
  BY <1>2, <1>3 DEF DefersOnce

\* Each block PUSH_DEFER registers waits or has run, exactly once, and all have
\* when the program is over: by a return, a tail call, RUN_DEFERS or the unwinder
\* (runFrameDefers), for any functions and any nesting of runs.
THEOREM DefersRunOnce == Spec => []DefersOnce
BY Structure, OnceEach, PTL

-----------------------------------------------------------------------------
(***************************************************************************)
(* Proof that Machine runs each instruction with the operand stack as deep  *)
(* as jaiVerifyChunk computed (DepthAsVerified), for any programs whose     *)
(* loaded code has depths that agree along its edges and an exception table *)
(* whose entries are taken at depth 0 or never (CodeOK).                    *)
(*                                                                          *)
(* The depth at an instruction does not carry itself: a step may leave the  *)
(* frame for another that was suspended long ago, or enter a handler that   *)
(* was registered long ago.  DepthInv says what each of these will find.    *)
(* The operand stack of a frame starts at its Floor (FrameHeld); what is    *)
(* above a suspended frame, another frame, a native or a deferred block,    *)
(* starts where the frame expects the stack to end (Awaited); the height a  *)
(* handler restores is the depth of its target, in the frame whose stretch  *)
(* of vm.handlers it lies in (Owned); what can be called is one of the      *)
(* functions (Values).  How activations nest is DefersInv.                  *)
(*                                                                          *)
(* The entry of a `finally` inside a `for` has a handler at depth 1, which  *)
(* EnterStatic would meet at 0.  It never does: PUSH_FINALLY has opened a   *)
(* handler wherever the entry covers, and open handlers come first.  CodeOK *)
(* counts how many are open at each instruction (CountsOpen); CoverInv says *)
(* that no fewer are, and that all of them catch, so that a frame in which  *)
(* EnterStatic finds an entry has none open and the entry is not such a one *)
(* (Emptied).                                                               *)
(*                                                                          *)
(* The one kind of compiled code left out is a deferred block with a catch  *)
(* of its own: EnterStatic takes the window of the definer for the block's, *)
(* and the handler is not met at the depth the verifier has for it.         *)
(***************************************************************************)

(* What the code is relied on for, at the instruction that runs.             *)

LEMMA FloorIn ==
  ASSUME NEW L, NEW f, NEW m \in Nat, FrameHeld(L, f, m)
  PROVE  Floor(L, f) \in Nat /\ Floor(L, f) >= 1 /\ Floor(L, f) <= m
BY DEF FrameHeld

LEMMA InstructionAt ==
  ASSUME NEW p, NEW L, CodeOK(p, L), NEW f, NEW m \in Nat, FrameHeld(L, f, m),
         NEW h, GoesOn(L, f, h)
  PROVE  /\ InstructionOK(p, L, L[f.fn], f.pc)
         /\ h \in Nat /\ h >= 1 /\ h = Floor(L, f) + L[f.fn].depth[f.pc]
         /\ L[f.fn].depth[f.pc] \in Nat
<1>1. f.fn \in DOMAIN L
  BY DEF FrameHeld
<1>2. f.pc \in 1..Len(L[f.fn].code) /\ L[f.fn].depth[f.pc] >= 0
      /\ L[f.fn].depth[f.pc] \in Nat /\ h = Floor(L, f) + L[f.fn].depth[f.pc]
  BY DEF GoesOn, GoesOnAt
<1>3. FunctionOK(p, L, f.fn)
  BY <1>1 DEF CodeOK, Agrees
<1>4. InstructionOK(p, L, L[f.fn], f.pc)
  BY <1>2, <1>3 DEF FunctionOK
<1>5. h \in Nat /\ h >= 1
  <2> PICK k, d : k = Floor(L, f) /\ d = L[f.fn].depth[f.pc]
    OBVIOUS
  <2>1. k \in Nat /\ k >= 1 /\ d \in Nat /\ h = k + d
    BY <1>2, FloorIn
  <2> QED
    BY ONLY <2>1
<1> QED
  BY <1>2, <1>4, <1>5

LEMMA FallsTo ==
  ASSUME NEW p, NEW L, CodeOK(p, L), NEW f, NEW m \in Nat, FrameHeld(L, f, m),
         NEW h, GoesOn(L, f, h), NEW ins, ins = L[f.fn].code[f.pc],
         jaiOpFallsThrough(ins[1]), NEW e, e = fallEffect(ins), e.pushes \in Nat
  PROVE  /\ e.pops \in Nat /\ e.pops + 1 <= h
         /\ GoesOnAt(L, f, f.pc + 1, h - e.pops + e.pushes)
<1> PICK c, d, k : c = L[f.fn] /\ d = c.depth[f.pc] /\ k = Floor(L, f)
  OBVIOUS
<1>1. InstructionOK(p, L, c, f.pc) /\ h \in Nat /\ h = k + d /\ d \in Nat
  BY InstructionAt
<1>2. k \in Nat /\ k >= 1
  BY FloorIn
<1>3. e.pops \in Nat /\ e.pops <= d /\ DepthIs(c, f.pc + 1, d - e.pops + e.pushes)
  BY <1>1 DEF InstructionOK
<1>4. h - e.pops + e.pushes = k + (d - e.pops + e.pushes) /\ e.pops + 1 <= h
  <2>1. PICK a, b : a = e.pops /\ b = e.pushes
    OBVIOUS
  <2>2. /\ a \in Nat /\ b \in Nat /\ a <= d
        /\ h = k + d /\ d \in Nat /\ k \in Nat /\ k >= 1
    BY <1>1, <1>2, <1>3, <2>1
  <2>3. h - a + b = k + (d - a + b) /\ a + 1 <= h
    BY ONLY <2>2
  <2> QED
    BY <2>1, <2>3
<1> QED
  BY <1>3, <1>4 DEF GoesOnAt, DepthIs

LEMMA BranchesTo ==
  ASSUME NEW p, NEW L, CodeOK(p, L), NEW f, NEW m \in Nat, FrameHeld(L, f, m),
         NEW h, GoesOn(L, f, h), NEW ins, ins = L[f.fn].code[f.pc],
         opBranchIsEdge(ins[1]),
         NEW n, n = IF ins[1] \in {"JUMP_IF_TRUE", "FOR_ITER"} THEN h - 1 ELSE h
  PROVE  GoesOnAt(L, f, f.pc + 1 + ins[2], n) /\ n \in Nat /\ n >= 1
<1> PICK c, d, k, to : /\ c = L[f.fn] /\ d = c.depth[f.pc] /\ k = Floor(L, f)
                       /\ to = f.pc + 1 + ins[2]
  OBVIOUS
<1>1. InstructionOK(p, L, c, f.pc) /\ h \in Nat /\ h = k + d /\ d \in Nat
  BY InstructionAt
<1>2. k \in Nat /\ k >= 1
  BY FloorIn
<1>3. to = branchTarget(c.code, f.pc)
  BY DEF branchTarget
<1>4. DepthIs(c, to, jumpDepth(ins[1], d))
  BY <1>1, <1>3 DEF InstructionOK
<1>5. jumpDepth(ins[1], d) \in Nat /\ c.depth[to] = jumpDepth(ins[1], d) /\ to \in 1..Len(c.code)
  BY <1>4 DEF DepthIs
<1>6. n = k + jumpDepth(ins[1], d)
  <2>1. /\ h = k + d /\ d \in Nat /\ k \in Nat
        /\ n = IF ins[1] \in {"JUMP_IF_TRUE", "FOR_ITER"} THEN h - 1 ELSE h
    BY <1>1, <1>2
  <2> QED
    BY ONLY <2>1 DEF jumpDepth
<1>7. n \in Nat /\ n >= 1
  <2>1. PICK j : j = jumpDepth(ins[1], d)
    OBVIOUS
  <2>2. j \in Nat /\ n = k + j /\ k \in Nat /\ k >= 1
    BY <1>2, <1>5, <1>6, <2>1
  <2> QED
    BY ONLY <2>2
<1>8. GoesOnAt(L, f, to, n)
  BY <1>5, <1>6 DEF GoesOnAt
<1> QED
  BY <1>7, <1>8

LEMMA RegistersTo ==
  ASSUME NEW p, NEW L, CodeOK(p, L), NEW f, NEW m \in Nat, FrameHeld(L, f, m),
         NEW h, GoesOn(L, f, h), NEW ins, ins = L[f.fn].code[f.pc], ins[1] \in Registers
  PROVE  GoesOnAt(L, f, f.pc + 1 + ins[2], h)
<1> PICK c, d, to : c = L[f.fn] /\ d = c.depth[f.pc] /\ to = f.pc + 1 + ins[2]
  OBVIOUS
<1>1. InstructionOK(p, L, c, f.pc) /\ h = Floor(L, f) + d
  BY InstructionAt
<1>2. to = branchTarget(c.code, f.pc)
  BY DEF branchTarget
<1>3. DepthIs(c, to, d)
  BY <1>1, <1>2 DEF InstructionOK
<1>4. GoesOnAt(L, f, to, h)
  BY <1>1, <1>3 DEF GoesOnAt, DepthIs
<1> QED
  BY <1>4

\* A function that is called starts on an empty operand stack.
LEMMA StartsEmpty ==
  ASSUME NEW p, NEW L, CodeOK(p, L), NEW fn \in Callable(p),
         NEW f, f.fn = fn, f.pc = 1, f.slots \in Nat
  PROVE  /\ fn \in DOMAIN L /\ L[fn].window \in Nat \ {0}
         /\ Floor(L, f) = f.slots + L[fn].window
         /\ GoesOn(L, f, f.slots + L[fn].window)
<1>1. fn \in DOMAIN L /\ fn.kind = "fn"
  BY DEF CodeOK, Agrees, Callable, Fn
<1>2. L[fn].window \in Nat \ {0} /\ DepthIs(L[fn], 1, 0)
  BY <1>1 DEF CodeOK, Agrees, FunctionOK
<1>3. Floor(L, f) = f.slots + L[fn].window
  BY <1>1 DEF Floor
<1>4. f.slots + L[fn].window \in Nat
  BY <1>2
<1>5. GoesOn(L, f, f.slots + L[fn].window)
  BY <1>2, <1>3, <1>4 DEF GoesOn, GoesOnAt, DepthIs
<1> QED
  BY <1>1, <1>2, <1>3, <1>5

-----------------------------------------------------------------------------
(* The stack.                                                                *)

LEMMA PutList ==
  ASSUME NEW p, NEW m, IsList(m), \A i \in 1..Len(m) : ValueOK(p, m[i]),
         NEW at \in Nat, at >= 1, at <= Len(m) + 1, NEW v, ValueOK(p, v)
  PROVE  /\ IsList(Put(m, at, v)) /\ Len(Put(m, at, v)) \in Nat
         /\ Len(Put(m, at, v)) >= Len(m) /\ Len(Put(m, at, v)) >= at
         /\ \A i \in 1..Len(Put(m, at, v)) : ValueOK(p, Put(m, at, v)[i])
<1> PICK n : n = Len(m)
  OBVIOUS
<1>1. n \in Nat
  BY ListFacts
<1>2. CASE at > n
  <2> PICK q : q = Append(m, v)
    OBVIOUS
  <2>1. IsList(q) /\ Len(q) = n + 1 /\ (\A i \in 1..n : q[i] = m[i]) /\ q[n + 1] = v
    BY AppendList
  <2>2. \A i \in 1..n + 1 : i \in 1..n \/ i = n + 1
    BY <1>1
  <2>3. \A i \in 1..Len(q) : ValueOK(p, q[i])
    BY <2>1, <2>2
  <2>4. Put(m, at, v) = q
    BY <1>2 DEF Put
  <2> QED
    BY <1>1, <2>1, <2>3, <2>4
<1>3. CASE ~(at > n)
  <2>1. at \in 1..n
    BY <1>1, <1>3
  <2> PICK q : q = With(m, at, v)
    OBVIOUS
  <2>2. IsList(q) /\ Len(q) = n /\ q[at] = v /\ \A i \in 1..n : i # at => q[i] = m[i]
    BY <2>1, WithList
  <2>3. \A i \in 1..Len(q) : ValueOK(p, q[i])
    BY <2>2
  <2>4. Put(m, at, v) = q
    BY <1>3 DEF Put, With
  <2> QED
    BY <1>1, <2>1, <2>2, <2>3, <2>4
<1> QED
  BY <1>2, <1>3

LEMMA ClearedList ==
  ASSUME NEW p, NEW m, IsList(m), \A i \in 1..Len(m) : ValueOK(p, m[i]),
         NEW at \in Nat, at >= 1, at <= Len(m) + 1, NEW n \in Nat
  PROVE  /\ IsList(Cleared(m, at, n)) /\ Len(Cleared(m, at, n)) \in Nat
         /\ Len(Cleared(m, at, n)) >= Len(m) /\ Len(Cleared(m, at, n)) >= at + n - 1
         /\ \A i \in 1..Len(Cleared(m, at, n)) : ValueOK(p, Cleared(m, at, n)[i])
<1> PICK k, z, q : /\ k = Len(m) /\ z = (IF at + n - 1 > k THEN at + n - 1 ELSE k)
                   /\ q = Cleared(m, at, n)
  OBVIOUS
<1>1. k \in Nat /\ z \in Nat /\ z >= k /\ z >= at + n - 1
  BY ListFacts
<1>2. q = [i \in 1..z |-> IF i \in at..at + n - 1 THEN Null ELSE m[i]]
  BY DEF Cleared
<1>3. \A i \in 1..z : i \in at..at + n - 1 \/ i \in 1..k
  BY <1>1
<1>4. ValueOK(p, Null)
  BY DEF ValueOK, Null
<1>5. \A i \in 1..z : ValueOK(p, q[i])
  BY <1>2, <1>3, <1>4
<1>6. PICK S : S = {q[i] : i \in 1..z}
  OBVIOUS
<1>7. q \in Seq(S) /\ Len(q) = z
  <2>1. \A i \in 1..z : q[i] \in S
    BY <1>6
  <2>2. q \in [1..z -> S]
    BY <1>2, <2>1
  <2>3. q \in Seq(S)
    BY <1>1, <2>2, IsASeq
  <2>4. DOMAIN q = 1..z
    BY <1>2
  <2> QED
    BY <1>1, <2>3, <2>4, LenProperties
<1>8. IsList(q)
  BY <1>7, ListOf
<1> QED
  BY <1>1, <1>5, <1>7, <1>8

-----------------------------------------------------------------------------
(* Frames, when the top one changes, one is pushed or one is left.           *)

LEMMA HeldUp ==
  ASSUME NEW L, NEW fs, NEW m \in Nat, Held(L, fs, m), NEW n \in Nat, n >= m
  PROVE  Held(L, fs, n)
<1>1. ASSUME NEW i \in 1..Len(fs)
      PROVE  FrameHeld(L, fs[i], n)
  BY DEF Held, FrameHeld
<1> QED
  BY <1>1 DEF Held

LEMMA HeldTop ==
  ASSUME NEW L, NEW fs, IsList(fs), fs # <<>>, NEW m, Held(L, fs, m),
         NEW g, FrameHeld(L, g, m), g.base = fs[Len(fs)].base
  PROVE  Held(L, With(fs, Len(fs), g), m)
<1> PICK n, gs : n = Len(fs) /\ gs = With(fs, Len(fs), g)
  OBVIOUS
<1>1. n \in Nat /\ n \in 1..n
  BY ListFacts
<1>2. IsList(gs) /\ Len(gs) = n /\ gs[n] = g /\ \A i \in 1..n : i # n => gs[i] = fs[i]
  <2>1. IsList(fs) /\ n \in 1..Len(fs)
    BY <1>1
  <2> QED
    BY <2>1, WithList
<1>3. \A i \in 1..n : FrameHeld(L, gs[i], m)
  BY <1>1, <1>2 DEF Held
<1>4. \A i \in 2..n : i \in 1..n
  BY <1>1
<1>5. \A i \in 2..n : gs[i].base >= 1
  BY <1>1, <1>2, <1>4 DEF Held
<1>6. Held(L, gs, m)
  BY <1>2, <1>3, <1>5 DEF Held
<1> QED
  BY <1>6

LEMMA HeldMore ==
  ASSUME NEW L, NEW fs, IsList(fs), NEW m, Held(L, fs, m),
         NEW g, FrameHeld(L, g, m), fs # <<>> => g.base >= 1
  PROVE  Held(L, Append(fs, g), m)
<1> PICK n, gs : n = Len(fs) /\ gs = Append(fs, g)
  OBVIOUS
<1>1. n \in Nat /\ (fs # <<>> <=> n > 0)
  BY ListFacts
<1>2. IsList(gs) /\ Len(gs) = n + 1 /\ gs[n + 1] = g /\ \A i \in 1..n : gs[i] = fs[i]
  BY AppendList
<1>3. \A i \in 1..n + 1 : i \in 1..n \/ i = n + 1
  BY <1>1
<1>4. \A i \in 1..n + 1 : FrameHeld(L, gs[i], m)
  BY <1>2, <1>3 DEF Held
<1>5. \A i \in 2..n + 1 : (i \in 1..n /\ i \in 2..n) \/ (i = n + 1 /\ n > 0)
  BY <1>1
<1>6. \A i \in 2..n + 1 : gs[i].base >= 1
  BY <1>1, <1>2, <1>5 DEF Held
<1>7. Held(L, gs, m)
  BY <1>2, <1>4, <1>6 DEF Held
<1> QED
  BY <1>7

LEMMA HeldLess ==
  ASSUME NEW L, NEW fs, IsList(fs), fs # <<>>, NEW m, Held(L, fs, m)
  PROVE  Held(L, Pred(fs), m)
<1> PICK n, gs : n = Len(fs) /\ gs = Pred(fs)
  OBVIOUS
<1>1. n \in Nat
  BY ListFacts
<1>2. IsList(gs) /\ Len(gs) = n - 1 /\ \A i \in 1..n - 1 : gs[i] = fs[i]
  BY PredList
<1>3. \A i \in 1..n - 1 : i \in 1..n
  BY <1>1
<1>4. \A i \in 2..n - 1 : i \in 1..n - 1 /\ i \in 2..n
  BY <1>1
<1>5. Held(L, gs, m)
  BY <1>2, <1>3, <1>4 DEF Held
<1> QED
  BY <1>5

-----------------------------------------------------------------------------
(* Handlers.                                                                 *)

LEMMA SameFloor ==
  ASSUME NEW L, NEW f, NEW g, g.fn = f.fn, g.slots = f.slots, g.base = f.base
  PROVE  /\ \A pc, h : GoesOnAt(L, f, pc, h) <=> GoesOnAt(L, g, pc, h)
         /\ \A m : FrameHeld(L, f, m) <=> FrameHeld(L, g, m)
BY DEF GoesOnAt, FrameHeld, Floor

LEMMA OwnedUp ==
  ASSUME NEW L, NEW fs, NEW hs, NEW m \in Nat, Owned(L, fs, hs, m), NEW n \in Nat, n >= m
  PROVE  Owned(L, fs, hs, n)
<1>1. \A i \in 1..Len(hs) : hs[i].top \in 1..n
  BY DEF Owned
<1> QED
  BY <1>1 DEF Owned

LEMMA OwnedTop ==
  ASSUME NEW L, NEW fs, IsList(fs), fs # <<>>, NEW hs, NEW m, Owned(L, fs, hs, m),
         NEW g, g.handlerBase = fs[Len(fs)].handlerBase,
         \/ g.fn = fs[Len(fs)].fn /\ g.slots = fs[Len(fs)].slots /\ g.base = fs[Len(fs)].base
         \/ fs[Len(fs)].handlerBase = Len(hs)
  PROVE  Owned(L, With(fs, Len(fs), g), hs, m)
<1> PICK n, f, gs : n = Len(fs) /\ f = fs[n] /\ gs = With(fs, Len(fs), g)
  OBVIOUS
<1>1. n \in Nat /\ n \in 1..n /\ Len(hs) \in Nat
  BY ListFacts DEF Owned
<1>2. IsList(gs) /\ Len(gs) = n /\ gs[n] = g /\ \A i \in 1..n : i # n => gs[i] = fs[i]
  <2>1. IsList(fs) /\ n \in 1..Len(fs)
    BY <1>1
  <2> QED
    BY <2>1, WithList
<1>3. \A i \in 1..n : gs[i].handlerBase = fs[i].handlerBase
  BY <1>2
<1>4. \A i \in 1..n : /\ gs[i].handlerBase \in 0..Len(hs)
                      /\ \A j \in 1..i : gs[j].handlerBase <= gs[i].handlerBase
  <2>1. \A i \in 1..n : 1..i \subseteq 1..n
    BY <1>1
  <2> QED
    BY <1>3, <2>1 DEF Owned
<1>5. ASSUME NEW i \in 1..Len(hs), NEW k, k = hs[i].frame
      PROVE  /\ k \in 1..n
             /\ gs[k].handlerBase < i
             /\ k < n => i <= gs[k + 1].handlerBase
             /\ hs[i].top \in 1..m
             /\ GoesOnAt(L, gs[k], hs[i].at, hs[i].top)
  <2>1. /\ k \in 1..n /\ fs[k].handlerBase < i
        /\ k < n => i <= fs[k + 1].handlerBase
        /\ hs[i].top \in 1..m
        /\ GoesOnAt(L, fs[k], hs[i].at, hs[i].top)
    BY <1>5 DEF Owned
  <2>2. k < n => k + 1 \in 1..n
    BY <1>1, <2>1
  <2>3. GoesOnAt(L, gs[k], hs[i].at, hs[i].top)
    <3>1. CASE k # n
      BY <1>2, <2>1, <3>1
    <3>2. CASE k = n
      <4>1. f.handlerBase # Len(hs)
        BY <1>1, <2>1, <3>2
      <4>2. g.fn = f.fn /\ g.slots = f.slots /\ g.base = f.base
        BY <4>1
      <4>3. GoesOnAt(L, f, hs[i].at, hs[i].top)
        BY <2>1, <3>2
      <4> QED
        BY <1>2, <3>2, <4>2, <4>3, SameFloor
    <3> QED
      BY <3>1, <3>2
  <2> QED
    BY <1>3, <2>1, <2>2, <2>3
<1>6. Owned(L, gs, hs, m)
  <2>1. IsList(hs)
    BY DEF Owned
  <2> QED
    BY <1>2, <1>4, <1>5, <2>1 DEF Owned
<1> QED
  BY <1>6

LEMMA OwnedMore ==
  ASSUME NEW L, NEW fs, IsList(fs), NEW hs, NEW m, Owned(L, fs, hs, m),
         NEW g, g.handlerBase = Len(hs)
  PROVE  Owned(L, Append(fs, g), hs, m)
<1> PICK n, z, gs : n = Len(fs) /\ z = Len(hs) /\ gs = Append(fs, g)
  OBVIOUS
<1>1. n \in Nat /\ z \in Nat
  BY ListFacts DEF Owned
<1>2. IsList(gs) /\ Len(gs) = n + 1 /\ gs[n + 1] = g /\ \A i \in 1..n : gs[i] = fs[i]
  BY AppendList
<1>3. \A i \in 1..n + 1 : i \in 1..n \/ i = n + 1
  BY <1>1
<1>4. \A i \in 1..n + 1 : gs[i].handlerBase \in 0..z
  BY <1>1, <1>2, <1>3 DEF Owned
<1>5. ASSUME NEW i \in 1..n + 1, NEW j \in 1..i
      PROVE  gs[j].handlerBase <= gs[i].handlerBase
  <2>1. CASE i = n + 1
    <3>1. j \in 1..n + 1
      BY <1>1, <2>1
    <3> QED
      BY <1>1, <1>2, <1>4, <2>1, <3>1
  <2>2. CASE i \in 1..n
    <3>1. j \in 1..n
      BY <1>1, <2>2
    <3> QED
      BY <1>2, <2>2, <3>1 DEF Owned
  <2> QED
    BY <1>3, <2>1, <2>2
<1>6. ASSUME NEW i \in 1..z, NEW k, k = hs[i].frame
      PROVE  /\ k \in 1..n + 1
             /\ gs[k].handlerBase < i
             /\ k < n + 1 => i <= gs[k + 1].handlerBase
             /\ hs[i].top \in 1..m
             /\ GoesOnAt(L, gs[k], hs[i].at, hs[i].top)
  <2>1. /\ k \in 1..n /\ fs[k].handlerBase < i
        /\ k < n => i <= fs[k + 1].handlerBase
        /\ hs[i].top \in 1..m
        /\ GoesOnAt(L, fs[k], hs[i].at, hs[i].top)
    BY <1>6 DEF Owned
  <2>2. k < n => gs[k + 1] = fs[k + 1]
    BY <1>1, <1>2, <2>1
  <2>3. ~(k < n) => k = n /\ gs[k + 1].handlerBase = z
    BY <1>1, <1>2, <2>1
  <2>4. k \in 1..n + 1 /\ gs[k] = fs[k] /\ i <= z
    BY <1>1, <1>2, <2>1
  <2> QED
    BY <2>1, <2>2, <2>3, <2>4
<1>7. Owned(L, gs, hs, m)
  <2>1. IsList(hs)
    BY DEF Owned
  <2> QED
    BY <1>2, <1>4, <1>5, <1>6, <2>1 DEF Owned
<1> QED
  BY <1>7

LEMMA OwnedLess ==
  ASSUME NEW L, NEW fs, IsList(fs), fs # <<>>, NEW hs, NEW m, Owned(L, fs, hs, m),
         fs[Len(fs)].handlerBase = Len(hs)
  PROVE  Owned(L, Pred(fs), hs, m)
<1> PICK n, z, gs : n = Len(fs) /\ z = Len(hs) /\ gs = Pred(fs)
  OBVIOUS
<1>1. n \in Nat /\ z \in Nat
  BY ListFacts DEF Owned
<1>2. IsList(gs) /\ Len(gs) = n - 1 /\ \A i \in 1..n - 1 : gs[i] = fs[i]
  BY PredList
<1>3. \A i \in 1..n - 1 : i \in 1..n /\ 1..i \subseteq 1..n - 1
  BY <1>1
<1>4. \A i \in 1..n - 1 : /\ gs[i].handlerBase \in 0..z
                          /\ \A j \in 1..i : gs[j].handlerBase <= gs[i].handlerBase
  BY <1>2, <1>3 DEF Owned
<1>5. ASSUME NEW i \in 1..z, NEW k, k = hs[i].frame
      PROVE  /\ k \in 1..n - 1
             /\ gs[k].handlerBase < i
             /\ k < n - 1 => i <= gs[k + 1].handlerBase
             /\ hs[i].top \in 1..m
             /\ GoesOnAt(L, gs[k], hs[i].at, hs[i].top)
  <2>1. /\ k \in 1..n /\ fs[k].handlerBase < i
        /\ k < n => i <= fs[k + 1].handlerBase
        /\ hs[i].top \in 1..m
        /\ GoesOnAt(L, fs[k], hs[i].at, hs[i].top)
    BY <1>5 DEF Owned
  <2>2. k # n
    BY <1>1, <2>1
  <2>3. k \in 1..n - 1
    BY <1>1, <2>1, <2>2
  <2>4. k < n - 1 => k + 1 \in 1..n - 1
    BY <1>1, <2>3
  <2>5. k < n - 1 => k < n
    BY <1>1, <2>3
  <2> QED
    BY <1>2, <2>1, <2>3, <2>4, <2>5
<1>6. Owned(L, gs, hs, m)
  <2>1. IsList(hs)
    BY DEF Owned
  <2> QED
    BY <1>2, <1>4, <1>5, <2>1 DEF Owned
<1> QED
  BY <1>6

LEMMA OwnedPush ==
  ASSUME NEW L, NEW fs, IsList(fs), fs # <<>>, NEW hs, NEW m, Owned(L, fs, hs, m),
         NEW h, h.frame = Len(fs), h.top \in 1..m, GoesOnAt(L, fs[Len(fs)], h.at, h.top)
  PROVE  Owned(L, fs, Append(hs, h), m)
<1> PICK n, z, gs : n = Len(fs) /\ z = Len(hs) /\ gs = Append(hs, h)
  OBVIOUS
<1>1. n \in Nat /\ n \in 1..n /\ z \in Nat /\ IsList(hs)
  BY ListFacts DEF Owned
<1>2. IsList(gs) /\ Len(gs) = z + 1 /\ gs[z + 1] = h /\ \A i \in 1..z : gs[i] = hs[i]
  BY <1>1, AppendList
<1>3. \A i \in 1..n : fs[i].handlerBase \in 0..z + 1
  BY <1>1 DEF Owned
<1>4. ASSUME NEW i \in 1..z + 1, NEW k, k = gs[i].frame
      PROVE  /\ k \in 1..n
             /\ fs[k].handlerBase < i
             /\ k < n => i <= fs[k + 1].handlerBase
             /\ gs[i].top \in 1..m
             /\ GoesOnAt(L, fs[k], gs[i].at, gs[i].top)
  <2>1. CASE i \in 1..z
    BY <1>2, <1>4, <2>1 DEF Owned
  <2>2. CASE i = z + 1
    <3>1. fs[n].handlerBase \in 0..z
      BY <1>1 DEF Owned
    <3>2. k = n /\ fs[n].handlerBase < i /\ ~(k < n) /\ gs[i] = h
      BY <1>1, <1>2, <1>4, <2>2, <3>1
    <3> QED
      BY <1>1, <3>2
  <2>3. i \in 1..z \/ i = z + 1
    BY <1>1
  <2> QED
    BY <2>1, <2>2, <2>3
<1>5. Owned(L, fs, gs, m)
  BY <1>2, <1>3, <1>4 DEF Owned
<1> QED
  BY <1>5

\* The newest handlers of the top frame go, all of them or some.
LEMMA OwnedCut ==
  ASSUME NEW L, NEW fs, IsList(fs), fs # <<>>, NEW hs, NEW m, Owned(L, fs, hs, m),
         NEW b \in fs[Len(fs)].handlerBase..Len(hs)
  PROVE  Owned(L, fs, SubSeq(hs, 1, b), m) /\ Len(SubSeq(hs, 1, b)) = b
<1> PICK n, z, gs, S : n = Len(fs) /\ z = Len(hs) /\ gs = SubSeq(hs, 1, b) /\ S = {hs[i] : i \in DOMAIN hs}
  OBVIOUS
<1>1. n \in Nat /\ n \in 1..n /\ z \in Nat /\ IsList(hs) /\ fs[n].handlerBase \in 0..z
  BY ListFacts DEF Owned
<1>2. b \in Nat /\ b <= z /\ fs[n].handlerBase <= b
  BY <1>1
<1>3. IsList(gs) /\ Len(gs) = b /\ \A i \in 1..b : gs[i] = hs[i]
  <2>1. hs \in Seq(S)
    BY <1>1 DEF IsList
  <2>2. gs \in Seq(S) /\ Len(gs) = b /\ \A i \in 1..b : gs[i] = hs[i]
    BY <1>1, <1>2, <2>1
  <2> QED
    BY <2>2, ListOf
<1>4. \A i \in 1..n : fs[i].handlerBase \in 0..b
  <2>1. \A i \in 1..n : fs[i].handlerBase \in 0..z /\ fs[i].handlerBase <= fs[n].handlerBase
    BY <1>1 DEF Owned
  <2> QED
    BY <1>1, <1>2, <2>1
<1>5. \A i \in 1..b : i \in 1..z
  BY <1>1, <1>2
<1>6. Owned(L, fs, gs, m)
  BY <1>3, <1>4, <1>5 DEF Owned
<1> QED
  BY <1>3, <1>6

-----------------------------------------------------------------------------
(* What awaits the frames above.                                             *)

\* Under a native or a deferred block is a frame, and above it, while a frame
\* is worked at, a run with frames of its own.
LEMMA UnderFacts ==
  ASSUME NEW cs, NEW n \in Nat, NEW do, Stacked(cs, n, do),
         NEW j \in 1..Len(cs), cs[j].k \in {"native", "deferred"}
  PROVE  /\ Under(cs, n, j) \in 1..n
         /\ j # Len(cs) => /\ j + 1 \in 1..Len(cs) /\ cs[j + 1].k = "run"
                           /\ Under(cs, n, j) = cs[j + 1].base
         /\ do \in {"run", "defers"} => j # Len(cs) /\ Under(cs, n, j) \in 1..n - 1
         /\ j # 1
<1> PICK z : z = Len(cs)
  OBVIOUS
<1>1. z \in Nat /\ IsList(cs) /\ cs # <<>> /\ j \in 1..z /\ 1 \in 1..z
  BY ListFacts DEF Stacked
<1>2. cs[1].k = "run" /\ cs[1].base = 0 /\ j # 1
  BY <1>1 DEF Stacked
<1>3. Suits(do, cs[z].k)
  BY <1>1 DEF Stacked
<1>4. do \in {"run", "defers"} => j # z
  BY <1>3 DEF Suits
<1>5. CASE j = z
  <2>1. n # 0
    <3>1. 0 = n => 1 = z
      BY <1>1, <1>2 DEF Stacked
    <3> QED
      BY <1>2, <1>5, <3>1
  <2>2. n \in 1..n
    BY <2>1
  <2> QED
    BY <1>2, <1>4, <1>5, <2>2 DEF Under
<1>6. CASE j # z
  <2> PICK i : i = j + 1
    OBVIOUS
  <2>1. i \in 1..z /\ i # 1 /\ i - 1 = j /\ 1 \in 1..i - 1
    BY <1>1, <1>6
  <2>2. Nests(cs[j].k, cs[i].k)
    BY <2>1 DEF Stacked
  <2>3. cs[i].k = "run"
    BY <2>2 DEF Nests
  <2>4. cs[i].base \in 0..n /\ cs[1].base < cs[i].base /\ (cs[i].base = n => do = "unwind")
    BY <1>2, <2>1, <2>3 DEF Stacked
  <2>5. cs[i].base \in 1..n /\ (do # "unwind" => cs[i].base \in 1..n - 1)
    BY <1>2, <2>4
  <2>6. Under(cs, n, j) = cs[i].base
    BY <1>6 DEF Under
  <2> QED
    BY <1>2, <1>6, <2>1, <2>3, <2>5, <2>6
<1> QED
  BY <1>5, <1>6

LEMMA AwaitedUp ==
  ASSUME NEW L, NEW fs, NEW cs, NEW m \in Nat, Awaited(L, fs, cs, m), NEW n \in Nat, n >= m
  PROVE  Awaited(L, fs, cs, n)
<1>1. \A x \in 1..m : x \in 1..n
  OBVIOUS
<1> QED
  BY <1>1 DEF Awaited

LEMMA AwaitedTop ==
  ASSUME NEW L, NEW fs, IsList(fs), fs # <<>>, NEW cs, NEW m, Awaited(L, fs, cs, m),
         NEW do \in {"run", "defers"}, Stacked(cs, Len(fs), do),
         NEW g, g.base = fs[Len(fs)].base
  PROVE  Awaited(L, With(fs, Len(fs), g), cs, m)
<1> PICK n, gs : n = Len(fs) /\ gs = With(fs, Len(fs), g)
  OBVIOUS
<1>1. n \in Nat /\ n \in 1..n /\ Stacked(cs, n, do)
  BY ListFacts
<1>2. IsList(gs) /\ Len(gs) = n /\ gs[n] = g /\ \A i \in 1..n : i # n => gs[i] = fs[i]
  <2>1. IsList(fs) /\ n \in 1..Len(fs)
    BY <1>1
  <2> QED
    BY <2>1, WithList
<1>3. \A i \in 1..n - 1 : i \in 1..n /\ i # n /\ i + 1 \in 1..n
  BY <1>1
<1>4. \A i \in 1..n : gs[i].base = fs[i].base
  BY <1>2
<1>5. ASSUME NEW i \in 1..n - 1
      PROVE  \/ \E j \in 1..Len(cs) : cs[j].k = "run" /\ cs[j].base = i
             \/ GoesOn(L, gs[i], gs[i + 1].base + 1)
  <2>1. gs[i] = fs[i] /\ gs[i + 1].base = fs[i + 1].base
    BY <1>2, <1>3, <1>4
  <2> QED
    BY <2>1 DEF Awaited
<1>6. ASSUME NEW j \in 1..Len(cs), cs[j].k \in {"native", "deferred"}
      PROVE  /\ cs[j].base \in 1..m
             /\ (cs[j].k = "deferred" => cs[j - 1].then = "op") =>
                    GoesOn(L, gs[Under(cs, n, j)], cs[j].base)
  <2>1. Under(cs, n, j) \in 1..n - 1
    BY <1>1, <1>6, UnderFacts
  <2>2. gs[Under(cs, n, j)] = fs[Under(cs, n, j)]
    BY <1>2, <1>3, <2>1
  <2> QED
    BY <1>6, <2>2 DEF Awaited
<1>7. Awaited(L, gs, cs, m)
  BY <1>2, <1>5, <1>6 DEF Awaited
<1> QED
  BY <1>7

LEMMA AwaitedMore ==
  ASSUME NEW L, NEW fs, IsList(fs), fs # <<>>, NEW cs, NEW m, Awaited(L, fs, cs, m),
         Stacked(cs, Len(fs), "run"),
         NEW g, GoesOn(L, fs[Len(fs)], g.base + 1)
  PROVE  Awaited(L, Append(fs, g), cs, m)
<1> PICK n, gs : n = Len(fs) /\ gs = Append(fs, g)
  OBVIOUS
<1>1. n \in Nat /\ n \in 1..n /\ Stacked(cs, n, "run")
  BY ListFacts
<1>2. IsList(gs) /\ Len(gs) = n + 1 /\ gs[n + 1] = g /\ \A i \in 1..n : gs[i] = fs[i]
  BY AppendList
<1>3. \A i \in 1..(n + 1) - 1 : i = n \/ (i \in 1..n - 1 /\ i \in 1..n /\ i + 1 \in 1..n)
  BY <1>1
<1>4. ASSUME NEW i \in 1..(n + 1) - 1
      PROVE  \/ \E j \in 1..Len(cs) : cs[j].k = "run" /\ cs[j].base = i
             \/ GoesOn(L, gs[i], gs[i + 1].base + 1)
  <2>1. CASE i = n
    BY <1>1, <1>2, <2>1
  <2>2. CASE i # n
    <3>1. i \in 1..n - 1 /\ gs[i] = fs[i] /\ gs[i + 1] = fs[i + 1]
      BY <1>2, <1>3, <2>2
    <3> QED
      BY <3>1 DEF Awaited
  <2> QED
    BY <2>1, <2>2
<1>5. ASSUME NEW j \in 1..Len(cs), cs[j].k \in {"native", "deferred"}
      PROVE  /\ cs[j].base \in 1..m
             /\ (cs[j].k = "deferred" => cs[j - 1].then = "op") =>
                    GoesOn(L, gs[Under(cs, n + 1, j)], cs[j].base)
  <2>1. Under(cs, n, j) \in 1..n - 1 /\ j # Len(cs)
    BY <1>1, <1>5, UnderFacts
  <2>2. Under(cs, n + 1, j) = Under(cs, n, j)
    BY <2>1 DEF Under
  <2>3. Under(cs, n, j) \in 1..n
    BY <1>1, <2>1
  <2> QED
    BY <1>2, <1>5, <2>2, <2>3 DEF Awaited
<1>6. Awaited(L, gs, cs, m)
  BY <1>2, <1>4, <1>5 DEF Awaited
<1> QED
  BY <1>6

LEMMA AwaitedLess ==
  ASSUME NEW L, NEW fs, IsList(fs), fs # <<>>, NEW cs, NEW m, Awaited(L, fs, cs, m),
         Stacked(cs, Len(fs), "run")
  PROVE  Awaited(L, Pred(fs), cs, m)
<1> PICK n, gs : n = Len(fs) /\ gs = Pred(fs)
  OBVIOUS
<1>1. n \in Nat /\ Stacked(cs, n, "run")
  BY ListFacts
<1>2. IsList(gs) /\ Len(gs) = n - 1 /\ \A i \in 1..n - 1 : gs[i] = fs[i]
  BY PredList
<1>3. \A i \in 1..(n - 1) - 1 : i \in 1..n - 1 /\ i + 1 \in 1..n - 1
  BY <1>1
<1>4. ASSUME NEW i \in 1..(n - 1) - 1
      PROVE  \/ \E j \in 1..Len(cs) : cs[j].k = "run" /\ cs[j].base = i
             \/ GoesOn(L, gs[i], gs[i + 1].base + 1)
  <2>1. i \in 1..n - 1 /\ gs[i] = fs[i] /\ gs[i + 1] = fs[i + 1]
    BY <1>2, <1>3
  <2> QED
    BY <2>1 DEF Awaited
<1>5. ASSUME NEW j \in 1..Len(cs), cs[j].k \in {"native", "deferred"}
      PROVE  /\ cs[j].base \in 1..m
             /\ (cs[j].k = "deferred" => cs[j - 1].then = "op") =>
                    GoesOn(L, gs[Under(cs, n - 1, j)], cs[j].base)
  <2>1. Under(cs, n, j) \in 1..n - 1 /\ j # Len(cs)
    BY <1>1, <1>5, UnderFacts
  <2>2. Under(cs, n - 1, j) = Under(cs, n, j)
    BY <2>1 DEF Under
  <2> QED
    BY <1>2, <1>5, <2>1, <2>2 DEF Awaited
<1>6. Awaited(L, gs, cs, m)
  BY <1>2, <1>4, <1>5 DEF Awaited
<1> QED
  BY <1>6

\* The run on top is left, all its frames gone.
LEMMA AwaitedLeave ==
  ASSUME NEW L, NEW fs, IsList(fs), NEW cs, NEW m, Awaited(L, fs, cs, m),
         Stacked(cs, Len(fs), "unwind"), cs[Len(cs)].base = Len(fs)
  PROVE  Awaited(L, fs, Pred(cs), m)
<1> PICK n, z, ds : n = Len(fs) /\ z = Len(cs) /\ ds = Pred(cs)
  OBVIOUS
<1>1. n \in Nat /\ z \in Nat /\ IsList(cs) /\ cs # <<>> /\ cs[z].k = "run"
  BY TopActivation, ListFacts
<1>2. Len(ds) = z - 1 /\ \A i \in 1..z - 1 : ds[i] = cs[i]
  BY <1>1, PredList
<1>3. \A i \in 1..z : i = z \/ i \in 1..z - 1
  BY <1>1
<1>4. ASSUME NEW i \in 1..n - 1
      PROVE  \/ \E j \in 1..z - 1 : ds[j].k = "run" /\ ds[j].base = i
             \/ GoesOn(L, fs[i], fs[i + 1].base + 1)
  <2>1. CASE \E j \in 1..z : cs[j].k = "run" /\ cs[j].base = i
    <3>1. PICK j \in 1..z : cs[j].k = "run" /\ cs[j].base = i
      BY <2>1
    <3>2. j # z
      BY <1>1, <3>1
    <3> QED
      BY <1>2, <1>3, <3>1, <3>2
  <2> QED
    BY <2>1 DEF Awaited
<1>5. ASSUME NEW j \in 1..z - 1, ds[j].k \in {"native", "deferred"}
      PROVE  /\ ds[j].base \in 1..m
             /\ (ds[j].k = "deferred" => ds[j - 1].then = "op") =>
                    GoesOn(L, fs[Under(ds, n, j)], ds[j].base)
  <2>1. j \in 1..z /\ j # z /\ ds[j] = cs[j]
    BY <1>1, <1>2
  <2>2. j # 1
    BY <1>5, <2>1, UnderFacts
  <2>3. ds[j - 1] = cs[j - 1]
    BY <1>1, <1>2, <2>2
  <2>4. Under(ds, n, j) = Under(cs, n, j)
    <3>1. CASE j = z - 1
      <4>1. j + 1 = z
        BY <1>1, <3>1
      <4> QED
        BY <1>2, <2>1, <3>1, <4>1 DEF Under
    <3>2. CASE j # z - 1
      <4>1. j + 1 \in 1..z - 1
        BY <1>1, <3>2
      <4> QED
        BY <1>2, <2>1, <3>2, <4>1 DEF Under
    <3> QED
      BY <3>1, <3>2
  <2> QED
    BY <1>5, <2>1, <2>3, <2>4 DEF Awaited
<1>6. Awaited(L, fs, ds, m)
  BY <1>2, <1>4, <1>5 DEF Awaited
<1> QED
  BY <1>6

\* A native, a deferred block or the defers of a frame are done.
LEMMA AwaitedPop ==
  ASSUME NEW L, NEW fs, IsList(fs), NEW cs, NEW m, Awaited(L, fs, cs, m),
         NEW do, Stacked(cs, Len(fs), do), cs # <<>>, cs[Len(cs)].k # "run"
  PROVE  Awaited(L, fs, Pred(cs), m)
<1> PICK n, z, ds : n = Len(fs) /\ z = Len(cs) /\ ds = Pred(cs)
  OBVIOUS
<1>1. n \in Nat /\ z \in Nat /\ IsList(cs) /\ Stacked(cs, n, do) /\ cs[z].k # "run"
  BY ListFacts DEF Stacked
<1>2. Len(ds) = z - 1 /\ \A i \in 1..z - 1 : ds[i] = cs[i]
  BY <1>1, PredList
<1>3. \A i \in 1..z : i = z \/ i \in 1..z - 1
  BY <1>1
<1>4. ASSUME NEW i \in 1..n - 1
      PROVE  \/ \E j \in 1..z - 1 : ds[j].k = "run" /\ ds[j].base = i
             \/ GoesOn(L, fs[i], fs[i + 1].base + 1)
  <2>1. CASE \E j \in 1..z : cs[j].k = "run" /\ cs[j].base = i
    <3>1. PICK j \in 1..z : cs[j].k = "run" /\ cs[j].base = i
      BY <2>1
    <3>2. j # z
      BY <1>1, <3>1
    <3> QED
      BY <1>2, <1>3, <3>1, <3>2
  <2> QED
    BY <2>1 DEF Awaited
<1>5. ASSUME NEW j \in 1..z - 1, ds[j].k \in {"native", "deferred"}
      PROVE  /\ ds[j].base \in 1..m
             /\ (ds[j].k = "deferred" => ds[j - 1].then = "op") =>
                    GoesOn(L, fs[Under(ds, n, j)], ds[j].base)
  <2>1. j \in 1..z /\ j # z /\ ds[j] = cs[j]
    BY <1>1, <1>2
  <2>0. j \in 1..Len(cs) /\ j # Len(cs) /\ cs[j].k \in {"native", "deferred"}
    BY <1>5, <2>1
  <2>2. j # 1 /\ j + 1 \in 1..z /\ cs[j + 1].k = "run" /\ Under(cs, n, j) = cs[j + 1].base
    BY <1>1, <2>0, UnderFacts
  <2>3. ds[j - 1] = cs[j - 1]
    BY <1>1, <1>2, <2>2
  <2>4. j + 1 \in 1..z - 1 /\ j # z - 1
    BY <1>1, <1>3, <2>2
  <2>5. Under(ds, n, j) = Under(cs, n, j)
    BY <1>2, <2>2, <2>4 DEF Under
  <2> QED
    BY <1>5, <2>1, <2>3, <2>5 DEF Awaited
<1>6. Awaited(L, fs, ds, m)
  BY <1>2, <1>4, <1>5 DEF Awaited
<1> QED
  BY <1>6

\* The failure of a deferred block is noted.
LEMMA AwaitedNote ==
  ASSUME NEW L, NEW fs, IsList(fs), NEW cs, NEW m, Awaited(L, fs, cs, m),
         Stacked(cs, Len(fs), "defers"), NEW a, a.k = "defers"
  PROVE  Awaited(L, fs, With(cs, Len(cs), a), m)
<1> PICK n, z, ds : n = Len(fs) /\ z = Len(cs) /\ ds = With(cs, Len(cs), a)
  OBVIOUS
<1>1. n \in Nat /\ z \in Nat /\ IsList(cs) /\ Stacked(cs, n, "defers") /\ cs[z].k = "defers" /\ z \in 1..z
  BY TopActivation, ListFacts
<1>2. Len(ds) = z /\ ds[z] = a /\ \A i \in 1..z : i # z => ds[i] = cs[i]
  <2>1. IsList(cs) /\ z \in 1..Len(cs)
    BY <1>1
  <2> QED
    BY <2>1, WithList
<1>3. \A i \in 1..n - 1 : (\E j \in 1..z : cs[j].k = "run" /\ cs[j].base = i)
                          => \E j \in 1..z : ds[j].k = "run" /\ ds[j].base = i
  BY <1>1, <1>2
<1>4. ASSUME NEW j \in 1..z, ds[j].k \in {"native", "deferred"}
      PROVE  /\ ds[j].base \in 1..m
             /\ (ds[j].k = "deferred" => ds[j - 1].then = "op") =>
                    GoesOn(L, fs[Under(ds, n, j)], ds[j].base)
  <2>1. j # z /\ ds[j] = cs[j]
    BY <1>2, <1>4
  <2>2. j # 1 /\ j + 1 \in 1..z /\ cs[j + 1].k = "run" /\ Under(cs, n, j) = cs[j + 1].base
    BY <1>1, <1>4, <2>1, UnderFacts
  <2>3. ds[j - 1] = cs[j - 1] /\ ds[j + 1] = cs[j + 1]
    <3>1. j - 1 \in 1..z /\ j - 1 # z
      BY <1>1, <2>1, <2>2
    <3>2. j + 1 # z
      BY <1>1, <2>2
    <3> QED
      BY <1>2, <2>2, <3>1, <3>2
  <2>4. Under(ds, n, j) = Under(cs, n, j)
    BY <1>2, <2>1, <2>3 DEF Under
  <2> QED
    BY <1>4, <2>1, <2>3, <2>4 DEF Awaited
<1>5. Awaited(L, fs, ds, m)
  BY <1>2, <1>3, <1>4 DEF Awaited
<1> QED
  BY <1>5

\* runFrameDefers begins.
LEMMA AwaitedPush ==
  ASSUME NEW L, NEW fs, IsList(fs), NEW cs, NEW m, Awaited(L, fs, cs, m),
         Stacked(cs, Len(fs), "run"), NEW a, a.k = "defers"
  PROVE  Awaited(L, fs, Append(cs, a), m)
<1> PICK n, z, ds : n = Len(fs) /\ z = Len(cs) /\ ds = Append(cs, a)
  OBVIOUS
<1>1. n \in Nat /\ z \in Nat /\ IsList(cs) /\ Stacked(cs, n, "run")
  BY TopActivation, ListFacts
<1>2. Len(ds) = z + 1 /\ ds[z + 1] = a /\ \A i \in 1..z : ds[i] = cs[i]
  BY <1>1, AppendList
<1>3. \A i \in 1..z + 1 : i \in 1..z \/ i = z + 1
  BY <1>1
<1>4. \A i \in 1..z : i \in 1..z + 1
  BY <1>1
<1>5. \A i \in 1..n - 1 : (\E j \in 1..z : cs[j].k = "run" /\ cs[j].base = i)
                          => \E j \in 1..z + 1 : ds[j].k = "run" /\ ds[j].base = i
  BY <1>2, <1>4
<1>6. ASSUME NEW j \in 1..z + 1, ds[j].k \in {"native", "deferred"}
      PROVE  /\ ds[j].base \in 1..m
             /\ (ds[j].k = "deferred" => ds[j - 1].then = "op") =>
                    GoesOn(L, fs[Under(ds, n, j)], ds[j].base)
  <2>1. j \in 1..z /\ ds[j] = cs[j] /\ j # z + 1
    BY <1>1, <1>2, <1>3, <1>6
  <2>2. j # 1 /\ j + 1 \in 1..z /\ j # z /\ Under(cs, n, j) = cs[j + 1].base
    BY <1>1, <1>6, <2>1, UnderFacts
  <2>3. j - 1 \in 1..z
    BY <1>1, <2>2
  <2>4. ds[j - 1] = cs[j - 1] /\ ds[j + 1] = cs[j + 1]
    BY <1>2, <2>2, <2>3
  <2>5. Under(ds, n, j) = Under(cs, n, j)
    BY <1>2, <2>1, <2>2, <2>4 DEF Under
  <2> QED
    BY <1>6, <2>1, <2>4, <2>5 DEF Awaited
<1>7. \A i \in 1..n - 1 : \/ \E j \in 1..z + 1 : ds[j].k = "run" /\ ds[j].base = i
                          \/ GoesOn(L, fs[i], fs[i + 1].base + 1)
  BY <1>5 DEF Awaited
<1>8. Awaited(L, fs, ds, m)
  BY <1>2, <1>6, <1>7 DEF Awaited
<1> QED
  BY <1>8

\* A native or a deferred block starts a run, with a frame of its own.
LEMMA AwaitedCall ==
  ASSUME NEW L, NEW fs, IsList(fs), fs # <<>>, NEW cs, NEW m, Awaited(L, fs, cs, m),
         NEW do \in {"run", "defers"}, Stacked(cs, Len(fs), do),
         NEW a, a.k \in {"native", "deferred"}, a.base \in 1..m,
         (a.k = "deferred" => cs[Len(cs)].then = "op") => GoesOn(L, fs[Len(fs)], a.base),
         NEW b, b.k = "run", b.base = Len(fs), NEW g
  PROVE  Awaited(L, Append(fs, g), Append(Append(cs, a), b), m)
<1> PICK n, z, ds, es, gs : /\ n = Len(fs) /\ z = Len(cs)
                            /\ ds = Append(cs, a) /\ es = Append(ds, b) /\ gs = Append(fs, g)
  OBVIOUS
<1>1. n \in Nat /\ n \in 1..n /\ z \in Nat /\ IsList(cs) /\ Stacked(cs, n, do)
  BY TopActivation, ListFacts
<1>2. /\ Len(es) = z + 2 /\ es[z + 2] = b /\ es[z + 1] = a
      /\ \A i \in 1..z : es[i] = cs[i]
  <2>1. IsList(ds) /\ Len(ds) = z + 1 /\ ds[z + 1] = a /\ \A i \in 1..z : ds[i] = cs[i]
    BY <1>1, AppendList
  <2>2. /\ Len(es) = (z + 1) + 1 /\ es[(z + 1) + 1] = b
        /\ \A i \in 1..z + 1 : es[i] = ds[i]
    BY <2>1, AppendList
  <2>3. (z + 1) + 1 = z + 2 /\ z + 1 \in 1..z + 1 /\ \A i \in 1..z : i \in 1..z + 1
    BY <1>1
  <2> QED
    BY <2>1, <2>2, <2>3
<1>3. Len(gs) = n + 1 /\ \A i \in 1..n : gs[i] = fs[i]
  BY AppendList
<1>4. \A i \in 1..z + 2 : i \in 1..z \/ i = z + 1 \/ i = z + 2
  BY <1>1
<1>5. \A i \in 1..z : i \in 1..z + 2
  BY <1>1
<1>6. ASSUME NEW i \in 1..(n + 1) - 1
      PROVE  \/ \E j \in 1..z + 2 : es[j].k = "run" /\ es[j].base = i
             \/ GoesOn(L, gs[i], gs[i + 1].base + 1)
  <2>1. CASE i = n
    <3>1. z + 2 \in 1..z + 2
      BY <1>1
    <3> QED
      BY <1>2, <2>1, <3>1
  <2>2. CASE i # n
    <3>1. i \in 1..n - 1 /\ i \in 1..n /\ i + 1 \in 1..n
      BY <1>1, <2>2
    <3>2. gs[i] = fs[i] /\ gs[i + 1] = fs[i + 1]
      BY <1>3, <3>1
    <3>3. \/ \E j \in 1..z : cs[j].k = "run" /\ cs[j].base = i
          \/ GoesOn(L, fs[i], fs[i + 1].base + 1)
      BY <3>1 DEF Awaited
    <3> QED
      BY <1>2, <1>5, <3>2, <3>3
  <2> QED
    BY <2>1, <2>2
<1>7. ASSUME NEW j \in 1..z + 2, es[j].k \in {"native", "deferred"}
      PROVE  /\ es[j].base \in 1..m
             /\ (es[j].k = "deferred" => es[j - 1].then = "op") =>
                    GoesOn(L, gs[Under(es, n + 1, j)], es[j].base)
  <2>1. CASE j \in 1..z
    <3>1. es[j] = cs[j]
      BY <1>2, <2>1
    <3>0. j \in 1..Len(cs) /\ cs[j].k \in {"native", "deferred"}
      BY <1>7, <2>1, <3>1
    <3>2. j # 1 /\ j + 1 \in 1..z /\ j # z /\ Under(cs, n, j) = cs[j + 1].base
          /\ Under(cs, n, j) \in 1..n
      <4>1. n \in Nat /\ Stacked(cs, n, do) /\ do \in {"run", "defers"}
        BY <1>1
      <4>2. /\ Under(cs, n, j) \in 1..n - 1 /\ j # 1
            /\ j + 1 \in 1..Len(cs) /\ j # Len(cs) /\ Under(cs, n, j) = cs[j + 1].base
        BY ONLY <3>0, <4>1, UnderFacts
      <4>3. \A i \in 1..n - 1 : i \in 1..n
        BY <1>1
      <4> QED
        BY <4>2, <4>3
    <3>3. j - 1 \in 1..z /\ j # z + 2
      BY <1>1, <3>2, <2>1
    <3>4. es[j - 1] = cs[j - 1] /\ es[j + 1] = cs[j + 1]
      BY <1>2, <3>2, <3>3
    <3>5. Under(es, n + 1, j) = Under(cs, n, j)
      BY <1>2, <3>2, <3>3, <3>4 DEF Under
    <3>6. gs[Under(cs, n, j)] = fs[Under(cs, n, j)]
      BY <1>3, <3>2
    <3> QED
      BY <1>7, <2>1, <3>1, <3>4, <3>5, <3>6 DEF Awaited
  <2>2. CASE j = z + 1
    <3>1. z \in 1..z
      BY <1>1, TopActivation
    <3>2. j # z + 2 /\ j + 1 = z + 2 /\ j - 1 = z /\ es[z] = cs[z]
      BY <1>1, <1>2, <2>2, <3>1
    <3>3. Under(es, n + 1, j) = n /\ gs[n] = fs[n]
      BY <1>1, <1>2, <1>3, <3>2 DEF Under
    <3> QED
      BY <1>2, <2>2, <3>2, <3>3
  <2>3. CASE j = z + 2
    BY <1>2, <1>7, <2>3
  <2> QED
    BY <1>4, <2>1, <2>2, <2>3
<1>8. Awaited(L, gs, es, m)
  BY <1>2, <1>3, <1>6, <1>7 DEF Awaited
<1> QED
  BY <1>8

-----------------------------------------------------------------------------
(* The state, when an instruction or the unwinder works at the top frame.    *)

LEMMA AsRun ==
  ASSUME DefersInv, ctl.do = "run" \/ Unwinding
  PROVE  Stacked(cstack, Len(frames), "run")
<1> PICK cs, n, do : cs = cstack /\ n = Len(frames) /\ do = ctl.do
  OBVIOUS
<1>1. Stacked(cs, n, do) /\ do \in {"run", "unwind"} /\ n \in Nat
  BY InFrame DEF DefersInv, CStackOK, Unwinding
<1>2. cs[Len(cs)].base \in Nat /\ cs[Len(cs)].base < n
  BY InFrame DEF RunBase, Unwinding
<1>3. n > cs[Len(cs)].base /\ n >= cs[Len(cs)].base
  BY <1>1, <1>2
<1>4. Stacked(cs, n, "run")
  BY <1>1, <1>3, StackedAt
<1> QED
  BY <1>4

LEMMA Here ==
  ASSUME DefersInv, DepthInv, ctl.do \in {"run", "defers"} \/ Unwinding
  PROVE  /\ frames # <<>> /\ IsList(frames) /\ Len(frames) \in Nat /\ Len(frames) \in 1..Len(frames)
         /\ DOMAIN Frame = FrameFields
         /\ FrameHeld(loaded, Frame, Len(mem))
         /\ IsList(mem) /\ Len(mem) \in Nat /\ top \in 1..Len(mem)
         /\ CodeOK(prog, loaded)
         /\ ctl.do # "defers" => Stacked(cstack, Len(frames), "run")
         /\ ctl.do = "defers" => Stacked(cstack, Len(frames), "defers")
<1>1. frames # <<>> /\ IsList(frames) /\ Len(frames) \in Nat /\ Len(frames) \in 1..Len(frames)
      /\ DOMAIN Frame = FrameFields
  BY InFrame
<1>2. FrameHeld(loaded, Frame, Len(mem))
  BY <1>1 DEF DepthInv, Held, Frame
<1>3. IsList(mem) /\ Len(mem) \in Nat
  BY ListFacts DEF DepthInv, Values
<1>4. top \in 1..Len(mem)
  BY <1>1, <1>3 DEF DepthInv, TopHeld
<1>5. ctl.do # "defers" => Stacked(cstack, Len(frames), "run")
  BY AsRun
<1>6. ctl.do = "defers" => Stacked(cstack, Len(frames), "defers")
  BY DEF DefersInv, CStackOK
<1> QED
  BY <1>1, <1>2, <1>3, <1>4, <1>5, <1>6 DEF DepthInv

At(f, pc) == [f EXCEPT !.pc = pc]
TopAt(fs, pc) == With(fs, Len(fs), At(fs[Len(fs)], pc))

LEMMA PcMoved ==
  ASSUME NEW L, NEW fs, IsList(fs), fs # <<>>, DOMAIN fs[Len(fs)] = FrameFields,
         NEW m, Held(L, fs, m), NEW hs, Owned(L, fs, hs, m),
         NEW cs, Awaited(L, fs, cs, m), Stacked(cs, Len(fs), "run"), NEW pc
  PROVE  Held(L, TopAt(fs, pc), m) /\ Owned(L, TopAt(fs, pc), hs, m) /\ Awaited(L, TopAt(fs, pc), cs, m)
<1> PICK f, g, gs : f = fs[Len(fs)] /\ g = [f EXCEPT !.pc = pc] /\ gs = With(fs, Len(fs), g)
  OBVIOUS
<1>1. Len(fs) \in Nat /\ Len(fs) \in 1..Len(fs)
  BY ListFacts
<1>2. /\ g.fn = f.fn /\ g.slots = f.slots /\ g.base = f.base /\ g.handlerBase = f.handlerBase
  BY DEF FrameFields
<1>3. FrameHeld(L, g, m)
  <2>1. FrameHeld(L, f, m)
    BY <1>1 DEF Held
  <2> QED
    BY <1>2, <2>1, SameFloor
<1>4. Held(L, gs, m)
  BY <1>2, <1>3, HeldTop
<1>5. Owned(L, gs, hs, m)
  BY <1>2, OwnedTop
<1>6. Awaited(L, gs, cs, m)
  BY <1>2, AwaitedTop
<1> QED
  BY <1>4, <1>5, <1>6 DEF TopAt, At

LEMMA TopAtFacts ==
  ASSUME NEW fs, IsList(fs), fs # <<>>, DOMAIN fs[Len(fs)] = FrameFields, NEW pc
  PROVE  /\ IsList(TopAt(fs, pc)) /\ Len(TopAt(fs, pc)) = Len(fs) /\ TopAt(fs, pc) # <<>>
         /\ TopAt(fs, pc)[Len(fs)] = At(fs[Len(fs)], pc)
         /\ DOMAIN At(fs[Len(fs)], pc) = FrameFields
         /\ \A i \in 1..Len(fs) : i # Len(fs) => TopAt(fs, pc)[i] = fs[i]
<1> PICK g, gs : g = At(fs[Len(fs)], pc) /\ gs = With(fs, Len(fs), g)
  OBVIOUS
<1>1. Len(fs) \in Nat /\ Len(fs) \in 1..Len(fs)
  BY ListFacts
<1>2. IsList(gs) /\ Len(gs) = Len(fs) /\ gs[Len(fs)] = g
      /\ \A i \in 1..Len(fs) : i # Len(fs) => gs[i] = fs[i]
  BY <1>1, WithList
<1>3. gs # <<>>
  BY <1>1, <1>2, ListFacts
<1>4. DOMAIN g = FrameFields
  BY DEF At
<1> QED
  BY <1>2, <1>3, <1>4 DEF TopAt

LEMMA AtGoesOn ==
  ASSUME NEW L, NEW f, DOMAIN f = FrameFields, NEW pc, NEW h
  PROVE  /\ GoesOn(L, At(f, pc), h) <=> GoesOnAt(L, f, pc, h)
         /\ At(f, pc).fn = f.fn /\ At(f, pc).slots = f.slots /\ At(f, pc).base = f.base
         /\ At(f, pc).handlerBase = f.handlerBase /\ At(f, pc).deferBase = f.deferBase
         /\ At(f, pc).pc = pc
<1> PICK g : g = At(f, pc)
  OBVIOUS
<1>1. /\ g.fn = f.fn /\ g.slots = f.slots /\ g.base = f.base
      /\ g.handlerBase = f.handlerBase /\ g.deferBase = f.deferBase /\ g.pc = pc
  BY DEF At, FrameFields
<1>2. GoesOnAt(L, f, pc, h) <=> GoesOnAt(L, g, pc, h)
  BY ONLY <1>1, SameFloor
<1> QED
  BY <1>1, <1>2 DEF GoesOn

LEMMA GotoIs ==
  ASSUME NEW pc, Goto(pc)
  PROVE  frames' = TopAt(frames, pc)
BY DEF Goto, With, TopAt, At

\* The top frame moves on, and the stack, its contents and the handlers change.
LEMMA Moved ==
  ASSUME DefersInv, DepthInv, ctl.do = "run" \/ Unwinding, NEW pc, Goto(pc),
         UNCHANGED <<program, cstack>>,
         IsList(mem'), Len(mem') >= Len(mem), \A i \in 1..Len(mem') : ValueOK(prog, mem'[i]),
         ValueOK(prog, pendingException'),
         top' \in 1..Len(mem'),
         Owned(loaded, frames, handlers', Len(mem')),
         ctl'.do \in {"run", "unwind"},
         ctl'.do = "run" => GoesOnAt(loaded, Frame, pc, top')
  PROVE  DepthInv'
<1> PICK L, fs, gs, m, k, hs, cs :
      /\ L = loaded /\ fs = frames /\ gs = TopAt(fs, pc) /\ m = Len(mem) /\ k = Len(mem')
      /\ hs = handlers' /\ cs = cstack
  OBVIOUS
<1>1. /\ IsList(fs) /\ fs # <<>> /\ DOMAIN fs[Len(fs)] = FrameFields
      /\ m \in Nat /\ k \in Nat /\ k >= m
      /\ Stacked(cs, Len(fs), "run")
  <2>1. ctl.do # "defers"
    BY DEF Unwinding
  <2>2. k \in Nat
    BY ListFacts
  <2> QED
    BY <2>1, <2>2, Here DEF Frame
<1>2. Held(L, fs, k) /\ Owned(L, fs, hs, k) /\ Awaited(L, fs, cs, k)
  <2>1. Held(L, fs, m) /\ Awaited(L, fs, cs, m)
    BY DEF DepthInv
  <2> QED
    BY <1>1, <2>1, HeldUp, AwaitedUp
<1>3. /\ Held(L, gs, k) /\ Owned(L, gs, hs, k) /\ Awaited(L, gs, cs, k)
      /\ IsList(gs) /\ Len(gs) = Len(fs) /\ gs # <<>> /\ gs[Len(gs)] = At(fs[Len(fs)], pc)
  <2>1. Held(L, gs, k) /\ Owned(L, gs, hs, k) /\ Awaited(L, gs, cs, k)
    BY <1>1, <1>2, PcMoved
  <2>2. IsList(gs) /\ Len(gs) = Len(fs) /\ gs # <<>> /\ gs[Len(fs)] = At(fs[Len(fs)], pc)
    BY <1>1, TopAtFacts
  <2> QED
    BY <2>1, <2>2
<1>4. frames' = gs /\ loaded' = L /\ prog' = prog /\ cstack' = cs
  BY GotoIs DEF program
<1>5. CodeOK(prog, loaded)' /\ Held(loaded, frames, Len(mem))' /\ Owned(loaded, frames, handlers, Len(mem))'
      /\ Awaited(loaded, frames, cstack, Len(mem))'
  <2>1. CodeOK(prog, loaded)
    BY DEF DepthInv
  <2> QED
    BY <1>3, <1>4, <2>1
<1>6. Values(prog, mem, pendingException, cstack)'
  BY <1>4 DEF DepthInv, Values
<1>7. TopHeld'
  <2>1. top' \in 0..Len(mem') /\ top' >= 1
    BY <1>1
  <2>2. ctl'.do = "run" => GoesOn(loaded', frames'[Len(frames')], top')
    <3> PICK t : t = top'
      OBVIOUS
    <3>1. ctl'.do = "run" => GoesOnAt(L, fs[Len(fs)], pc, t)
      BY DEF Frame
    <3>2. ctl'.do = "run" => GoesOn(L, At(fs[Len(fs)], pc), t)
      BY ONLY <1>1, <3>1, AtGoesOn
    <3> QED
      BY <1>3, <1>4, <3>2
  <2> QED
    BY <2>1, <2>2 DEF TopHeld, Frame
<1> QED
  BY <1>5, <1>6, <1>7 DEF DepthInv

-----------------------------------------------------------------------------
(* The instruction that runs.                                                *)

LEMMA Instruction ==
  ASSUME DefersInv, DepthInv, ctl.do = "run"
  PROVE  /\ InstructionOK(prog, loaded, Proto, Frame.pc)
         /\ GoesOn(loaded, Frame, top) /\ Ins = loaded[Frame.fn].code[Frame.pc]
         /\ ValueOK(prog, Peek)
<1> PICK L, f, m, p, h : L = loaded /\ f = Frame /\ m = Len(mem) /\ p = prog /\ h = top
  OBVIOUS
<1>1. FrameHeld(L, f, m) /\ m \in Nat /\ h \in 1..m /\ CodeOK(p, L)
  BY Here
<1>2. GoesOn(L, f, h)
  BY DEF DepthInv, TopHeld
<1>3. InstructionOK(p, L, L[f.fn], f.pc)
  BY <1>1, <1>2, InstructionAt
<1>4. ValueOK(prog, Peek)
  BY <1>1 DEF DepthInv, Values, Peek
<1> QED
  BY <1>2, <1>3, <1>4 DEF Proto, Ins

LEMMA Fits ==
  ASSUME DefersInv, DepthInv, ctl.do = "run", NEW a, fallEffect(Ins).pops = a
  PROVE  a \in Nat /\ a + 1 <= top /\ top - a \in 1..Len(mem) /\ top \in Nat
<1> PICK L, f, m, p, h, d, k, c :
      /\ L = loaded /\ f = Frame /\ m = Len(mem) /\ p = prog /\ h = top
      /\ c = L[f.fn] /\ d = c.depth[f.pc] /\ k = Floor(L, f)
  OBVIOUS
<1>1. FrameHeld(L, f, m) /\ m \in Nat /\ h \in 1..m /\ CodeOK(p, L)
  BY Here
<1>2. GoesOn(L, f, h) /\ fallEffect(c.code[f.pc]).pops = a
  BY Instruction
<1>3. InstructionOK(p, L, c, f.pc) /\ h = k + d /\ d \in Nat
  BY <1>1, <1>2, InstructionAt
<1>4. a \in Nat /\ a <= d
  BY <1>2, <1>3 DEF InstructionOK
<1>5. k \in Nat /\ k >= 1
  BY <1>1, FloorIn
<1>6. a + 1 <= h /\ h - a \in 1..m /\ h \in Nat
  BY ONLY <1>1, <1>3, <1>4, <1>5
<1> QED
  BY <1>4, <1>6

LEMMA Falls ==
  ASSUME DefersInv, DepthInv, ctl.do = "run", jaiOpFallsThrough(Ins[1]),
         NEW a, NEW b \in Nat, fallEffect(Ins) = [pops |-> a, pushes |-> b]
  PROVE  GoesOnAt(loaded, Frame, Frame.pc + 1, top - a + b)
<1> PICK L, f, m, p, h, ins, e :
      /\ L = loaded /\ f = Frame /\ m = Len(mem) /\ p = prog /\ h = top
      /\ ins = Ins /\ e = fallEffect(ins)
  OBVIOUS
<1>1. FrameHeld(L, f, m) /\ m \in Nat /\ CodeOK(p, L)
  BY Here
<1>2. GoesOn(L, f, h) /\ ins = L[f.fn].code[f.pc] /\ jaiOpFallsThrough(ins[1])
      /\ e = fallEffect(ins) /\ e.pushes \in Nat
  BY Instruction
<1>3. GoesOnAt(L, f, f.pc + 1, h - e.pops + e.pushes)
  BY ONLY <1>1, <1>2, FallsTo
<1>4. e.pops = a /\ e.pushes = b
  OBVIOUS
<1> QED
  BY <1>3, <1>4

LEMMA Branches ==
  ASSUME DefersInv, DepthInv, ctl.do = "run", opBranchIsEdge(Ins[1]),
         NEW n, n = IF Ins[1] \in {"JUMP_IF_TRUE", "FOR_ITER"} THEN top - 1 ELSE top
  PROVE  GoesOnAt(loaded, Frame, Frame.pc + 1 + Ins[2], n)
<1> PICK L, f, m, p, h, ins :
      /\ L = loaded /\ f = Frame /\ m = Len(mem) /\ p = prog /\ h = top
      /\ ins = Ins
  OBVIOUS
<1>1. FrameHeld(L, f, m) /\ m \in Nat /\ CodeOK(p, L)
  BY Here
<1>2. GoesOn(L, f, h) /\ ins = L[f.fn].code[f.pc] /\ opBranchIsEdge(ins[1])
      /\ n = IF ins[1] \in {"JUMP_IF_TRUE", "FOR_ITER"} THEN h - 1 ELSE h
  BY Instruction
<1>3. GoesOnAt(L, f, f.pc + 1 + ins[2], n)
  BY ONLY <1>1, <1>2, BranchesTo
<1> QED
  BY <1>3

\* The stack is as it was, but for its height.
LEMMA Stays ==
  ASSUME DefersInv, DepthInv, ctl.do = "run", NEW pc, Goto(pc),
         UNCHANGED <<program, cstack, handlers, mem, pendingException>>,
         top' \in 1..Len(mem), ctl'.do \in {"run", "unwind"},
         ctl'.do = "run" => GoesOnAt(loaded, Frame, pc, top')
  PROVE  DepthInv'
<1>1. /\ IsList(mem') /\ Len(mem') >= Len(mem) /\ \A i \in 1..Len(mem') : ValueOK(prog, mem'[i])
      /\ ValueOK(prog, pendingException')
  BY Here DEF DepthInv, Values
<1>2. Owned(loaded, frames, handlers', Len(mem'))
  BY DEF DepthInv
<1> QED
  BY <1>1, <1>2, Moved

LEMMA Thrown ==
  ASSUME DefersInv, DepthInv, ctl.do = "run", NEW e, Throw(e), ValueOK(prog, e),
         UNCHANGED <<program, cstack, handlers, mem>>, top' \in 1..Len(mem)
  PROVE  DepthInv'
<1>1. PICK pc : Goto(pc)
  BY DEF Throw, Next1
<1>2. /\ IsList(mem') /\ Len(mem') >= Len(mem) /\ \A i \in 1..Len(mem') : ValueOK(prog, mem'[i])
      /\ ValueOK(prog, pendingException')
  BY Here DEF DepthInv, Values, Throw
<1>3. Owned(loaded, frames, handlers', Len(mem'))
  BY DEF DepthInv
<1>4. ctl'.do = "unwind"
  BY DEF Throw
<1> QED
  BY <1>1, <1>2, <1>3, <1>4, Moved

LEMMA Pushed ==
  ASSUME DefersInv, DepthInv, ctl.do = "run", Next1, NEW v, Push(v), ValueOK(prog, v),
         UNCHANGED <<program, cstack, handlers, pendingException, ctl>>,
         jaiOpFallsThrough(Ins[1]), fallEffect(Ins) = [pops |-> 0, pushes |-> 1]
  PROVE  DepthInv'
<1> PICK m, h, p, pc, q : m = mem /\ h = top /\ p = prog /\ pc = Frame.pc + 1 /\ q = Put(m, h + 1, v)
  OBVIOUS
<1>1. IsList(m) /\ (\A i \in 1..Len(m) : ValueOK(p, m[i])) /\ Len(m) \in Nat /\ h \in 1..Len(m)
  BY Here DEF DepthInv, Values
<1>2. IsList(q) /\ Len(q) \in Nat /\ Len(q) >= Len(m) /\ Len(q) >= h + 1
      /\ \A i \in 1..Len(q) : ValueOK(p, q[i])
  <2>1. h + 1 \in Nat /\ h + 1 >= 1 /\ h + 1 <= Len(m) + 1
    BY <1>1
  <2> QED
    BY <1>1, <2>1, PutList
<1>3. mem' = q /\ top' = h + 1 /\ Goto(pc)
  BY DEF Push, Next1
<1>4. GoesOnAt(loaded, Frame, pc, h + 1)
  <2>1. GoesOnAt(loaded, Frame, Frame.pc + 1, top - 0 + 1)
    BY Falls
  <2>2. h - 0 + 1 = h + 1
    BY <1>1
  <2> QED
    BY <2>1, <2>2
<1>5. h + 1 \in 1..Len(q)
  BY <1>1, <1>2
<1>6. Owned(loaded, frames, handlers', Len(q))
  <2>1. Owned(loaded, frames, handlers, Len(m))
    BY DEF DepthInv
  <2> PICK L, fs, hs, x, y : L = loaded /\ fs = frames /\ hs = handlers /\ x = Len(m) /\ y = Len(q)
    OBVIOUS
  <2>2. x \in Nat /\ y \in Nat /\ y >= x /\ Owned(L, fs, hs, x)
    BY <1>1, <1>2, <2>1
  <2>3. Owned(L, fs, hs, y)
    BY ONLY <2>2, OwnedUp
  <2> QED
    BY <2>3
<1>7. ValueOK(prog, pendingException')
  BY DEF DepthInv, Values
<1>8. ctl'.do = "run"
  OBVIOUS
<1> QED
  BY <1>2, <1>3, <1>4, <1>5, <1>6, <1>7, <1>8, Moved

-----------------------------------------------------------------------------
(* One lemma per kind of step.                                               *)

\* What an instruction is said to take and to leave.
LEMMA Takes ==
  ASSUME NEW ins
  PROVE  /\ ins[1] \in {"CONST", "GET_GLOBAL", "FOR_ITER", "GET_EXC", "MATCH_EXC"} =>
              jaiOpFallsThrough(ins[1]) /\ fallEffect(ins) = [pops |-> 0, pushes |-> 1]
         /\ ins[1] \in {"POP", "SHOW", "JUMP_IF_TRUE"} =>
              jaiOpFallsThrough(ins[1]) /\ fallEffect(ins) = [pops |-> 1, pushes |-> 0]
         /\ ins[1] = "POPN" =>
              jaiOpFallsThrough(ins[1]) /\ fallEffect(ins) = [pops |-> ins[2], pushes |-> 0]
         /\ ins[1] \in {"CALL", "TAIL_CALL", "GET_ITER"} =>
              jaiOpFallsThrough(ins[1]) /\ fallEffect(ins) = [pops |-> 1, pushes |-> 1]
         /\ ins[1] \in {"RETURN", "THROW"} => fallEffect(ins) = [pops |-> 1, pushes |-> 0]
         /\ ins[1] \in {"MARK", "PUSH_HANDLER", "PUSH_FINALLY", "POP_HANDLER", "END_FINALLY",
                        "PUSH_DEFER", "RUN_DEFERS"} =>
              jaiOpFallsThrough(ins[1]) /\ fallEffect(ins) = [pops |-> 0, pushes |-> 0]
         /\ ins[1] \in {"JUMP", "LOOP", "JUMP_IF_TRUE", "FOR_ITER"} => opBranchIsEdge(ins[1])
<1>1. ins[1] \in {"CONST", "GET_GLOBAL", "FOR_ITER", "GET_EXC", "MATCH_EXC"} =>
        jaiOpFallsThrough(ins[1]) /\ fallEffect(ins) = [pops |-> 0, pushes |-> 1]
  BY DEF jaiOpFallsThrough, fallEffect
<1>2. ins[1] \in {"POP", "SHOW", "JUMP_IF_TRUE"} =>
        jaiOpFallsThrough(ins[1]) /\ fallEffect(ins) = [pops |-> 1, pushes |-> 0]
  BY DEF jaiOpFallsThrough, fallEffect
<1>3. ins[1] = "POPN" =>
        jaiOpFallsThrough(ins[1]) /\ fallEffect(ins) = [pops |-> ins[2], pushes |-> 0]
  BY DEF jaiOpFallsThrough, fallEffect
<1>4. ins[1] \in {"CALL", "TAIL_CALL", "GET_ITER"} =>
        jaiOpFallsThrough(ins[1]) /\ fallEffect(ins) = [pops |-> 1, pushes |-> 1]
  BY DEF jaiOpFallsThrough, fallEffect
<1>5. ins[1] \in {"RETURN", "THROW"} => fallEffect(ins) = [pops |-> 1, pushes |-> 0]
  BY DEF fallEffect
<1>6. ins[1] \in {"MARK", "PUSH_HANDLER", "PUSH_FINALLY", "POP_HANDLER", "END_FINALLY",
                  "PUSH_DEFER", "RUN_DEFERS"} =>
        jaiOpFallsThrough(ins[1]) /\ fallEffect(ins) = [pops |-> 0, pushes |-> 0]
  BY DEF jaiOpFallsThrough, fallEffect
<1>7. ins[1] \in {"JUMP", "LOOP", "JUMP_IF_TRUE", "FOR_ITER"} => opBranchIsEdge(ins[1])
  BY DEF opBranchIsEdge, jaiOpBranchOperandAt, Registers
<1> QED
  BY <1>1, <1>2, <1>3, <1>4, <1>5, <1>6, <1>7

LEMMA ValueSteps ==
  ASSUME DefersInv, DepthInv, Const \/ GetGlobal \/ MatchExc \/ GetExc
  PROVE  DepthInv'
<1> PICK ins, p, pe : ins = Ins /\ p = prog /\ pe = pendingException
  OBVIOUS
<1>1. /\ ctl.do = "run" /\ Next1 /\ UNCHANGED <<program, cstack, handlers, pendingException, ctl>>
      /\ ins[1] \in {"CONST", "GET_GLOBAL", "MATCH_EXC", "GET_EXC"}
  BY DEF Const, GetGlobal, MatchExc, GetExc, Running, exn, lists
<1>2. jaiOpFallsThrough(ins[1]) /\ fallEffect(ins) = [pops |-> 0, pushes |-> 1]
  BY <1>1, Takes
<1>3. \E v : Push(v) /\ ValueOK(p, v)
  <2>1. InstructionOK(p, loaded, Proto, Frame.pc) /\ ins = Proto.code[Frame.pc]
    BY <1>1, Instruction DEF Ins
  <2>2. CASE Const
    <3>1. ins[1] = "CONST" /\ Push(ins[2])
      BY <2>2 DEF Const, Running
    <3>2. ValueOK(p, ins[2])
      BY <2>1, <3>1 DEF InstructionOK
    <3> QED
      BY <3>1, <3>2
  <2>3. CASE GetGlobal
    <3>1. ins[1] = "GET_GLOBAL" /\ Push(<<"fn", Fn(p[ins[2]])>>)
      BY <2>3 DEF GetGlobal, Running
    <3>2. ins[2] \in {"f", "g"}
      BY <2>1, <3>1 DEF InstructionOK
    <3>3. Fn(p[ins[2]]) \in Callable(p)
      BY <3>2 DEF Callable
    <3>4. ValueOK(p, <<"fn", Fn(p[ins[2]])>>)
      BY <3>3 DEF ValueOK
    <3> QED
      BY <3>1, <3>4
  <2>4. CASE MatchExc
    <3>1. PICK b : Push(<<"bool", b>>)
      BY <2>4 DEF MatchExc
    <3>2. ValueOK(p, <<"bool", b>>)
      BY DEF ValueOK
    <3> QED
      BY <3>1, <3>2
  <2>5. CASE GetExc
    <3>1. Push(pe) /\ ValueOK(p, pe)
      BY <2>5 DEF GetExc, DepthInv, Values
    <3> QED
      BY <3>1
  <2> QED
    BY <2>2, <2>3, <2>4, <2>5
<1>4. PICK v : Push(v) /\ ValueOK(p, v)
  BY <1>3
<1> QED
  BY <1>1, <1>2, <1>4, Pushed

LEMMA PlainSteps ==
  ASSUME DefersInv, DepthInv, Pop \/ Mark \/ Show \/ Jump \/ EndFinally
  PROVE  DepthInv'
<1> PICK ins, pc, h : ins = Ins /\ pc = Frame.pc + 1 /\ h = top
  OBVIOUS
<1>1. /\ ctl.do = "run" /\ UNCHANGED <<program, cstack, handlers, mem, pendingException>>
      /\ ctl'.do \in {"run", "unwind"}
  BY DEF Pop, Mark, Show, Jump, EndFinally, Running, Drop, exn, lists
<1>2. h \in 1..Len(mem) /\ Len(mem) \in Nat
  BY <1>1, Here
<1>3. CASE Pop
  <2>1. PICK a : a = fallEffect(ins).pops
    OBVIOUS
  <2>2. jaiOpFallsThrough(ins[1]) /\ fallEffect(ins) = [pops |-> a, pushes |-> 0]
        /\ a = IF ins[1] = "POP" THEN 1 ELSE ins[2]
    <3>1. ins[1] \in {"POP", "POPN"}
      BY <1>3 DEF Pop
    <3> QED
      BY <2>1, <3>1, Takes
  <2>3. Goto(pc) /\ top' = h - a
    BY <1>3, <2>2 DEF Pop, Next1, Drop
  <2>4. h - a \in 1..Len(mem) /\ a \in Nat
    BY <1>1, <2>1, Fits
  <2>5. GoesOnAt(loaded, Frame, pc, h - a)
    <3>1. GoesOnAt(loaded, Frame, Frame.pc + 1, top - a + 0)
      BY <1>1, <2>2, Falls
    <3>2. h - a + 0 = h - a
      BY <1>2, <2>4
    <3> QED
      BY <3>1, <3>2
  <2> QED
    BY <1>1, <2>3, <2>4, <2>5, Stays
<1>4. CASE Show
  <2>1. jaiOpFallsThrough(ins[1]) /\ fallEffect(ins) = [pops |-> 1, pushes |-> 0]
    BY <1>4, Takes DEF Show, Running
  <2>2. Goto(pc) /\ top' = h - 1
    BY <1>4 DEF Show, Next1, Drop
  <2>3. h - 1 \in 1..Len(mem)
    BY <1>1, <2>1, Fits
  <2>4. GoesOnAt(loaded, Frame, pc, h - 1)
    <3>1. GoesOnAt(loaded, Frame, Frame.pc + 1, top - 1 + 0)
      BY <1>1, <2>1, Falls
    <3>2. h - 1 + 0 = h - 1
      BY <1>2
    <3> QED
      BY <3>1, <3>2
  <2> QED
    BY <1>1, <2>2, <2>3, <2>4, Stays
<1>5. CASE Mark \/ EndFinally
  <2>1. jaiOpFallsThrough(ins[1]) /\ fallEffect(ins) = [pops |-> 0, pushes |-> 0]
    BY <1>5, Takes DEF Mark, EndFinally, Running
  <2>2. Goto(pc) /\ top' = h
    BY <1>5 DEF Mark, EndFinally, Next1
  <2>3. GoesOnAt(loaded, Frame, pc, h)
    <3>1. GoesOnAt(loaded, Frame, Frame.pc + 1, top - 0 + 0)
      BY <1>1, <2>1, Falls
    <3>2. h - 0 + 0 = h
      BY <1>2
    <3> QED
      BY <3>1, <3>2
  <2> QED
    BY <1>1, <1>2, <2>2, <2>3, Stays
<1>6. CASE Jump
  <2> PICK to : to = Frame.pc + 1 + Ins[2]
    OBVIOUS
  <2>1. opBranchIsEdge(ins[1]) /\ ins[1] \notin {"JUMP_IF_TRUE", "FOR_ITER"}
    BY <1>6, Takes DEF Jump
  <2>2. Goto(to) /\ top' = h
    BY <1>6 DEF Jump
  <2>3. GoesOnAt(loaded, Frame, to, h)
    BY <1>1, <2>1, Branches
  <2> QED
    BY <1>1, <1>2, <2>2, <2>3, Stays
<1> QED
  BY <1>3, <1>4, <1>5, <1>6

LEMMA BranchSteps ==
  ASSUME DefersInv, DepthInv, JumpIfTrue \/ ForIter
  PROVE  DepthInv'
<1> PICK ins, pc, to, h : ins = Ins /\ pc = Frame.pc + 1 /\ to = Frame.pc + 1 + Ins[2] /\ h = top
  OBVIOUS
<1>1. ctl.do = "run" /\ UNCHANGED <<program, cstack, handlers>>
      /\ ins[1] \in {"JUMP_IF_TRUE", "FOR_ITER"}
  BY DEF JumpIfTrue, ForIter, Running, lists
<1>2. h \in 1..Len(mem) /\ Len(mem) \in Nat
  BY <1>1, Here
<1>3. jaiOpFallsThrough(ins[1]) /\ opBranchIsEdge(ins[1])
      /\ (ins[1] = "JUMP_IF_TRUE" => fallEffect(ins) = [pops |-> 1, pushes |-> 0])
      /\ (ins[1] = "FOR_ITER" => fallEffect(ins) = [pops |-> 0, pushes |-> 1])
  BY <1>1, Takes
<1>4. GoesOnAt(loaded, Frame, to, h - 1)
  BY <1>1, <1>3, Branches
<1>5. h - 1 \in 1..Len(mem)
  <2>1. GoesOnAt(loaded, Frame, to, h - 1) /\ FrameHeld(loaded, Frame, Len(mem))
    BY <1>1, <1>4, Here
  <2> PICK L, f, m : L = loaded /\ f = Frame /\ m = Len(mem)
    OBVIOUS
  <2>2. Floor(L, f) \in Nat /\ Floor(L, f) >= 1
    BY <1>2, <2>1, FloorIn
  <2>3. h - 1 = Floor(L, f) + L[f.fn].depth[to] /\ L[f.fn].depth[to] \in Nat
    BY <2>1 DEF GoesOnAt
  <2> PICK k, d : k = Floor(L, f) /\ d = L[f.fn].depth[to]
    OBVIOUS
  <2>4. h - 1 = k + d /\ d \in Nat /\ k \in Nat /\ k >= 1 /\ h \in 1..m /\ m \in Nat
    BY <1>2, <2>2, <2>3
  <2>5. h - 1 \in 1..m
    BY ONLY <2>4
  <2> QED
    BY <2>5
<1>6. ValueOK(prog, <<"exc", "TypeError">>)
  BY DEF ValueOK
<1>7. CASE JumpIfTrue /\ UNCHANGED <<exn, ctl>> /\ Goto(pc + (IF Peek[2] THEN Ins[2] ELSE 0))
  <2>1. top' = h - 1 /\ mem' = mem /\ ins[1] = "JUMP_IF_TRUE"
    BY <1>7 DEF JumpIfTrue, Drop, Running
  <2>2. GoesOnAt(loaded, Frame, pc, h - 1)
    <3>1. GoesOnAt(loaded, Frame, Frame.pc + 1, top - 1 + 0)
      BY <1>1, <1>3, <2>1, Falls
    <3>2. h - 1 + 0 = h - 1
      BY <1>2
    <3> QED
      BY <3>1, <3>2
  <2>3. pc \in Int
    <3>1. pc \in 1..Len(loaded[Frame.fn].code)
      BY <2>2 DEF GoesOnAt
    <3> QED
      BY <3>1
  <2>4. \E x : Goto(x) /\ GoesOnAt(loaded, Frame, x, h - 1)
    <3>1. CASE Peek[2]
      BY <1>4, <1>7, <3>1
    <3>2. CASE ~Peek[2]
      <4>1. pc + 0 = pc
        BY <2>3
      <4> QED
        BY <1>7, <2>2, <3>2, <4>1
    <3> QED
      BY <3>1, <3>2
  <2>5. UNCHANGED pendingException /\ ctl'.do = "run"
    BY <1>1, <1>7 DEF exn
  <2> QED
    BY <1>1, <1>5, <2>1, <2>4, <2>5, Stays
<1>8. CASE JumpIfTrue /\ Throw(<<"exc", "TypeError">>)
  <2>1. top' = h - 1 /\ mem' = mem
    BY <1>8 DEF JumpIfTrue, Drop
  <2> QED
    BY <1>1, <1>5, <1>6, <1>8, <2>1, Thrown
<1>9. CASE ForIter /\ Next1 /\ Push(Null) /\ UNCHANGED <<exn, ctl>>
  <2>1. ins[1] = "FOR_ITER" /\ UNCHANGED pendingException
    BY <1>9 DEF ForIter, Running, exn
  <2>2. ValueOK(prog, Null)
    BY DEF ValueOK, Null
  <2> QED
    BY <1>1, <1>3, <1>9, <2>1, <2>2, Pushed
<1>10. CASE ForIter /\ Goto(to) /\ Drop(1) /\ UNCHANGED <<exn, ctl>>
  <2>1. top' = h - 1 /\ mem' = mem /\ UNCHANGED pendingException /\ ctl'.do = "run"
    BY <1>1, <1>10 DEF Drop, exn
  <2> QED
    BY <1>1, <1>4, <1>5, <1>10, <2>1, Stays
<1>11. CASE ForIter /\ Throw(<<"exc", "TypeError">>) /\ UNCHANGED <<mem, top>>
  BY <1>1, <1>2, <1>6, <1>11, Thrown
<1> QED
  BY <1>7, <1>8, <1>9, <1>10, <1>11 DEF JumpIfTrue, ForIter

LEMMA GetIterHeld == DefersInv /\ DepthInv /\ GetIter => DepthInv'
<1> SUFFICES ASSUME DefersInv, DepthInv, GetIter PROVE DepthInv'
  OBVIOUS
<1> PICK ins, pc, h, m, p : ins = Ins /\ pc = Frame.pc + 1 /\ h = top /\ m = mem /\ p = prog
  OBVIOUS
<1>1. ctl.do = "run" /\ UNCHANGED <<program, cstack, handlers>> /\ ins[1] = "GET_ITER"
  BY DEF GetIter, Running, lists
<1>2. h \in 1..Len(m) /\ Len(m) \in Nat /\ IsList(m) /\ \A i \in 1..Len(m) : ValueOK(p, m[i])
  BY <1>1, Here DEF DepthInv, Values
<1>3. jaiOpFallsThrough(ins[1]) /\ fallEffect(ins) = [pops |-> 1, pushes |-> 1]
  BY <1>1, Takes
<1>4. CASE /\ Next1 /\ mem' = [mem EXCEPT ![top] = <<"iter", Len(iters')>>]
           /\ UNCHANGED <<top, exn, ctl>>
  <2> PICK v, q : v = <<"iter", Len(iters')>> /\ q = With(m, h, v)
    OBVIOUS
  <2>1. IsList(q) /\ Len(q) = Len(m) /\ q[h] = v /\ \A i \in 1..Len(m) : i # h => q[i] = m[i]
    BY <1>2, WithList
  <2>2. ValueOK(p, v)
    <3>1. v[1] = "iter"
      OBVIOUS
    <3> QED
      BY ONLY <3>1 DEF ValueOK
  <2>3. \A i \in 1..Len(q) : ValueOK(p, q[i])
    BY <1>2, <2>1, <2>2
  <2>4. mem' = q /\ top' = h /\ Goto(pc) /\ UNCHANGED pendingException /\ ctl'.do = "run"
    BY <1>1, <1>4 DEF With, Next1, exn
  <2>5. GoesOnAt(loaded, Frame, pc, h)
    <3>1. GoesOnAt(loaded, Frame, Frame.pc + 1, top - 1 + 1)
      BY <1>1, <1>3, Falls
    <3>2. h - 1 + 1 = h
      BY <1>2
    <3> QED
      BY <3>1, <3>2
  <2>6. Owned(loaded, frames, handlers', Len(q)) /\ ValueOK(prog, pendingException')
    BY <1>1, <2>1, <2>4 DEF DepthInv, Values
  <2>7. Len(q) >= Len(mem)
    BY <1>2, <2>1
  <2> QED
    BY <1>1, <1>2, <2>1, <2>3, <2>4, <2>5, <2>6, <2>7, Moved
<1>5. CASE Throw(<<"exc", "TypeError">>) /\ UNCHANGED <<iters, mem, top>>
  <2>1. ValueOK(prog, <<"exc", "TypeError">>)
    BY DEF ValueOK
  <2> QED
    BY <1>1, <1>2, <1>5, <2>1, Thrown
<1> QED
  BY <1>4, <1>5 DEF GetIter

LEMMA ThrowSteps ==
  ASSUME DefersInv, DepthInv, ThrowOp \/ Reraise
  PROVE  DepthInv'
<1> PICK h, e, x : h = top /\ e = Peek /\ x = pendingException
  OBVIOUS
<1>1. ctl.do = "run" /\ UNCHANGED <<program, cstack, handlers>>
  BY DEF ThrowOp, Reraise, Running, lists
<1>2. h \in 1..Len(mem) /\ ValueOK(prog, e) /\ ValueOK(prog, x)
  BY <1>1, Here, Instruction DEF DepthInv, Values
<1>3. CASE ThrowOp
  <2>1. Throw(e) /\ top' = h - 1 /\ mem' = mem /\ Ins[1] = "THROW"
    BY <1>3 DEF ThrowOp, Drop, Running
  <2>2. fallEffect(Ins).pops = 1
    <3> PICK ins : ins = Ins
      OBVIOUS
    <3>1. fallEffect(ins) = [pops |-> 1, pushes |-> 0]
      BY <2>1, Takes
    <3> QED
      BY <3>1
  <2>3. h - 1 \in 1..Len(mem)
    BY <1>1, <2>2, Fits
  <2> QED
    BY <1>1, <1>2, <2>1, <2>3, Thrown
<1>4. CASE Reraise
  <2>1. PICK y : y = IF x[1] = "null" THEN <<"exc", "RuntimeError">> ELSE x
    OBVIOUS
  <2>2. ValueOK(prog, y)
    BY <1>2, <2>1 DEF ValueOK
  <2>3. Throw(y) /\ UNCHANGED <<mem, top>>
    BY <1>4, <2>1 DEF Reraise
  <2> QED
    BY <1>1, <1>2, <2>2, <2>3, Thrown
<1> QED
  BY <1>3, <1>4

LEMMA HandlerSteps ==
  ASSUME DefersInv, DepthInv, PushHandler \/ PopHandler
  PROVE  DepthInv'
<1> PICK ins, pc, h, L, f, fs, n, hs, m, p :
      /\ ins = Ins /\ pc = Frame.pc + 1 /\ h = top /\ L = loaded /\ f = Frame /\ fs = frames
      /\ n = Len(fs) /\ hs = handlers /\ m = Len(mem) /\ p = prog
  OBVIOUS
<1>1. /\ ctl.do = "run" /\ Goto(pc)
      /\ UNCHANGED <<program, cstack, mem, top, pendingException, ctl>>
      /\ ins[1] \in {"PUSH_HANDLER", "PUSH_FINALLY", "POP_HANDLER"}
  BY DEF PushHandler, PopHandler, Running, Next1, exn
<1>2. /\ h \in 1..m /\ m \in Nat /\ IsList(fs) /\ fs # <<>> /\ f = fs[n] /\ n \in 1..n
      /\ FrameHeld(L, f, m) /\ CodeOK(p, L)
  BY <1>1, Here DEF Frame
<1>3. jaiOpFallsThrough(ins[1]) /\ fallEffect(ins) = [pops |-> 0, pushes |-> 0]
  BY <1>1, Takes
<1>4. GoesOnAt(loaded, Frame, pc, h)
  <2>1. GoesOnAt(loaded, Frame, Frame.pc + 1, top - 0 + 0)
    BY <1>1, <1>3, Falls
  <2>2. h - 0 + 0 = h
    BY <1>2
  <2> QED
    BY <2>1, <2>2
<1>5. GoesOn(L, f, h) /\ ins = L[f.fn].code[f.pc] /\ Owned(L, fs, hs, m)
  BY <1>1, Instruction DEF DepthInv
<1>6. Owned(L, fs, handlers', m)
  <2>1. CASE PushHandler
    <3> PICK ty, x : /\ ty = IF ins[1] = "PUSH_FINALLY" THEN "finally" ELSE JAI_HANDLER_CATCH_ALL
                     /\ x = [at |-> f.pc + 1 + ins[2], type |-> ty, frame |-> n, top |-> h]
      OBVIOUS
    <3>1. handlers' = Append(hs, x) /\ ins[1] \in Registers
      BY <2>1 DEF PushHandler, Registers
    <3>2. GoesOnAt(L, f, f.pc + 1 + ins[2], h)
      BY ONLY <1>2, <1>5, <3>1, RegistersTo
    <3>3. x.frame = Len(fs) /\ x.top \in 1..m /\ GoesOnAt(L, fs[Len(fs)], x.at, x.top)
      BY <1>2, <3>2
    <3>4. Owned(L, fs, Append(hs, x), m)
      BY ONLY <1>2, <1>5, <3>3, OwnedPush
    <3> QED
      BY <3>1, <3>4
  <2>2. CASE PopHandler /\ Len(hs) > f.handlerBase
    <3> PICK b : b = Len(hs) - 1
      OBVIOUS
    <3>1. handlers' = SubSeq(hs, 1, b)
      BY <2>2 DEF PopHandler, Pred
    <3>2. b \in fs[Len(fs)].handlerBase..Len(hs)
      <4>1. Len(hs) \in Nat /\ f.handlerBase \in 0..Len(hs)
        BY <1>2, <1>5, ListFacts DEF Owned
      <4> QED
        BY <1>2, <2>2, <4>1
    <3>3. Owned(L, fs, SubSeq(hs, 1, b), m)
      BY ONLY <1>2, <1>5, <3>2, OwnedCut
    <3> QED
      BY <3>1, <3>3
  <2>3. CASE PopHandler /\ ~(Len(hs) > f.handlerBase)
    BY <1>5, <2>3 DEF PopHandler
  <2> QED
    BY <2>1, <2>2, <2>3
<1>7. /\ IsList(mem') /\ Len(mem') = m /\ Len(mem') >= Len(mem)
      /\ \A i \in 1..Len(mem') : ValueOK(prog, mem'[i])
      /\ ValueOK(prog, pendingException')
  BY <1>1, <1>2 DEF DepthInv, Values
<1>8. Owned(loaded, frames, handlers', Len(mem')) /\ top' \in 1..Len(mem') /\ ctl'.do = "run"
      /\ GoesOnAt(loaded, Frame, pc, top')
  BY <1>1, <1>2, <1>4, <1>6, <1>7
<1> QED
  BY <1>1, <1>7, <1>8, Moved

-----------------------------------------------------------------------------
(* The unwinder enters a handler.                                            *)

LEMMA LeastIn ==
  ASSUME NEW S \in SUBSET Nat, S # {}
  PROVE  \E x \in S : \A y \in S : x <= y
<1> DEFINE T == {0..x : x \in S}
<1>1. \A x \in S : 0..x \in SUBSET Nat /\ IsFiniteSet(0..x)
  BY FS_Interval
<1>2. T \subseteq FiniteSubsetsOf(Nat) /\ T # {}
  BY <1>1 DEF FiniteSubsetsOf
<1>3. \E t \in T : \A u \in T : ~ (<<u, t>> \in StrictSubsetOrdering(Nat))
  <2>1. IsWellFoundedOn(StrictSubsetOrdering(Nat), FiniteSubsetsOf(Nat))
    BY FS_StrictSubsetOrderingWellFounded
  <2> HIDE DEF T
  <2> QED BY <1>2, <2>1, WFMin, Zenon
<1>4. PICK x \in S : \A y \in S : ~ (<<0..y, 0..x>> \in StrictSubsetOrdering(Nat))
  BY <1>3
<1>5. ASSUME NEW y \in S, y < x PROVE FALSE
  <2>1. 0..y \subseteq 0..x /\ x \notin 0..y /\ x \in 0..x
    BY <1>5
  <2>2. <<0..y, 0..x>> \in StrictSubsetOrdering(Nat)
    BY <2>1 DEF StrictSubsetOrdering
  <2> QED
    BY <1>4, <2>2
<1> QED
  BY <1>5

Greatest(S) == CHOOSE x \in S : \A y \in S : y <= x

LEMMA GreatestIn ==
  ASSUME NEW n \in Nat, NEW S \in SUBSET (1..n), S # {}
  PROVE  Greatest(S) \in S
<1> DEFINE T == {n - x : x \in S}
<1>1. T \in SUBSET Nat /\ T # {}
  <2>1. \A x \in S : n - x \in Nat
    OBVIOUS
  <2> QED
    BY <2>1
<1>2. PICK t \in T : \A u \in T : t <= u
  <2> HIDE DEF T
  <2> QED BY <1>1, LeastIn
<1>3. PICK x \in S : t = n - x
  BY <1>2
<1>4. ASSUME NEW y \in S PROVE y <= x
  <2>1. n - x <= n - y
    BY <1>2, <1>3
  <2>2. x \in 1..n /\ y \in 1..n
    OBVIOUS
  <2> QED
    BY <2>1, <2>2
<1>5. \E k \in S : \A y \in S : y <= k
  BY <1>4
<1> QED
  BY <1>5, Zenon DEF Greatest

\* Of entries whose widths are naturals, one is the narrowest.
LEMMA NarrowestIn ==
  ASSUME NEW S \in SUBSET Nat, S # {},
         \A i \in S : Proto.exceptions[i].end - Proto.exceptions[i].start \in Nat
  PROVE  Narrowest(S) \in S
<1> DEFINE width(i) == Proto.exceptions[i].end - Proto.exceptions[i].start
           W == {width(i) : i \in S}
<1>1. PICK w \in W : \A v \in W : w <= v
  <2>1. W \in SUBSET Nat /\ W # {}
    OBVIOUS
  <2> HIDE DEF W
  <2> QED BY <2>1, LeastIn
<1> DEFINE I == {i \in S : width(i) = w}
<1>2. PICK x \in I : \A y \in I : x <= y
  <2>1. PICK i \in S : width(i) = w
    BY <1>1
  <2>2. i \in I /\ I \in SUBSET Nat
    BY <2>1
  <2>3. I \in SUBSET Nat /\ I # {}
    BY <2>2
  <2> HIDE DEF I
  <2> QED BY <2>3, LeastIn
<1>3. x \in S /\ \A j \in S : width(x) < width(j) \/ (width(x) = width(j) /\ x <= j)
  <2>1. x \in S /\ width(x) = w
    BY <1>2
  <2>2. ASSUME NEW j \in S PROVE width(x) < width(j) \/ (width(x) = width(j) /\ x <= j)
    <3>1. width(j) \in Nat /\ w \in Nat /\ w <= width(j)
      BY <1>1
    <3>2. width(j) = w => x <= j
      BY <1>2
    <3> QED
      BY <2>1, <3>1, <3>2
  <2> QED
    BY <2>1, <2>2
<1> QED
  BY <1>3, Zenon DEF Narrowest

\* What the exception table is entered for: an empty operand stack.
EntersEmpty ==
    LET i == Narrowest(StaticHandlers)
    IN  Unwinding /\ DynamicHandlers = {} /\ StaticHandlers # {} =>
            /\ Frame.fn.kind # "thunk"
            /\ DepthIs(Proto, Proto.exceptions[i].handler + 1, 0)

LEMMA EnterHeld ==
  ASSUME DefersInv, DepthInv, EntersEmpty, EnterDynamic \/ EnterStatic
  PROVE  DepthInv'
<1> PICK h, L, f, fs, n, hs, m, p, b :
      /\ h = top /\ L = loaded /\ f = Frame /\ fs = frames
      /\ n = Len(fs) /\ hs = handlers /\ m = Len(mem) /\ p = prog /\ b = f.handlerBase
  OBVIOUS
<1>1. /\ Unwinding /\ UNCHANGED <<program, cstack, mem, pendingException>> /\ ctl'.do = "run"
  BY DEF EnterDynamic, EnterStatic
<1>2. /\ m \in Nat /\ IsList(fs) /\ fs # <<>> /\ f = fs[n] /\ n \in 1..n
      /\ FrameHeld(L, f, m) /\ CodeOK(p, L)
  BY <1>1, Here DEF Frame
<1>3. Owned(L, fs, hs, m) /\ Len(hs) \in Nat /\ b \in 0..Len(hs)
  BY <1>2, ListFacts DEF DepthInv, Owned
<1>4. \E pc : /\ Goto(pc) /\ Owned(L, fs, handlers', m) /\ top' \in 1..m
              /\ GoesOnAt(L, f, pc, top')
  <2>1. CASE EnterDynamic
    <3> PICK D, i, x : /\ D = DynamicHandlers
                       /\ i = CHOOSE k \in DynamicHandlers : \A j \in DynamicHandlers : j <= k
                       /\ x = hs[i]
      OBVIOUS
    <3>1. D # {} /\ handlers' = SubSeq(hs, 1, i - 1) /\ Goto(x.at) /\ top' = x.top
      BY <2>1 DEF EnterDynamic
    <3>2. D \in SUBSET (1..Len(hs)) /\ \A k \in D : k \in b + 1..Len(hs) /\ hs[k].frame = n
      <4>1. D \subseteq b + 1..Len(hs) /\ \A k \in D : hs[k].frame = n
        BY DEF DynamicHandlers
      <4> QED
        BY <1>3, <4>1
    <3>3. i \in D
      <4>1. Greatest(D) \in D
        BY <1>3, <3>1, <3>2, GreatestIn
      <4>2. i = Greatest(DynamicHandlers)
        BY DEF Greatest
      <4> QED
        BY <4>1, <4>2
    <3>4. i \in 1..Len(hs) /\ x.frame = n /\ i - 1 \in b..Len(hs)
      <4> PICK z : z = Len(hs)
        OBVIOUS
      <4>1. z \in Nat /\ b \in 0..z /\ i \in 1..z /\ i \in b + 1..z /\ hs[i].frame = n
        BY <1>3, <3>2, <3>3
      <4>2. i - 1 \in b..z
        BY ONLY <4>1
      <4> QED
        BY <4>1, <4>2
    <3>5. x.top \in 1..m /\ GoesOnAt(L, f, x.at, x.top)
      BY <1>2, <1>3, <3>4 DEF Owned
    <3>6. Owned(L, fs, SubSeq(hs, 1, i - 1), m)
      <4>1. i - 1 \in fs[Len(fs)].handlerBase..Len(hs)
        BY <1>2, <3>4
      <4> QED
        BY ONLY <1>2, <1>3, <4>1, OwnedCut
    <3> QED
      BY <3>1, <3>5, <3>6
  <2>2. CASE EnterStatic
    <3> PICK S, i, c, to : /\ S = StaticHandlers /\ i = Narrowest(S) /\ c = L[f.fn]
                           /\ to = c.exceptions[i].handler + 1
      OBVIOUS
    <3>1. /\ S # {} /\ handlers' = SubSeq(hs, 1, b) /\ Goto(to)
          /\ top' = f.slots + L[f.fn].window
      BY <2>2 DEF EnterStatic, Trimmed, Proto, frameWindowSize
    <3>2. FunctionOK(p, L, f.fn)
      BY <1>2 DEF CodeOK, Agrees, FrameHeld
    <3>3. \A k \in 1..Len(c.exceptions) :
            /\ c.exceptions[k].start \in Nat /\ c.exceptions[k].end \in Nat
            /\ c.exceptions[k].start < c.exceptions[k].end
      BY <3>2 DEF FunctionOK
    <3>4. S \subseteq 1..Len(c.exceptions)
      BY DEF StaticHandlers, Proto
    <3>5. i \in S
      <4>1. S \in SUBSET Nat
        BY <3>4
      <4>2. \A k \in S : Proto.exceptions[k].end - Proto.exceptions[k].start \in Nat
        <5>1. \A x, y \in Nat : x < y => y - x \in Nat
          OBVIOUS
        <5>2. Proto = c
          BY DEF Proto
        <5> QED
          BY <3>3, <3>4, <5>1, <5>2
      <4> QED
        BY <3>1, <4>1, <4>2, NarrowestIn
    <3>6. GoesOnAt(L, f, to, f.slots + L[f.fn].window) /\ f.slots + L[f.fn].window \in 1..m
      <4>1. f.fn.kind # "thunk" /\ DepthIs(c, to, 0)
        BY <2>2 DEF EntersEmpty, EnterStatic, Proto
      <4>2. Floor(L, f) = f.slots + c.window /\ Floor(L, f) \in 1..m
        BY <1>2, <4>1 DEF Floor, FrameHeld
      <4> PICK k : k = Floor(L, f)
        OBVIOUS
      <4>3. k = k + 0
        BY <1>2, <4>2
      <4> QED
        BY <4>1, <4>2, <4>3 DEF GoesOnAt, DepthIs
    <3>7. Owned(L, fs, SubSeq(hs, 1, b), m)
      <4>1. b \in fs[Len(fs)].handlerBase..Len(hs)
        BY <1>2, <1>3
      <4> QED
        BY ONLY <1>2, <1>3, <4>1, OwnedCut
    <3> QED
      BY <3>1, <3>6, <3>7
  <2> QED
    BY <2>1, <2>2
<1>5. PICK pc : /\ Goto(pc) /\ Owned(L, fs, handlers', m) /\ top' \in 1..m
                /\ GoesOnAt(L, f, pc, top')
  BY <1>4
<1>6. /\ IsList(mem') /\ Len(mem') = m /\ Len(mem') >= Len(mem)
      /\ \A i \in 1..Len(mem') : ValueOK(prog, mem'[i])
      /\ ValueOK(prog, pendingException')
  BY <1>1, <1>2 DEF DepthInv, Values
<1>7. Owned(loaded, frames, handlers', Len(mem')) /\ top' \in 1..Len(mem')
      /\ GoesOnAt(loaded, Frame, pc, top')
  BY <1>5, <1>6
<1> QED
  BY <1>1, <1>5, <1>6, <1>7, Moved

-----------------------------------------------------------------------------
(* runFrameDefers begins.                                                    *)

LEMMA ValuesMore ==
  ASSUME NEW p, NEW m, NEW e, NEW cs, IsList(cs), Values(p, m, e, cs), NEW a, CarriedOK(p, a)
  PROVE  Values(p, m, e, Append(cs, a))
<1> PICK z, ds : z = Len(cs) /\ ds = Append(cs, a)
  OBVIOUS
<1>1. z \in Nat
  BY ListFacts
<1>2. Len(ds) = z + 1 /\ ds[z + 1] = a /\ \A j \in 1..z : ds[j] = cs[j]
  BY AppendList
<1>3. \A j \in 1..z + 1 : j \in 1..z \/ j = z + 1
  BY <1>1
<1>4. \A j \in 1..z + 1 : CarriedOK(p, ds[j])
  BY <1>2, <1>3 DEF Values
<1>5. Values(p, m, e, ds)
  BY <1>2, <1>4 DEF Values
<1> QED
  BY <1>5

LEMMA ValuesLess ==
  ASSUME NEW p, NEW m, NEW e, NEW cs, IsList(cs), cs # <<>>, Values(p, m, e, cs)
  PROVE  Values(p, m, e, Pred(cs))
<1> PICK z, ds : z = Len(cs) /\ ds = Pred(cs)
  OBVIOUS
<1>1. z \in Nat
  BY ListFacts
<1>2. Len(ds) = z - 1 /\ \A j \in 1..z - 1 : ds[j] = cs[j]
  BY PredList
<1>3. \A j \in 1..z - 1 : j \in 1..z
  BY <1>1
<1>4. \A j \in 1..z - 1 : CarriedOK(p, ds[j])
  BY <1>2, <1>3 DEF Values
<1>5. Values(p, m, e, ds)
  BY <1>2, <1>4 DEF Values
<1> QED
  BY <1>5

LEMMA ValuesNote ==
  ASSUME NEW p, NEW m, NEW e, NEW cs, IsList(cs), cs # <<>>, Values(p, m, e, cs),
         NEW a, CarriedOK(p, a)
  PROVE  Values(p, m, e, With(cs, Len(cs), a))
<1> PICK z, ds : z = Len(cs) /\ ds = With(cs, Len(cs), a)
  OBVIOUS
<1>1. z \in Nat /\ z \in 1..z
  BY ListFacts
<1>2. Len(ds) = z /\ ds[z] = a /\ \A j \in 1..z : j # z => ds[j] = cs[j]
  <2>1. IsList(cs) /\ z \in 1..Len(cs)
    BY <1>1
  <2> QED
    BY <2>1, WithList
<1>3. \A j \in 1..z : CarriedOK(p, ds[j])
  BY <1>2 DEF Values
<1>4. Values(p, m, e, ds)
  BY <1>2, <1>3 DEF Values
<1> QED
  BY <1>4

LEMMA Started ==
  ASSUME DefersInv, DepthInv, ctl.do = "run" \/ Unwinding,
         NEW then, NEW value, StartDefers(then, value),
         ValueOK(prog, value), then = "tail" => value[1] = "fn",
         UNCHANGED <<program, handlers, mem, pendingException>>, top' \in 1..Len(mem),
         \/ \E pc : Goto(pc) /\ (then = "op" => GoesOnAt(loaded, Frame, pc, top'))
         \/ UNCHANGED frames /\ then # "op"
  PROVE  DepthInv'
<1> PICK L, fs, n, m, hs, cs, a, p, e, q :
      /\ L = loaded /\ fs = frames /\ n = Len(fs) /\ m = Len(mem) /\ hs = handlers /\ cs = cstack
      /\ a = [k |-> "defers", had |-> hasException, carried |-> pendingException,
              then |-> then, value |-> value]
      /\ p = prog /\ e = pendingException /\ q = mem
  OBVIOUS
<1>1. /\ IsList(fs) /\ fs # <<>> /\ DOMAIN fs[Len(fs)] = FrameFields /\ n \in Nat
      /\ m \in Nat /\ Stacked(cs, n, "run") /\ IsList(cs) /\ cs # <<>>
  <2>1. ctl.do # "defers"
    BY DEF Unwinding
  <2>2. Stacked(cs, n, "run")
    BY <2>1, Here
  <2>3. IsList(cs) /\ cs # <<>>
    BY <2>2, TopActivation
  <2> QED
    BY <2>1, <2>2, <2>3, Here DEF Frame
<1>2. Held(L, fs, m) /\ Owned(L, fs, hs, m) /\ Awaited(L, fs, cs, m) /\ CodeOK(p, L) /\ Values(p, q, e, cs)
  BY DEF DepthInv
<1>3. PICK gs : /\ frames' = gs
                /\ IsList(gs) /\ Len(gs) = n /\ gs # <<>>
                /\ Held(L, gs, m) /\ Owned(L, gs, hs, m) /\ Awaited(L, gs, cs, m)
                /\ then = "op" => GoesOn(L, gs[n], top')
  <2>1. CASE UNCHANGED frames /\ then # "op"
    BY <1>1, <1>2, <2>1
  <2>2. CASE \E pc : Goto(pc) /\ (then = "op" => GoesOnAt(loaded, Frame, pc, top'))
    <3>1. PICK pc : Goto(pc) /\ (then = "op" => GoesOnAt(loaded, Frame, pc, top'))
      BY <2>2
    <3> PICK gs, t : gs = TopAt(fs, pc) /\ t = top'
      OBVIOUS
    <3>2. frames' = gs
      BY <3>1, GotoIs
    <3>3. Stacked(cs, Len(fs), "run")
      BY <1>1
    <3>4. Held(L, gs, m) /\ Owned(L, gs, hs, m) /\ Awaited(L, gs, cs, m)
      BY <1>1, <1>2, <3>3, PcMoved
    <3>5. IsList(gs) /\ Len(gs) = n /\ gs # <<>> /\ gs[n] = At(fs[n], pc)
      BY <1>1, TopAtFacts
    <3>6. then = "op" => GoesOnAt(L, fs[n], pc, t)
      BY <3>1 DEF Frame
    <3>7. DOMAIN fs[n] = FrameFields
      BY <1>1
    <3>8. then = "op" => GoesOn(L, At(fs[n], pc), t)
      BY ONLY <3>6, <3>7, AtGoesOn
    <3> QED
      BY <3>2, <3>4, <3>5, <3>8
  <2> QED
    BY <2>1, <2>2
<1>4. cstack' = Append(cs, a) /\ ctl'.do = "defers"
  BY DEF StartDefers
<1>5. Awaited(L, gs, Append(cs, a), m)
  <2>1. a.k = "defers" /\ Stacked(cs, Len(gs), "run")
    BY <1>1, <1>3
  <2> QED
    BY <1>3, <2>1, AwaitedPush
<1>6. CarriedOK(p, a)
  BY <1>2 DEF CarriedOK, Values
<1>7. Values(p, q, e, Append(cs, a))
  BY <1>1, <1>2, <1>6, ValuesMore
<1>8. /\ prog' = p /\ loaded' = L /\ frames' = gs /\ mem' = q /\ Len(q) = m /\ handlers' = hs
      /\ pendingException' = e /\ cstack' = Append(cs, a)
  BY <1>3, <1>4 DEF program
<1>9. /\ CodeOK(prog, loaded)' /\ Held(loaded, frames, Len(mem))'
      /\ Owned(loaded, frames, handlers, Len(mem))'
      /\ Awaited(loaded, frames, cstack, Len(mem))'
      /\ Values(prog, mem, pendingException, cstack)'
  BY <1>2, <1>3, <1>5, <1>7, <1>8
<1>10. TopHeld'
  <2>1. Append(cs, a)[Len(Append(cs, a))] = a
    <3>1. Len(Append(cs, a)) = Len(cs) + 1 /\ Append(cs, a)[Len(cs) + 1] = a
      BY <1>1, AppendList
    <3> QED
      BY <3>1
  <2>2. cstack'[Len(cstack')] = a /\ a.then = then
    BY <1>8, <2>1
  <2>3. then = "op" => GoesOn(loaded', frames'[Len(frames')], top')
    BY <1>3, <1>8
  <2>4. top' \in 0..Len(mem') /\ top' >= 1
    BY <1>1, <1>8
  <2> QED
    BY <1>4, <2>2, <2>3, <2>4 DEF TopHeld, Frame
<1> QED
  BY <1>9, <1>10 DEF DepthInv

\* A block is registered, or those of the frame are run where it stands.
LEMMA DeferSteps ==
  ASSUME DefersInv, DepthInv, PushDefer \/ RunDefers
  PROVE  DepthInv'
<1> PICK ins, pc, h : ins = Ins /\ pc = Frame.pc + 1 /\ h = top
  OBVIOUS
<1>1. /\ ctl.do = "run" /\ Goto(pc) /\ ins[1] \in {"PUSH_DEFER", "RUN_DEFERS"}
      /\ UNCHANGED <<program, handlers, mem, top, pendingException>>
  BY DEF PushDefer, RunDefers, Running, Next1, exn, lists
<1>2. h \in 1..Len(mem) /\ Len(mem) \in Nat
  BY <1>1, Here
<1>3. jaiOpFallsThrough(ins[1]) /\ fallEffect(ins) = [pops |-> 0, pushes |-> 0]
  BY <1>1, Takes
<1>4. GoesOnAt(loaded, Frame, pc, h) /\ top' = h
  <2>1. GoesOnAt(loaded, Frame, Frame.pc + 1, top - 0 + 0)
    BY <1>1, <1>3, Falls
  <2>2. h - 0 + 0 = h
    BY <1>2
  <2> QED
    BY <1>1, <2>1, <2>2
<1>5. CASE UNCHANGED <<cstack, ctl>>
  BY <1>1, <1>2, <1>4, <1>5, Stays
<1>6. CASE StartDefers("op", Null)
  <2>1. ValueOK(prog, Null)
    BY DEF ValueOK, Null
  <2>2. \E x : Goto(x) /\ ("op" = "op" => GoesOnAt(loaded, Frame, x, top'))
    BY <1>1, <1>4
  <2> QED
    BY <1>1, <1>2, <1>4, <1>6, <2>1, <2>2, Started
<1> QED
  BY <1>5, <1>6 DEF PushDefer, RunDefers

-----------------------------------------------------------------------------
(* A frame goes.                                                             *)

LEMMA FrameGone ==
  ASSUME NEW L, NEW fs, IsList(fs), fs # <<>>, NEW m, Held(L, fs, m),
         NEW hs, Owned(L, fs, hs, m), NEW cs, Awaited(L, fs, cs, m), Stacked(cs, Len(fs), "run")
  PROVE  /\ Held(L, Pred(fs), m) /\ Awaited(L, Pred(fs), cs, m)
         /\ Owned(L, Pred(fs), SubSeq(hs, 1, fs[Len(fs)].handlerBase), m)
         /\ Upto(hs, fs[Len(fs)].handlerBase) = SubSeq(hs, 1, fs[Len(fs)].handlerBase)
         /\ fs[Len(fs)].base \in 0..m
         /\ Pred(fs) # <<>> => fs[Len(fs)].base >= 1
         /\ IsList(Pred(fs)) /\ Len(Pred(fs)) = Len(fs) - 1
<1> PICK n, b, gs : n = Len(fs) /\ b = fs[n].handlerBase /\ gs = SubSeq(hs, 1, b)
  OBVIOUS
<1>1. n \in Nat /\ n \in 1..n /\ Len(hs) \in Nat /\ b \in 0..Len(hs)
  BY ListFacts DEF Owned
<1>2. Owned(L, fs, gs, m) /\ Len(gs) = b
  <2>1. b \in fs[Len(fs)].handlerBase..Len(hs) /\ IsList(fs) /\ fs # <<>> /\ Owned(L, fs, hs, m)
    BY <1>1
  <2>2. Owned(L, fs, SubSeq(hs, 1, b), m) /\ Len(SubSeq(hs, 1, b)) = b
    BY ONLY <2>1, OwnedCut
  <2> QED
    BY <2>2
<1>3. Owned(L, Pred(fs), gs, m)
  BY <1>2, OwnedLess
<1>4. Held(L, Pred(fs), m) /\ Awaited(L, Pred(fs), cs, m)
  BY HeldLess, AwaitedLess
<1>5. Upto(hs, b) = gs
  <2>1. b < Len(hs) \/ b = Len(hs)
    BY <1>1
  <2> QED
    BY <2>1 DEF Upto
<1>6. fs[n].base \in 0..m
  BY <1>1 DEF Held, FrameHeld
<1>7. IsList(Pred(fs)) /\ Len(Pred(fs)) = n - 1
  BY PredList
<1>8. Pred(fs) # <<>> => fs[n].base >= 1
  <2>1. Pred(fs) # <<>> => n - 1 > 0
    BY <1>7, ListFacts
  <2>2. n - 1 > 0 => n \in 2..n
    BY <1>1
  <2> QED
    BY <2>1, <2>2 DEF Held
<1> QED
  BY <1>3, <1>4, <1>5, <1>6, <1>7, <1>8

\* The frame is discarded by the unwinder.
LEMMA Discarded ==
  ASSUME DefersInv, DepthInv, frames # <<>>, NEW cs, Stacked(cs, Len(frames), "run"),
         Awaited(loaded, frames, cs, Len(mem)), Values(prog, mem, pendingException', cs),
         UNCHANGED program, DiscardFrame, cstack' = cs, ctl'.do = "unwind"
  PROVE  DepthInv'
<1> PICK L, fs, n, m, hs, p, e, q, g :
      /\ L = loaded /\ fs = frames /\ n = Len(fs) /\ m = Len(mem) /\ hs = handlers
      /\ p = prog /\ e = pendingException' /\ q = mem /\ g = fs[n]
  OBVIOUS
<1>1. /\ IsList(fs) /\ fs # <<>>
      /\ Held(L, fs, m) /\ Owned(L, fs, hs, m) /\ Awaited(L, fs, cs, m) /\ CodeOK(p, L)
      /\ Stacked(cs, Len(fs), "run")
  BY DEF DepthInv, DefersInv, FramesOK, Stretched
<1>2. /\ Held(L, Pred(fs), m) /\ Awaited(L, Pred(fs), cs, m)
      /\ Owned(L, Pred(fs), SubSeq(hs, 1, g.handlerBase), m)
      /\ Upto(hs, g.handlerBase) = SubSeq(hs, 1, g.handlerBase)
      /\ g.base \in 0..m
      /\ Pred(fs) # <<>> => g.base >= 1
  <2>1. g = fs[Len(fs)]
    OBVIOUS
  <2> QED
    BY ONLY <1>1, <2>1, FrameGone
<1>3. /\ prog' = p /\ loaded' = L /\ frames' = Pred(fs) /\ mem' = q /\ Len(q) = m
      /\ handlers' = SubSeq(hs, 1, g.handlerBase)
      /\ pendingException' = e /\ cstack' = cs /\ top' = g.base
  BY <1>2 DEF program, DiscardFrame, Frame
<1>4. /\ CodeOK(prog, loaded)' /\ Held(loaded, frames, Len(mem))'
      /\ Owned(loaded, frames, handlers, Len(mem))'
      /\ Awaited(loaded, frames, cstack, Len(mem))'
      /\ Values(prog, mem, pendingException, cstack)'
  BY <1>1, <1>2, <1>3
<1>5. TopHeld'
  BY <1>2, <1>3 DEF TopHeld
<1> QED
  BY <1>4, <1>5 DEF DepthInv

LEMMA UnwindFrameHeld == DefersInv /\ DepthInv /\ UnwindFrame => DepthInv'
<1> SUFFICES ASSUME DefersInv, DepthInv, UnwindFrame PROVE DepthInv'
  OBVIOUS
<1>1. Unwinding /\ UNCHANGED <<program, pendingException>>
  BY DEF UnwindFrame, exn, core
<1>2. frames # <<>> /\ top \in 1..Len(mem) /\ ctl.do = "unwind"
  BY <1>1, Here DEF Unwinding
<1>3. CASE StartDefers("unwind", Null) /\ UNCHANGED <<core, lists>>
  <2>1. ValueOK(prog, Null)
    BY DEF ValueOK, Null
  <2>2. UNCHANGED <<frames, mem, top, handlers>> /\ "unwind" # "op" /\ "unwind" # "tail"
    BY <1>3 DEF core, lists
  <2> QED
    BY <1>1, <1>2, <1>3, <2>1, <2>2, Started
<1>4. CASE DiscardFrame /\ UNCHANGED <<program, cstack, ctl>>
  <2> PICK cs : cs = cstack
    OBVIOUS
  <2>1. Stacked(cs, Len(frames), "run")
    BY <1>1, AsRun
  <2>2. Awaited(loaded, frames, cs, Len(mem)) /\ Values(prog, mem, pendingException', cs)
    BY <1>1 DEF DepthInv
  <2> QED
    BY <1>1, <1>2, <1>4, <2>1, <2>2, Discarded
<1> QED
  BY <1>3, <1>4 DEF UnwindFrame

\* The frame returns; what it had on the stack is replaced by its result, where
\* the frame below expects it, or the run it was the first frame of ends.
LEMMA Returned ==
  ASSUME DefersInv, DepthInv, frames # <<>>, NEW cs, Stacked(cs, Len(frames), "run"),
         Awaited(loaded, frames, cs, Len(mem)), Values(prog, mem, pendingException', cs),
         UNCHANGED program, NEW value, ValueOK(prog, value), ReturnWith(value, cs)
  PROVE  DepthInv'
<1> PICK L, fs, n, m, hs, p, e, q, g, at, r, k :
      /\ L = loaded /\ fs = frames /\ n = Len(fs) /\ m = Len(mem) /\ hs = handlers
      /\ p = prog /\ e = pendingException' /\ q = mem /\ g = fs[n]
      /\ at = g.base + 1 /\ r = Put(q, at, value) /\ k = Len(r)
  OBVIOUS
<1>1. /\ IsList(fs) /\ fs # <<>> /\ n \in Nat
      /\ Held(L, fs, m) /\ Owned(L, fs, hs, m) /\ Awaited(L, fs, cs, m) /\ CodeOK(p, L)
      /\ Stacked(cs, Len(fs), "run") /\ Stacked(cs, n, "run") /\ Values(p, q, e, cs)
  BY ListFacts DEF DepthInv, DefersInv, FramesOK, Stretched
<1>2. /\ Held(L, Pred(fs), m) /\ Awaited(L, Pred(fs), cs, m)
      /\ Owned(L, Pred(fs), SubSeq(hs, 1, g.handlerBase), m)
      /\ g.base \in 0..m
      /\ IsList(Pred(fs)) /\ Len(Pred(fs)) = n - 1
  BY <1>1, FrameGone
<1>3. IsList(q) /\ Len(q) = m /\ m \in Nat /\ \A i \in 1..Len(q) : ValueOK(p, q[i])
  BY <1>1, ListFacts DEF Values
<1>4. /\ IsList(r) /\ k \in Nat /\ k >= m /\ k >= at /\ at \in 1..k
      /\ \A i \in 1..Len(r) : ValueOK(p, r[i])
  <2>1. at \in Nat /\ at >= 1 /\ at <= Len(q) + 1
    BY <1>2, <1>3
  <2>0. ValueOK(p, value)
    OBVIOUS
  <2>3. /\ IsList(Put(q, at, value)) /\ Len(Put(q, at, value)) \in Nat
        /\ Len(Put(q, at, value)) >= Len(q) /\ Len(Put(q, at, value)) >= at
        /\ \A i \in 1..Len(Put(q, at, value)) : ValueOK(p, Put(q, at, value)[i])
    BY ONLY <1>3, <2>0, <2>1, PutList
  <2>2. IsList(r) /\ k \in Nat /\ k >= m /\ k >= at /\ \A i \in 1..Len(r) : ValueOK(p, r[i])
    BY <1>3, <2>3
  <2> QED
    BY <2>1, <2>2
<1>5. Held(L, Pred(fs), k) /\ Awaited(L, Pred(fs), cs, k)
      /\ Owned(L, Pred(fs), SubSeq(hs, 1, g.handlerBase), k)
  <2>1. m \in Nat /\ k \in Nat /\ k >= m
    BY <1>3, <1>4
  <2> QED
    BY ONLY <1>2, <2>1, HeldUp, AwaitedUp, OwnedUp
<1>6. Values(p, r, e, cs)
  BY <1>1, <1>4 DEF Values
<1>7. /\ prog' = p /\ loaded' = L /\ frames' = Pred(fs) /\ mem' = r /\ top' = at
      /\ handlers' = SubSeq(hs, 1, g.handlerBase) /\ pendingException' = e
  BY DEF program, ReturnWith, LeaveFrame, Trimmed, Frame
<1>8. cs # <<>> /\ IsList(cs) /\ Len(cs) \in Nat /\ cs[Len(cs)].k = "run"
      /\ cs[Len(cs)].base \in 0..n - 1
  <2>1. cs # <<>> /\ IsList(cs) /\ Len(cs) \in Nat /\ cs[Len(cs)].k = "run"
        /\ cs[Len(cs)].base \in 0..n
    BY <1>1, TopActivation
  <2>2. cs[Len(cs)].base < n
    BY <1>1, RunHasFrames
  <2> QED
    BY <1>1, <2>1, <2>2
<1>9. /\ CodeOK(prog, loaded)' /\ Held(loaded, frames, Len(mem))'
      /\ Owned(loaded, frames, handlers, Len(mem))'
  BY <1>1, <1>5, <1>7
<1>10. CASE /\ Len(frames') <= cs[Len(cs)].base
            /\ cstack' = Pred(cs)
            /\ ctl' = [do |-> "returned", ok |-> TRUE]
  <2>1. cs[Len(cs)].base = n - 1 /\ n - 1 \in Nat
    <3>1. n - 1 <= cs[Len(cs)].base
      BY <1>2, <1>7, <1>10
    <3> QED
      BY <1>1, <1>8, <3>1
  <2>2. Stacked(cs, Len(Pred(fs)), "unwind") /\ cs[Len(cs)].base = Len(Pred(fs))
    <3> PICK z : z = n - 1
      OBVIOUS
    <3>1. z >= cs[Len(cs)].base /\ z \in Nat
      BY <2>1
    <3>2. Stacked(cs, z, "unwind")
      <4>1. n \in Nat /\ Stacked(cs, n, "run")
        BY <1>1
      <4> QED
        BY ONLY <3>1, <4>1, StackedAt
    <3> QED
      BY <1>2, <2>1, <3>2
  <2>3. Awaited(L, Pred(fs), Pred(cs), k)
    BY <1>2, <1>5, <2>2, AwaitedLeave
  <2>4. Values(p, r, e, Pred(cs))
    BY <1>6, <1>8, ValuesLess
  <2>5. Awaited(loaded, frames, cstack, Len(mem))' /\ Values(prog, mem, pendingException, cstack)'
    BY <1>7, <1>10, <2>3, <2>4
  <2>6. TopHeld'
    BY <1>4, <1>7, <1>10 DEF TopHeld
  <2> QED
    BY <1>9, <2>5, <2>6 DEF DepthInv
<1>11. CASE /\ Len(frames') > cs[Len(cs)].base
            /\ cstack' = cs
            /\ ctl' = [do |-> "run"]
  <2> PICK i : i = n - 1
    OBVIOUS
  <2>1. i \in Nat /\ i > cs[Len(cs)].base /\ i \in 1..n - 1 /\ i + 1 = n
    <3>1. i > cs[Len(cs)].base
      BY <1>2, <1>7, <1>11
    <3> QED
      BY <1>1, <1>8, <3>1
  <2>2. GoesOn(L, fs[i], at)
    <3>1. ASSUME NEW j \in 1..Len(cs), cs[j].k = "run" PROVE cs[j].base # i
      <4>1. CASE j = Len(cs)
        BY <2>1, <4>1, <1>8
      <4>2. CASE j # Len(cs)
        <5>1. j \in 1..Len(cs) - 1 /\ Len(cs) \in 1..Len(cs)
          BY <1>8, <4>2
        <5>2. cs[j].base < cs[Len(cs)].base /\ cs[j].base \in 0..n
          BY <1>1, <1>8, <3>1, <5>1 DEF Stacked
        <5> QED
          BY <1>8, <2>1, <5>2
      <4> QED
        BY <4>1, <4>2
    <3>2. GoesOn(L, fs[i], fs[i + 1].base + 1)
      BY <1>1, <2>1, <3>1 DEF Awaited
    <3> QED
      BY <2>1, <3>2
  <2>3. Pred(fs)[i] = fs[i] /\ Len(Pred(fs)) = i
    <3>1. \A j \in 1..Len(fs) - 1 : Pred(fs)[j] = fs[j]
      BY <1>1, PredList
    <3> QED
      BY <1>2, <2>1, <3>1
  <2>4. Awaited(loaded, frames, cstack, Len(mem))' /\ Values(prog, mem, pendingException, cstack)'
    BY <1>5, <1>6, <1>7, <1>11
  <2>5. TopHeld'
    <3>1. GoesOn(loaded', frames'[Len(frames')], top')
      BY <1>7, <2>2, <2>3
    <3>2. top' \in 0..Len(mem') /\ top' >= 1
      BY <1>4, <1>7
    <3> QED
      BY <1>11, <3>1, <3>2 DEF TopHeld, Frame
  <2> QED
    BY <1>9, <2>4, <2>5 DEF DepthInv
<1> QED
  BY <1>10, <1>11 DEF ReturnWith

LEMMA ReturnHeld == DefersInv /\ DepthInv /\ Return => DepthInv'
<1> SUFFICES ASSUME DefersInv, DepthInv, Return PROVE DepthInv'
  OBVIOUS
<1> PICK ins, h, v, cs : /\ ins = Ins /\ h = top /\ cs = cstack
                         /\ v = IF ins[1] = "RETURN" THEN Peek ELSE Null
  OBVIOUS
<1>1. ctl.do = "run" /\ ins[1] \in {"RETURN", "RETURN_NULL"} /\ UNCHANGED <<program, pendingException>>
  BY DEF Return, exn
<1>2. h \in 1..Len(mem) /\ frames # <<>> /\ Stacked(cs, Len(frames), "run")
  BY <1>1, Here
<1>3. ValueOK(prog, v)
  <2>1. ValueOK(prog, Peek) /\ ValueOK(prog, Null)
    BY <1>1, Instruction DEF ValueOK, Null
  <2> QED
    BY <2>1
<1>4. CASE /\ Next1 /\ Drop(IF Ins[1] = "RETURN" THEN 1 ELSE 0)
           /\ StartDefers("return", v) /\ UNCHANGED lists
  <2>1. \E pc : Goto(pc) /\ ("return" = "op" => GoesOnAt(loaded, Frame, pc, top'))
    BY <1>4 DEF Next1
  <2>2. top' \in 1..Len(mem)
    <3>1. CASE ins[1] = "RETURN"
      <4>1. fallEffect(ins) = [pops |-> 1, pushes |-> 0]
        BY <3>1, Takes
      <4>2. fallEffect(Ins).pops = 1
        BY <4>1
      <4>3. top - 1 \in 1..Len(mem)
        BY <1>1, <4>2, Fits
      <4> QED
        BY <1>4, <3>1, <4>3 DEF Drop
    <3>2. CASE ins[1] # "RETURN"
      <4>1. top' = h - 0
        BY <1>4, <3>2 DEF Drop
      <4>2. h - 0 = h
        BY <1>2
      <4> QED
        BY <1>2, <4>1, <4>2
    <3> QED
      BY <3>1, <3>2
  <2>3. UNCHANGED <<handlers, mem>>
    BY <1>4 DEF lists, Drop
  <2> QED
    BY <1>1, <1>3, <1>4, <2>1, <2>2, <2>3, Started
<1>5. CASE ReturnWith(v, cstack)
  <2>1. Awaited(loaded, frames, cs, Len(mem)) /\ Values(prog, mem, pendingException', cs)
    BY <1>1 DEF DepthInv
  <2> QED
    BY <1>1, <1>2, <1>3, <1>5, <2>1, Returned
<1> QED
  BY <1>4, <1>5 DEF Return

-----------------------------------------------------------------------------
(* Calls.                                                                    *)

\* A callee lies in cell s + 1 of q; its window is cleared above it.
LEMMA Windowed ==
  ASSUME NEW p, NEW L, CodeOK(p, L), NEW fn \in Callable(p),
         NEW q, IsList(q), \A i \in 1..Len(q) : ValueOK(p, q[i]),
         NEW s \in Nat, s + 1 <= Len(q),
         NEW r, r = Cleared(q, s + 2, L[fn].window - 1),
         NEW g, g.fn = fn, g.pc = 1, g.slots = s, g.base \in 0..Len(q)
  PROVE  /\ IsList(r) /\ Len(r) \in Nat /\ Len(r) >= Len(q)
         /\ \A i \in 1..Len(r) : ValueOK(p, r[i])
         /\ FrameHeld(L, g, Len(r))
         /\ GoesOn(L, g, s + L[fn].window) /\ s + L[fn].window \in 1..Len(r)
<1> PICK w, m, k : w = L[fn].window /\ m = Len(q) /\ k = Len(r)
  OBVIOUS
<1>1. fn \in DOMAIN L /\ w \in Nat \ {0} /\ Floor(L, g) = s + w /\ GoesOn(L, g, s + w)
  BY StartsEmpty
<1>2. m \in Nat
  BY ListFacts
<1>3. IsList(r) /\ k \in Nat /\ k >= m /\ k >= (s + 2) + (w - 1) - 1
      /\ \A i \in 1..Len(r) : ValueOK(p, r[i])
  <2> PICK at, n : at = s + 2 /\ n = w - 1
    OBVIOUS
  <2>0. s + 1 <= m
    OBVIOUS
  <2>1. at \in Nat /\ at >= 1 /\ at <= Len(q) + 1 /\ n \in Nat
    <3>1. at \in Nat /\ at >= 1 /\ at <= m + 1
      BY <1>2, <2>0
    <3>2. n \in Nat
      <4>1. w \in Nat \ {0} /\ n = w - 1
        BY <1>1
      <4> QED
        BY ONLY <4>1
    <3> QED
      BY <3>1, <3>2
  <2>2. r = Cleared(q, at, n) /\ IsList(q) /\ \A i \in 1..Len(q) : ValueOK(p, q[i])
    OBVIOUS
  <2>3. IsList(r) /\ Len(r) \in Nat /\ Len(r) >= Len(q) /\ Len(r) >= at + n - 1
        /\ \A i \in 1..Len(r) : ValueOK(p, r[i])
    BY ONLY <2>1, <2>2, ClearedList
  <2> QED
    BY <2>3
<1>4. s + w \in 1..k /\ s \in 0..k - 1 /\ g.base \in 0..k
  <2> PICK b : b = g.base
    OBVIOUS
  <2>1. b \in 0..m /\ m \in Nat /\ k \in Nat /\ k >= m /\ k >= (s + 2) + (w - 1) - 1
        /\ w \in Nat \ {0} /\ s \in Nat /\ s + 1 <= m
    BY <1>1, <1>2, <1>3
  <2>2. s + w \in 1..k /\ s \in 0..k - 1 /\ b \in 0..k
    BY ONLY <2>1
  <2> QED
    BY <2>2
<1>5. FrameHeld(L, g, k)
  BY <1>1, <1>4 DEF FrameHeld
<1> QED
  BY <1>1, <1>3, <1>4, <1>5

\* The frame is reused for a tail call.
LEMMA Reused ==
  ASSUME DefersInv, DepthInv, frames # <<>>, top \in 1..Len(mem),
         NEW cs, Stacked(cs, Len(frames), "run"),
         Awaited(loaded, frames, cs, Len(mem)), Values(prog, mem, pendingException', cs),
         UNCHANGED program, NEW fn \in Callable(prog), ReuseFrame(fn),
         cstack' = cs, ctl'.do = "run"
  PROVE  DepthInv'
<1> PICK L, fs, n, m, hs, p, e, q, g, s, b, x, y, q2, r, k, w :
      /\ L = loaded /\ fs = frames /\ n = Len(fs) /\ m = Len(mem) /\ hs = handlers
      /\ p = prog /\ e = pendingException' /\ q = mem /\ g = fs[n] /\ s = g.slots
      /\ b = g.handlerBase /\ y = [g EXCEPT !.fn = fn] /\ x = [y EXCEPT !.pc = 1]
      /\ w = L[fn].window /\ q2 = With(q, s + 1, q[top])
      /\ r = Cleared(q2, s + 2, w - 1) /\ k = Len(r)
  OBVIOUS
<1>1. /\ IsList(fs) /\ fs # <<>> /\ n \in Nat /\ n \in 1..n /\ DOMAIN g = FrameFields
      /\ Held(L, fs, m) /\ Owned(L, fs, hs, m) /\ Awaited(L, fs, cs, m) /\ CodeOK(p, L)
      /\ Stacked(cs, Len(fs), "run") /\ Values(p, q, e, cs)
  BY ListFacts DEF DepthInv, DefersInv, FramesOK, Stretched
<1>2. IsList(q) /\ Len(q) = m /\ m \in Nat /\ \A i \in 1..m : ValueOK(p, q[i])
  BY <1>1, ListFacts DEF Values
<1>3. s \in 0..m - 1 /\ g.base \in 0..m
  BY <1>1 DEF Held, FrameHeld
<1>4. IsList(q2) /\ Len(q2) = m /\ \A i \in 1..Len(q2) : ValueOK(p, q2[i])
  <2> PICK at, v : at = s + 1 /\ v = q[top]
    OBVIOUS
  <2>1. at \in 1..Len(q)
    BY <1>2, <1>3
  <2>2. ValueOK(p, v)
    BY <1>2
  <2>3. IsList(With(q, at, v)) /\ Len(With(q, at, v)) = m /\ With(q, at, v)[at] = v
        /\ \A j \in 1..m : j # at => With(q, at, v)[j] = q[j]
    BY <1>2, <2>1, WithList
  <2>4. q2 = With(q, at, v)
    OBVIOUS
  <2> QED
    BY <1>2, <2>2, <2>3, <2>4
<1>5. x.fn = fn /\ x.pc = 1 /\ x.slots = s /\ x.base = g.base /\ x.handlerBase = b
  BY <1>1 DEF FrameFields
<1>6. /\ IsList(r) /\ k \in Nat /\ k >= m
      /\ \A i \in 1..Len(r) : ValueOK(p, r[i])
      /\ FrameHeld(L, x, k)
      /\ GoesOn(L, x, s + w) /\ s + w \in 1..k
  <2>1. /\ s \in Nat /\ s + 1 <= Len(q2) /\ x.base \in 0..Len(q2) /\ fn \in Callable(p)
        /\ r = Cleared(q2, s + 2, L[fn].window - 1)
    BY <1>2, <1>3, <1>4, <1>5
  <2>2. /\ IsList(r) /\ Len(r) \in Nat /\ Len(r) >= Len(q2)
        /\ \A i \in 1..Len(r) : ValueOK(p, r[i])
        /\ FrameHeld(L, x, Len(r))
        /\ GoesOn(L, x, s + L[fn].window) /\ s + L[fn].window \in 1..Len(r)
    BY ONLY <1>1, <1>4, <1>5, <2>1, Windowed
  <2> QED
    BY <1>4, <2>2
<1> PICK gs, zs : gs = With(fs, n, x) /\ zs = SubSeq(hs, 1, b)
  OBVIOUS
<1>7. /\ prog' = p /\ loaded' = L /\ frames' = gs /\ mem' = r /\ top' = s + w
      /\ handlers' = zs /\ pendingException' = e /\ cstack' = cs
  <2>1. frames' = gs
    <3>1. frames' = [[fs EXCEPT ![n] = y] EXCEPT ![n] = [[fs EXCEPT ![n] = y][n] EXCEPT !.pc = 1]]
      BY DEF ReuseFrame
    <3>2. DOMAIN fs = 1..n
      BY <1>1, ListFacts
    <3>3. [fs EXCEPT ![n] = y][n] = y
      BY <1>1, <3>2
    <3>4. frames' = [[fs EXCEPT ![n] = y] EXCEPT ![n] = x]
      BY <3>1, <3>3
    <3>5. [[fs EXCEPT ![n] = y] EXCEPT ![n] = x] = [fs EXCEPT ![n] = x]
      OBVIOUS
    <3> QED
      BY <3>4, <3>5 DEF With
  <2>2. mem' = r /\ top' = s + w /\ handlers' = zs
    BY DEF ReuseFrame, Frame, With, frameWindowSize, Trimmed
  <2> QED
    BY <2>1, <2>2 DEF program
<1>8. Held(L, fs, k) /\ Awaited(L, fs, cs, k) /\ Owned(L, fs, hs, k)
  <2>1. m \in Nat /\ k \in Nat /\ k >= m
    BY <1>2, <1>6
  <2> QED
    BY ONLY <1>1, <2>1, HeldUp, AwaitedUp, OwnedUp
<1>9. Owned(L, gs, zs, k)
  <2>1. b \in fs[Len(fs)].handlerBase..Len(hs)
    <3>1. Len(hs) \in Nat /\ b \in 0..Len(hs)
      BY <1>1, ListFacts DEF Owned
    <3> QED
      BY <3>1
  <2>2. Owned(L, fs, SubSeq(hs, 1, b), k) /\ Len(SubSeq(hs, 1, b)) = b
    BY ONLY <1>1, <1>8, <2>1, OwnedCut
  <2>3. Owned(L, fs, zs, k) /\ x.handlerBase = fs[Len(fs)].handlerBase /\ fs[Len(fs)].handlerBase = Len(zs)
    BY <1>5, <2>2
  <2>4. Owned(L, With(fs, Len(fs), x), zs, k)
    BY ONLY <1>1, <2>3, OwnedTop
  <2> QED
    BY <2>4
<1>10. Held(L, gs, k) /\ Awaited(L, gs, cs, k)
  <2>1. x.base = fs[Len(fs)].base
    BY <1>5
  <2>2. Held(L, With(fs, Len(fs), x), k) /\ Awaited(L, With(fs, Len(fs), x), cs, k)
    BY <1>1, <1>6, <1>8, <2>1, HeldTop, AwaitedTop
  <2> QED
    BY <2>2
<1>11. gs[Len(gs)] = x
  <2>1. IsList(fs) /\ n \in 1..Len(fs)
    BY <1>1
  <2>2. Len(gs) = Len(fs) /\ gs[n] = x
    BY <2>1, WithList
  <2> QED
    BY <2>2
<1>12. Values(p, r, e, cs)
  BY <1>1, <1>6 DEF Values
<1>13. /\ CodeOK(prog, loaded)' /\ Held(loaded, frames, Len(mem))'
       /\ Owned(loaded, frames, handlers, Len(mem))'
       /\ Awaited(loaded, frames, cstack, Len(mem))'
       /\ Values(prog, mem, pendingException, cstack)'
  BY <1>1, <1>7, <1>9, <1>10, <1>12
<1>14. TopHeld'
  <2>1. GoesOn(loaded', frames'[Len(frames')], top')
    BY <1>6, <1>7, <1>11
  <2>2. top' \in 0..Len(mem') /\ top' >= 1
    <3> PICK t : t = s + w
      OBVIOUS
    <3>1. t \in 1..k /\ k \in Nat /\ top' = t /\ Len(mem') = k
      BY <1>6, <1>7
    <3> QED
      BY ONLY <3>1
  <2> QED
    BY <2>1, <2>2 DEF TopHeld, Frame
<1> QED
  BY <1>13, <1>14 DEF DepthInv

\* A call has been made: the callee has its frame, on a stack it starts empty.
LEMMA Entered ==
  ASSUME CodeOK(prog, loaded), UNCHANGED <<program, handlers, pendingException>>,
         ValueOK(prog, pendingException),
         NEW gs, IsList(gs), gs # <<>>, NEW m \in Nat,
         Held(loaded, gs, m), Owned(loaded, gs, handlers, m),
         NEW fn \in Callable(prog),
         NEW q, IsList(q), Len(q) >= m, \A i \in 1..Len(q) : ValueOK(prog, q[i]),
         NEW s \in Nat, s >= 1, s + 1 <= Len(q),
         EnterCall(gs, q, fn, s), ctl'.do = "run",
         \A k \in Nat : \A g : k >= Len(q) /\ g = NewFrame(fn, s, s) =>
             Awaited(loaded, Append(gs, g), cstack', k),
         \A j \in 1..Len(cstack') : CarriedOK(prog, cstack'[j])
  PROVE  DepthInv'
<1> PICK L, p, hs, g, r, k, w, e :
      /\ L = loaded /\ p = prog /\ hs = handlers /\ g = NewFrame(fn, s, s) /\ w = L[fn].window
      /\ r = Cleared(q, s + 2, w - 1) /\ k = Len(r) /\ e = pendingException
  OBVIOUS
<1>1. g.fn = fn /\ g.pc = 1 /\ g.slots = s /\ g.base = s /\ g.handlerBase = Len(hs)
  BY DEF NewFrame
<1>2. Len(q) \in Nat /\ g.base \in 0..Len(q)
  BY <1>1, ListFacts
<1>3. /\ IsList(r) /\ k \in Nat /\ k >= Len(q)
      /\ \A i \in 1..Len(r) : ValueOK(p, r[i])
      /\ FrameHeld(L, g, k) /\ GoesOn(L, g, s + w) /\ s + w \in 1..k
  <2>1. /\ CodeOK(p, L) /\ fn \in Callable(p) /\ IsList(q)
        /\ (\A i \in 1..Len(q) : ValueOK(p, q[i]))
        /\ s \in Nat /\ s + 1 <= Len(q) /\ r = Cleared(q, s + 2, L[fn].window - 1)
    OBVIOUS
  <2>0. g.fn = fn /\ g.pc = 1 /\ g.slots = s /\ g.base \in 0..Len(q)
    BY <1>1, <1>2
  <2>2. /\ IsList(r) /\ Len(r) \in Nat /\ Len(r) >= Len(q)
        /\ \A i \in 1..Len(r) : ValueOK(p, r[i])
        /\ FrameHeld(L, g, Len(r))
        /\ GoesOn(L, g, s + L[fn].window) /\ s + L[fn].window \in 1..Len(r)
    BY ONLY <2>0, <2>1, Windowed
  <2> QED
    BY <2>2
<1> PICK fs : fs = Append(gs, g)
  OBVIOUS
<1>4. Held(L, fs, k) /\ Owned(L, fs, hs, k)
  <2>1. k >= m
    BY <1>2, <1>3
  <2>2. Held(L, gs, k) /\ Owned(L, gs, hs, k)
    <3>1. Held(L, gs, m) /\ Owned(L, gs, hs, m)
      OBVIOUS
    <3> QED
      BY ONLY <1>3, <2>1, <3>1, m \in Nat, HeldUp, OwnedUp
  <2> QED
    BY <1>1, <1>3, <2>2, HeldMore, OwnedMore
<1>5. /\ prog' = p /\ loaded' = L /\ frames' = fs /\ mem' = r /\ top' = s + w
      /\ handlers' = hs /\ pendingException' = e
  BY DEF program, EnterCall, frameWindowSize
<1>6. Awaited(L, fs, cstack', k)
  BY <1>3
<1>7. Values(p, r, e, cstack')
  BY <1>3 DEF Values
<1>8. /\ CodeOK(prog, loaded)' /\ Held(loaded, frames, Len(mem))'
      /\ Owned(loaded, frames, handlers, Len(mem))'
      /\ Awaited(loaded, frames, cstack, Len(mem))'
      /\ Values(prog, mem, pendingException, cstack)'
  BY <1>4, <1>5, <1>6, <1>7
<1>9. fs[Len(fs)] = g
  <2>1. Len(fs) = Len(gs) + 1 /\ fs[Len(gs) + 1] = g
    BY AppendList
  <2> QED
    BY <2>1
<1>10. TopHeld'
  <2>1. GoesOn(loaded', frames'[Len(frames')], top')
    BY <1>3, <1>5, <1>9
  <2>2. top' \in 0..Len(mem') /\ top' >= 1
    BY <1>3, <1>5
  <2> QED
    BY <2>1, <2>2 DEF TopHeld, Frame
<1> QED
  BY <1>8, <1>10 DEF DepthInv

LEMMA InvokeHeld ==
  ASSUME DefersInv, DepthInv, ctl.do = "run", Ins[1] \in {"CALL", "TAIL_CALL"}, Invoke,
         UNCHANGED <<program, handlers>>
  PROVE  DepthInv'
<1> PICK ins, L, f, fs, n, hs, m, p, q, h, cs, e, c, pc, gs :
      /\ ins = Ins /\ L = loaded /\ f = Frame /\ fs = frames /\ n = Len(fs) /\ hs = handlers
      /\ m = Len(mem) /\ p = prog /\ q = mem /\ h = top /\ cs = cstack /\ e = pendingException
      /\ c = Peek /\ pc = f.pc + 1 /\ gs = TopAt(fs, pc)
  OBVIOUS
<1>1. /\ IsList(fs) /\ fs # <<>> /\ n \in Nat /\ n \in 1..n /\ DOMAIN fs[Len(fs)] = FrameFields
      /\ f = fs[n] /\ m \in Nat /\ IsList(q) /\ h \in 1..m /\ CodeOK(p, L)
      /\ Stacked(cs, n, "run") /\ Stacked(cs, Len(fs), "run")
  BY Here DEF Frame
<1>2. Held(L, fs, m) /\ Owned(L, fs, hs, m) /\ Awaited(L, fs, cs, m) /\ Values(p, q, e, cs)
  BY DEF DepthInv
<1>3. IsList(cs) /\ (\A i \in 1..Len(q) : ValueOK(p, q[i])) /\ ValueOK(p, e)
      /\ \A j \in 1..Len(cs) : CarriedOK(p, cs[j])
  BY <1>1, <1>2, TopActivation DEF Values
<1>4. /\ IsList(gs) /\ Len(gs) = n /\ gs # <<>> /\ gs[n] = At(fs[n], pc)
      /\ Held(L, gs, m) /\ Owned(L, gs, hs, m) /\ Awaited(L, gs, cs, m)
  <2>1. Held(L, gs, m) /\ Owned(L, gs, hs, m) /\ Awaited(L, gs, cs, m)
    BY <1>1, <1>2, PcMoved
  <2>2. IsList(gs) /\ Len(gs) = Len(fs) /\ gs # <<>> /\ gs[Len(fs)] = At(fs[Len(fs)], pc)
    BY <1>1, TopAtFacts
  <2> QED
    BY <2>1, <2>2
<1>5. jaiOpFallsThrough(ins[1]) /\ fallEffect(ins) = [pops |-> 1, pushes |-> 1]
  <2>1. ins[1] \in {"CALL", "TAIL_CALL", "GET_ITER"}
    OBVIOUS
  <2> QED
    BY <2>1, Takes
<1>6. GoesOn(L, gs[n], h)
  <2>1. GoesOnAt(loaded, Frame, Frame.pc + 1, top - 1 + 1)
    BY <1>5, Falls
  <2>2. h - 1 + 1 = h
    BY <1>1
  <2>3. GoesOnAt(L, fs[Len(fs)], pc, h)
    BY <1>1, <2>1, <2>2
  <2>4. GoesOn(L, At(fs[Len(fs)], pc), h)
    BY ONLY <1>1, <2>3, AtGoesOn
  <2> QED
    BY <1>4, <2>4
<1>7. h - 1 \in Nat /\ h - 1 >= 1 /\ (h - 1) + 1 = h
  <2>1. fallEffect(Ins).pops = 1
    BY <1>5
  <2>2. h - 1 \in 1..m
    BY <2>1, Fits
  <2> QED
    BY <1>1, <2>2
<1>8. [frames EXCEPT ![Len(frames)].pc = @ + 1] = gs
  BY DEF TopAt, At, With, Frame
<1>9. ValueOK(p, c)
  BY Instruction
<1>10. UNCHANGED <<program, handlers>> /\ ctl.do = "run"
  OBVIOUS
<1>11. CASE c[1] = "fn" /\ EnterCall(gs, q, c[2], h - 1) /\ UNCHANGED <<exn, cstack, ctl>>
  <2> PICK fn, s : fn = c[2] /\ s = h - 1
    OBVIOUS
  <2>1. fn \in Callable(p)
    BY <1>9, <1>11 DEF ValueOK
  <2>2. s \in Nat /\ s >= 1 /\ s + 1 = h /\ s + 1 <= Len(q) /\ Len(q) >= m
    BY <1>1, <1>7
  <2>3. ASSUME NEW g, NEW k \in Nat, k >= Len(q), g = NewFrame(fn, s, s)
        PROVE  Awaited(L, Append(gs, g), cs, k)
    <3>1. g.base + 1 = h
      BY <2>2, <2>3 DEF NewFrame
    <3>2. Awaited(L, gs, cs, k)
      <4>1. k >= m
        BY <2>3
      <4> QED
        BY <1>1, <1>4, <4>1, AwaitedUp
    <3>3. Stacked(cs, Len(gs), "run") /\ GoesOn(L, gs[Len(gs)], g.base + 1)
      BY <1>1, <1>4, <1>6, <3>1
    <3> QED
      BY <1>4, <3>2, <3>3, AwaitedMore
  <2>4. EnterCall(gs, q, fn, s) /\ ctl'.do = "run" /\ cstack' = cs /\ UNCHANGED pendingException
    BY <1>11 DEF exn
  <2>5. /\ \A k \in Nat : \A g : k >= Len(q) /\ g = NewFrame(fn, s, s) =>
             Awaited(loaded, Append(gs, g), cstack', k)
        /\ \A j \in 1..Len(cstack') : CarriedOK(prog, cstack'[j])
    BY <1>3, <2>3, <2>4
  <2>6. /\ CodeOK(prog, loaded) /\ ValueOK(prog, pendingException) /\ m \in Nat
        /\ Held(loaded, gs, m) /\ Owned(loaded, gs, handlers, m)
        /\ IsList(q) /\ fn \in Callable(prog) /\ \A i \in 1..Len(q) : ValueOK(prog, q[i])
    BY <1>1, <1>3, <1>4, <2>1
  <2>7. UNCHANGED <<program, handlers, pendingException>>
    BY <1>10, <2>4
  <2> QED
    BY ONLY <1>4, <2>2, <2>4, <2>5, <2>6, <2>7, Entered
<1>12. CASE /\ c[1] = "native"
            /\ LET fn == Fn(prog[c[2]])
               IN  EnterCall(gs, Put(q, h + 1, <<"fn", fn>>), fn, h)
            /\ cstack' = cs \o <<[k |-> "native", base |-> h], [k |-> "run", base |-> n]>>
            /\ UNCHANGED <<exn, ctl>>
  <2> PICK fn, a, b, q2 : /\ fn = Fn(prog[c[2]]) /\ a = [k |-> "native", base |-> h]
                          /\ b = [k |-> "run", base |-> n] /\ q2 = Put(q, h + 1, <<"fn", fn>>)
    OBVIOUS
  <2>1. fn \in Callable(p) /\ ValueOK(p, <<"fn", fn>>)
    BY <1>9, <1>12 DEF ValueOK, Callable
  <2>2. IsList(q2) /\ Len(q2) \in Nat /\ Len(q2) >= m /\ Len(q2) >= h + 1
        /\ \A i \in 1..Len(q2) : ValueOK(p, q2[i])
    <3> PICK at, v : at = h + 1 /\ v = <<"fn", fn>>
      OBVIOUS
    <3>1. at \in Nat /\ at >= 1 /\ at <= Len(q) + 1 /\ q2 = Put(q, at, v) /\ ValueOK(p, v)
      BY <1>1, <2>1
    <3>2. /\ IsList(Put(q, at, v)) /\ Len(Put(q, at, v)) \in Nat
          /\ Len(Put(q, at, v)) >= Len(q) /\ Len(Put(q, at, v)) >= at
          /\ \A i \in 1..Len(Put(q, at, v)) : ValueOK(p, Put(q, at, v)[i])
      <4>1. IsList(q) /\ \A i \in 1..Len(q) : ValueOK(p, q[i])
        BY <1>1, <1>3
      <4> QED
        BY ONLY <3>1, <4>1, PutList
    <3>3. m = Len(q) /\ at = h + 1
      OBVIOUS
    <3>4. q2 = Put(q, at, v)
      BY <3>1
    <3>5. /\ IsList(q2) /\ Len(q2) \in Nat /\ Len(q2) >= Len(q) /\ Len(q2) >= at
          /\ \A i \in 1..Len(q2) : ValueOK(p, q2[i])
      BY ONLY <3>2, <3>4
    <3> QED
      BY ONLY <3>3, <3>5, Zenon
  <2>3. cstack' = Append(Append(cs, a), b)
    BY <1>3, <1>12, TwoMore
  <2>4. ASSUME NEW g, NEW k \in Nat, k >= Len(q2)
        PROVE  Awaited(L, Append(gs, g), Append(Append(cs, a), b), k)
    <3>1. k >= m /\ a.base \in 1..k
      BY <1>1, <2>2, <2>4
    <3>2. Awaited(L, gs, cs, k)
      BY <1>1, <1>4, <3>1, AwaitedUp
    <3>3. Stacked(cs, Len(gs), "run") /\ GoesOn(L, gs[Len(gs)], a.base) /\ b.base = Len(gs)
          /\ a.k \in {"native", "deferred"} /\ b.k = "run"
      BY <1>1, <1>4, <1>6
    <3> QED
      BY <1>4, <3>1, <3>2, <3>3, AwaitedCall
  <2>5. Values(p, q, e, Append(Append(cs, a), b))
    <3>1. CarriedOK(p, a) /\ CarriedOK(p, b)
      BY DEF CarriedOK
    <3>2. Values(p, q, e, Append(cs, a)) /\ IsList(Append(cs, a))
      BY <1>2, <1>3, <3>1, ValuesMore, AppendList
    <3> QED
      BY <3>1, <3>2, ValuesMore
  <2>6. EnterCall(gs, q2, fn, h) /\ ctl'.do = "run" /\ UNCHANGED pendingException
    BY <1>12 DEF exn
  <2>7. /\ \A k \in Nat : \A g : k >= Len(q2) /\ g = NewFrame(fn, h, h) =>
             Awaited(loaded, Append(gs, g), cstack', k)
        /\ \A j \in 1..Len(cstack') : CarriedOK(prog, cstack'[j])
    BY <2>3, <2>4, <2>5 DEF Values
  <2>8. h \in Nat /\ h >= 1 /\ m \in Nat /\ h + 1 <= Len(q2) /\ Len(q2) >= m
    BY <1>1, <2>2
  <2>9. /\ CodeOK(prog, loaded) /\ ValueOK(prog, pendingException)
        /\ Held(loaded, gs, m) /\ Owned(loaded, gs, handlers, m)
        /\ fn \in Callable(prog) /\ \A i \in 1..Len(q2) : ValueOK(prog, q2[i])
    BY <1>1, <1>3, <1>4, <2>1, <2>2
  <2>10. UNCHANGED <<program, handlers, pendingException>>
    BY <1>10, <2>6
  <2> QED
    BY ONLY <1>4, <2>2, <2>6, <2>7, <2>8, <2>9, <2>10, Entered
<1>13. CASE Throw(<<"exc", "TypeError">>) /\ UNCHANGED <<mem, top, cstack>>
  <2>1. ValueOK(prog, <<"exc", "TypeError">>)
    BY DEF ValueOK
  <2>2. top' \in 1..Len(mem)
    BY <1>1, <1>13
  <2> QED
    BY <1>10, <1>13, <2>1, <2>2, Thrown
<1> QED
  BY <1>8, <1>11, <1>12, <1>13 DEF Invoke

LEMMA CallHeld == DefersInv /\ DepthInv /\ Call => DepthInv'
<1> SUFFICES ASSUME DefersInv, DepthInv, Call PROVE DepthInv'
  OBVIOUS
<1>1. ctl.do = "run" /\ Ins[1] \in {"CALL", "TAIL_CALL"} /\ Invoke /\ UNCHANGED <<program, handlers>>
  BY DEF Call, Running, lists
<1> QED
  BY <1>1, InvokeHeld

LEMMA TailCallHeld == DefersInv /\ DepthInv /\ TailCall => DepthInv'
<1> SUFFICES ASSUME DefersInv, DepthInv, TailCall PROVE DepthInv'
  OBVIOUS
<1>1. ctl.do = "run" /\ Ins[1] \in {"CALL", "TAIL_CALL"} /\ UNCHANGED program
  BY DEF TailCall, Running
<1>2. frames # <<>> /\ top \in 1..Len(mem) /\ Stacked(cstack, Len(frames), "run") /\ ValueOK(prog, Peek)
  BY <1>1, Here, Instruction
<1>3. CASE Invoke /\ UNCHANGED lists
  <2>1. UNCHANGED handlers
    BY <1>3 DEF lists
  <2> QED
    BY <1>1, <1>3, <2>1, InvokeHeld
<1>4. CASE /\ Peek[1] = "fn" /\ Next1 /\ StartDefers("tail", Peek)
           /\ UNCHANGED <<mem, top, exn, lists>>
  <2> PICK v : v = Peek
    OBVIOUS
  <2>1. /\ StartDefers("tail", v) /\ ValueOK(prog, v) /\ v[1] = "fn"
        /\ UNCHANGED <<program, handlers, mem, pendingException>> /\ top' \in 1..Len(mem)
    BY <1>1, <1>2, <1>4 DEF exn, lists
  <2>2. \E pc : Goto(pc) /\ ("tail" = "op" => GoesOnAt(loaded, Frame, pc, top'))
    BY <1>4 DEF Next1
  <2> QED
    BY <1>1, <2>1, <2>2, Started
<1>5. CASE Peek[1] = "fn" /\ ReuseFrame(Peek[2]) /\ UNCHANGED <<exn, cstack, ctl>>
  <2> PICK fn, cs : fn = Peek[2] /\ cs = cstack
    OBVIOUS
  <2>1. fn \in Callable(prog)
    BY <1>2, <1>5 DEF ValueOK
  <2>2. Awaited(loaded, frames, cs, Len(mem)) /\ Values(prog, mem, pendingException', cs)
    BY <1>5 DEF DepthInv, exn
  <2>3. ReuseFrame(fn) /\ cstack' = cs /\ ctl'.do = "run" /\ Stacked(cs, Len(frames), "run")
    BY <1>1, <1>2, <1>5
  <2> QED
    BY <1>1, <1>2, <2>1, <2>2, <2>3, Reused
<1> QED
  BY <1>3, <1>4, <1>5 DEF TailCall

-----------------------------------------------------------------------------
(* A run gives its result, or its failure, to what started it.               *)

LEMMA Answered ==
  ASSUME DefersInv, DepthInv, ctl.do = "returned", cstack # <<>>, NEW cs, cs = cstack,
         NEW n, n = Len(frames), NEW a, a = cs[Len(cs)]
  PROVE  /\ frames # <<>> /\ IsList(frames) /\ n \in Nat /\ n \in 1..n
         /\ IsList(mem) /\ Len(mem) \in Nat /\ top \in 1..Len(mem)
         /\ IsList(cs) /\ Len(cs) \in Nat /\ Len(cs) \in 1..Len(cs)
         /\ Stacked(cs, n, "returned") /\ Stacked(Pred(cs), n, IF a.k = "deferred" THEN "defers" ELSE "run")
         /\ a.base \in 1..Len(mem)
         /\ (a.k = "deferred" => cs[Len(cs) - 1].then = "op") => GoesOn(loaded, frames[n], a.base)
         /\ Awaited(loaded, frames, Pred(cs), Len(mem))
         /\ Values(prog, mem, pendingException, Pred(cs))
<1> PICK fs, m, z, L, p, q, e, to :
      /\ fs = frames /\ m = Len(mem) /\ z = Len(cs) /\ L = loaded /\ p = prog /\ q = mem
      /\ e = pendingException /\ to = IF a.k = "deferred" THEN "defers" ELSE "run"
  OBVIOUS
<1>1. IsList(fs) /\ n = Len(fs) /\ n \in Nat /\ Stacked(cs, n, "returned") /\ cs # <<>>
  BY ListFacts DEF DefersInv, FramesOK, CStackOK, Stretched
<1>2. IsList(cs) /\ z \in Nat /\ z \in 1..z
  <2>1. IsList(cs)
    BY <1>1 DEF Stacked
  <2> QED
    BY <1>1, <2>1, ListFacts
<1>3. a.k \in {"native", "deferred"}
  <2>1. Suits("returned", cs[z].k)
    BY <1>1 DEF Stacked
  <2> QED
    BY <2>1 DEF Suits
<1>4. n \in 1..n
  <2>1. z \in 1..Len(cs) /\ cs[z].k \in {"native", "deferred"}
    BY <1>2, <1>3
  <2>2. Under(cs, n, z) \in 1..n
    BY <1>1, <2>1, UnderFacts
  <2> QED
    BY <1>2, <2>2 DEF Under
<1>5. fs # <<>>
  BY <1>1, <1>4, ListFacts
<1>6. Awaited(L, fs, cs, m) /\ Values(p, q, e, cs) /\ IsList(q) /\ m \in Nat
  BY ListFacts DEF DepthInv, Values
<1>7. top \in 1..m
  BY <1>5, <1>6 DEF DepthInv, TopHeld
<1>8. /\ a.base \in 1..m
      /\ (a.k = "deferred" => cs[z - 1].then = "op") => GoesOn(L, fs[n], a.base)
  <2>1. Under(cs, n, z) = n
    BY DEF Under
  <2>2. Under(cs, Len(fs), z) = n
    BY <1>1, <2>1
  <2> QED
    BY <1>2, <1>3, <1>6, <2>2 DEF Awaited
<1>9. Stacked(Pred(cs), n, to)
  BY <1>1, <1>3, StackedLess
<1>10. Awaited(L, fs, Pred(cs), m)
  <2>1. Stacked(cs, Len(fs), "returned") /\ cs[Len(cs)].k # "run"
    BY <1>1, <1>3
  <2> QED
    BY <1>1, <1>6, <2>1, AwaitedPop
<1>11. Values(p, q, e, Pred(cs))
  BY <1>1, <1>2, <1>6, ValuesLess
<1> QED
  BY <1>1, <1>2, <1>4, <1>5, <1>6, <1>7, <1>8, <1>9, <1>10, <1>11

LEMMA NativeReturnsHeld == DefersInv /\ DepthInv /\ NativeReturns => DepthInv'
<1> SUFFICES ASSUME DefersInv, DepthInv, NativeReturns PROVE DepthInv'
  OBVIOUS
<1> PICK cs, n, a, L, fs, m, p, q, e, b, hs, v :
      /\ cs = cstack /\ n = Len(frames) /\ a = cs[Len(cs)] /\ L = loaded /\ fs = frames
      /\ m = Len(mem) /\ p = prog /\ q = mem /\ e = pendingException /\ b = a.base
      /\ hs = handlers /\ v = q[top]
  OBVIOUS
<1>1. /\ ctl.do = "returned" /\ cstack # <<>> /\ a.k = "native"
      /\ UNCHANGED <<program, frames, pendingException, handlers>> /\ cstack' = Pred(cs) /\ top' = b
      /\ \/ ctl.ok /\ mem' = [q EXCEPT ![b] = v] /\ ctl' = [do |-> "run"]
         \/ ~ctl.ok /\ mem' = q /\ ctl' = [do |-> "unwind"]
  BY DEF NativeReturns, exn, lists
<1>2. /\ fs # <<>> /\ IsList(fs) /\ n \in Nat /\ n \in 1..n
      /\ IsList(q) /\ m \in Nat /\ top \in 1..m
      /\ b \in 1..m /\ GoesOn(L, fs[n], b)
      /\ Awaited(L, fs, Pred(cs), m) /\ Values(p, q, e, Pred(cs))
  BY <1>1, Answered
<1>3. PICK r : /\ mem' = r /\ IsList(r) /\ Len(r) = m /\ Values(p, r, e, Pred(cs))
  <2>1. CASE mem' = q
    BY <1>2, <2>1
  <2>2. CASE mem' = With(q, b, v)
    <3> PICK r : r = With(q, b, v)
      OBVIOUS
    <3>1. IsList(r) /\ Len(r) = m /\ r[b] = v /\ \A j \in 1..m : j # b => r[j] = q[j]
      BY <1>2, WithList
    <3>2. ValueOK(p, v) /\ \A j \in 1..m : ValueOK(p, q[j])
      BY <1>2 DEF Values
    <3>3. \A j \in 1..Len(r) : ValueOK(p, r[j])
      BY <3>1, <3>2
    <3>4. Values(p, r, e, Pred(cs))
      BY <1>2, <3>1, <3>3 DEF Values
    <3> QED
      BY <2>2, <3>1, <3>4
  <2> QED
    BY <1>1, <2>1, <2>2 DEF With
<1>4. prog' = p /\ loaded' = L /\ frames' = fs /\ handlers' = hs /\ pendingException' = e
  BY <1>1 DEF program
<1>5. CodeOK(p, L) /\ Held(L, fs, m) /\ Owned(L, fs, hs, m)
  BY DEF DepthInv
<1>6. /\ CodeOK(prog, loaded)' /\ Held(loaded, frames, Len(mem))'
      /\ Owned(loaded, frames, handlers, Len(mem))'
      /\ Awaited(loaded, frames, cstack, Len(mem))'
      /\ Values(prog, mem, pendingException, cstack)'
  BY <1>1, <1>2, <1>3, <1>4, <1>5
<1>7. TopHeld'
  <2>1. GoesOn(loaded', frames'[Len(frames')], top')
    BY <1>1, <1>2, <1>4
  <2>2. top' \in 0..Len(mem') /\ top' >= 1 /\ ctl'.do \in {"run", "unwind"}
    BY <1>1, <1>2, <1>3
  <2> QED
    BY <2>1, <2>2 DEF TopHeld, Frame
<1> QED
  BY <1>6, <1>7 DEF DepthInv

LEMMA DeferredReturnsHeld == DefersInv /\ DepthInv /\ DeferredReturns => DepthInv'
<1> SUFFICES ASSUME DefersInv, DepthInv, DeferredReturns PROVE DepthInv'
  OBVIOUS
<1> PICK cs, n, a, L, fs, m, p, q, e, b, hs, ds, z, d, x, y :
      /\ cs = cstack /\ n = Len(frames) /\ a = cs[Len(cs)] /\ L = loaded /\ fs = frames
      /\ m = Len(mem) /\ p = prog /\ q = mem /\ e = pendingException /\ b = a.base
      /\ hs = handlers /\ ds = Pred(cs) /\ z = Len(ds) /\ d = ds[z]
      /\ x = [d EXCEPT !.had = TRUE] /\ y = [x EXCEPT !.carried = e]
  OBVIOUS
<1>1. /\ ctl.do = "returned" /\ cstack # <<>> /\ a.k = "deferred"
      /\ UNCHANGED <<program, frames, mem, pendingException, handlers>> /\ top' = b
      /\ ctl' = [do |-> "defers"]
      /\ \/ cstack' = ds
         \/ cstack' = [ds EXCEPT ![Len(cs) - 1].had = TRUE, ![Len(cs) - 1].carried = e]
  BY DEF DeferredReturns, exn, lists
<1>2. /\ fs # <<>> /\ IsList(fs) /\ n \in Nat /\ n \in 1..n /\ m \in Nat
      /\ IsList(cs) /\ Len(cs) \in Nat /\ b \in 1..m
      /\ Stacked(ds, n, "defers")
      /\ cs[Len(cs) - 1].then = "op" => GoesOn(L, fs[n], b)
      /\ Awaited(L, fs, ds, m) /\ Values(p, q, e, ds)
  BY <1>1, Answered
<1>3. /\ IsList(ds) /\ ds # <<>> /\ z \in Nat /\ z \in 1..z /\ d.k = "defers"
      /\ z = Len(cs) - 1 /\ d = cs[z]
  <2>1. IsList(ds) /\ ds # <<>> /\ z \in Nat /\ z > 0 /\ d.k = "defers"
    BY <1>2, TopActivation
  <2>2. z = Len(cs) - 1 /\ \A i \in 1..Len(cs) - 1 : ds[i] = cs[i]
    BY <1>1, <1>2, PredList
  <2> QED
    BY <2>1, <2>2
<1>4. CarriedOK(p, d) /\ ValueOK(p, e) /\ IsList(q) /\ \A i \in 1..Len(q) : ValueOK(p, q[i])
  BY <1>2, <1>3 DEF Values
<1>5. PICK es : /\ cstack' = es /\ IsList(es) /\ Len(es) = z /\ es[z].then = d.then
                /\ Awaited(L, fs, es, m) /\ Values(p, q, e, es)
  <2>1. CASE cstack' = ds
    BY <1>2, <1>3, <2>1
  <2>2. CASE cstack' = [ds EXCEPT ![Len(cs) - 1].had = TRUE, ![Len(cs) - 1].carried = e]
    <3> PICK es : es = With(ds, z, y)
      OBVIOUS
    <3>1. cstack' = es
      <4>1. cstack' = [[ds EXCEPT ![z] = x] EXCEPT ![z] = [[ds EXCEPT ![z] = x][z] EXCEPT !.carried = e]]
        BY <1>3, <2>2
      <4>2. DOMAIN ds = 1..z
        BY <1>3, ListFacts
      <4>3. [ds EXCEPT ![z] = x][z] = x
        BY <1>3, <4>2
      <4> QED
        BY <1>3, <4>1, <4>2, <4>3 DEF With
    <3>2. IsList(es) /\ Len(es) = z /\ es[z] = y
      <4>1. IsList(ds) /\ z \in 1..Len(ds) /\ Len(ds) = z /\ es = With(ds, z, y)
        BY <1>3
      <4> QED
        BY ONLY <4>1, WithList
    <3>3. DOMAIN d = {"k", "had", "carried", "then", "value"}
      BY <1>3, <1>4 DEF CarriedOK
    <3>4. /\ DOMAIN y = {"k", "had", "carried", "then", "value"}
          /\ y.k = "defers" /\ y.then = d.then /\ y.value = d.value /\ y.carried = e
      BY <1>3, <3>3
    <3>5. CarriedOK(p, y)
      BY <1>3, <1>4, <3>4 DEF CarriedOK
    <3>6. Values(p, q, e, es)
      BY <1>2, <1>3, <3>5, ValuesNote
    <3>7. Awaited(L, fs, es, m)
      <4>1. Stacked(ds, Len(fs), "defers") /\ es = With(ds, Len(ds), y)
        BY <1>2
      <4> QED
        BY ONLY <1>2, <3>4, <4>1, AwaitedNote
    <3> QED
      BY <3>1, <3>2, <3>4, <3>6, <3>7
  <2> QED
    BY <1>1, <2>1, <2>2
<1>6. /\ prog' = p /\ loaded' = L /\ frames' = fs /\ mem' = q /\ handlers' = hs
      /\ pendingException' = e
  BY <1>1 DEF program
<1>7. CodeOK(p, L) /\ Held(L, fs, m) /\ Owned(L, fs, hs, m)
  BY DEF DepthInv
<1>8. /\ CodeOK(prog, loaded)' /\ Held(loaded, frames, Len(mem))'
      /\ Owned(loaded, frames, handlers, Len(mem))'
      /\ Awaited(loaded, frames, cstack, Len(mem))'
      /\ Values(prog, mem, pendingException, cstack)'
  BY <1>5, <1>6, <1>7
<1>9. TopHeld'
  <2>1. cstack'[Len(cstack')].then = "op" => GoesOn(loaded', frames'[Len(frames')], top')
    BY <1>1, <1>2, <1>3, <1>5, <1>6
  <2>2. top' \in 0..Len(mem') /\ top' >= 1 /\ ctl'.do = "defers"
    BY <1>1, <1>2, <1>6
  <2> QED
    BY <2>1, <2>2 DEF TopHeld, Frame
<1> QED
  BY <1>8, <1>9 DEF DepthInv

LEMMA CallDeferredHeld == DefersInv /\ DepthInv /\ KnownDefers /\ CallDeferred => DepthInv'
<1> SUFFICES ASSUME DefersInv, DepthInv, KnownDefers, CallDeferred PROVE DepthInv'
  OBVIOUS
<1> PICK cs, n, L, f, fs, m, p, q, e, h, hs, a, b, es, fn, g, gs :
      /\ cs = cstack /\ n = Len(frames) /\ L = loaded /\ f = Frame /\ fs = frames
      /\ m = Len(mem) /\ p = prog /\ q = mem /\ e = pendingException /\ h = top
      /\ hs = handlers /\ a = [k |-> "deferred", base |-> h] /\ b = [k |-> "run", base |-> n]
      /\ es = Append(Append(cs, a), b) /\ fn = defers[Len(defers)].fn
      /\ g = [NewFrame(fn, f.slots, h) EXCEPT !.deferBase = Len(defers) - 1]
      /\ gs = Append(fs, g)
  OBVIOUS
<1>1. /\ ctl.do = "defers" /\ HasDefers(Frame) /\ ctl'.do = "run"
      /\ frames' = gs /\ cstack' = cs \o <<a, b>>
      /\ UNCHANGED <<program, mem, top, handlers, pendingException>>
  BY DEF CallDeferred
<1>2. /\ fs # <<>> /\ IsList(fs) /\ n \in Nat /\ n = Len(fs) /\ FrameHeld(L, f, m)
      /\ m \in Nat /\ h \in 1..m /\ CodeOK(p, L) /\ Stacked(cs, n, "defers") /\ f = fs[n]
  BY <1>1, Here DEF Frame
<1>3. fn \in DOMAIN L /\ fn.kind = "thunk"
  <2>1. Len(defers) \in Nat /\ f.deferBase \in 0..Len(defers)
    BY <1>1, InFrame
  <2>2. Len(defers) > f.deferBase
    BY <1>1 DEF HasDefers
  <2>3. Len(defers) \in 1..Len(defers)
    BY <2>1, <2>2
  <2> QED
    BY <2>3 DEF KnownDefers
<1>4. /\ g.fn = fn /\ g.pc = 1 /\ g.slots = f.slots /\ g.base = h /\ g.handlerBase = Len(hs)
  BY DEF NewFrame
<1>5. FrameHeld(L, g, m) /\ GoesOn(L, g, h)
  <2>1. Floor(L, g) = h
    BY <1>3, <1>4 DEF Floor
  <2>2. f.slots \in 0..m - 1
    BY <1>2 DEF FrameHeld
  <2>3. FrameHeld(L, g, m)
    <3>1. h \in 0..m /\ h \in 1..m
      BY <1>2
    <3>2. /\ g.fn \in DOMAIN L /\ g.slots \in 0..m - 1
          /\ g.base \in 0..m /\ Floor(L, g) \in 1..m
      BY <1>3, <1>4, <2>1, <2>2, <3>1
    <3> QED
      BY ONLY <3>2 DEF FrameHeld
  <2>4. DepthIs(L[fn], 1, 0)
    BY <1>2, <1>3 DEF CodeOK, Agrees, FunctionOK
  <2>5. h = h + 0
    BY <1>2
  <2>6. GoesOn(L, g, h)
    BY <1>4, <2>1, <2>4, <2>5 DEF GoesOn, GoesOnAt, DepthIs
  <2> QED
    BY <2>3, <2>6
<1>6. Held(L, fs, m) /\ Owned(L, fs, hs, m) /\ Awaited(L, fs, cs, m) /\ Values(p, q, e, cs)
  BY DEF DepthInv
<1>7. Held(L, gs, m) /\ Owned(L, gs, hs, m)
  <2>1. g.base >= 1
    BY <1>2, <1>4
  <2> QED
    BY <1>2, <1>4, <1>5, <1>6, <2>1, HeldMore, OwnedMore
<1>8. Awaited(L, gs, es, m)
  <2>1. cs[Len(cs)].then = "op" => GoesOn(L, fs[n], h)
    BY <1>1, <1>2 DEF DepthInv, TopHeld
  <2>2. /\ a.k \in {"native", "deferred"} /\ a.base \in 1..m /\ b.k = "run" /\ b.base = Len(fs)
        /\ (a.k = "deferred" => cs[Len(cs)].then = "op") => GoesOn(L, fs[Len(fs)], a.base)
        /\ Stacked(cs, Len(fs), "defers")
    BY <1>2, <2>1
  <2> QED
    BY <1>2, <1>6, <2>2, AwaitedCall
<1>9. IsList(cs) /\ cstack' = es
  <2>1. IsList(cs)
    BY <1>2, TopActivation
  <2> QED
    BY <1>1, <2>1, TwoMore
<1>10. Values(p, q, e, es)
  <2>1. CarriedOK(p, a) /\ CarriedOK(p, b)
    BY DEF CarriedOK
  <2>2. Values(p, q, e, Append(cs, a)) /\ IsList(Append(cs, a))
    BY <1>6, <1>9, <2>1, ValuesMore, AppendList
  <2> QED
    BY <2>1, <2>2, ValuesMore
<1>11. /\ prog' = p /\ loaded' = L /\ frames' = gs /\ mem' = q /\ handlers' = hs
       /\ pendingException' = e /\ cstack' = es /\ top' = h
  BY <1>1, <1>9 DEF program
<1>12. /\ CodeOK(prog, loaded)' /\ Held(loaded, frames, Len(mem))'
       /\ Owned(loaded, frames, handlers, Len(mem))'
       /\ Awaited(loaded, frames, cstack, Len(mem))'
       /\ Values(prog, mem, pendingException, cstack)'
  BY <1>2, <1>7, <1>8, <1>10, <1>11
<1>13. TopHeld'
  <2>1. gs[Len(gs)] = g
    <3>1. Len(gs) = Len(fs) + 1 /\ gs[Len(fs) + 1] = g
      BY <1>2, AppendList
    <3> QED
      BY <3>1
  <2>2. GoesOn(loaded', frames'[Len(frames')], top')
    BY <1>5, <1>11, <2>1
  <2>3. top' \in 0..Len(mem') /\ top' >= 1
    BY <1>2, <1>11
  <2> QED
    BY <1>1, <2>2, <2>3 DEF TopHeld, Frame
<1> QED
  BY <1>12, <1>13 DEF DepthInv

LEMMA DefersDoneHeld == DefersInv /\ DepthInv /\ DefersDone => DepthInv'
<1> SUFFICES ASSUME DefersInv, DepthInv, DefersDone PROVE DepthInv'
  OBVIOUS
<1> PICK cs, n, L, fs, m, p, q, e, h, hs, me, ds, c :
      /\ cs = cstack /\ n = Len(frames) /\ L = loaded /\ fs = frames
      /\ m = Len(mem) /\ p = prog /\ q = mem /\ e = pendingException /\ h = top
      /\ hs = handlers /\ me = cs[Len(cs)] /\ ds = Pred(cs) /\ c = me.carried
  OBVIOUS
<1>1. /\ ctl.do = "defers" /\ UNCHANGED program /\ pendingException' = c
      /\ \/ DiscardFrame /\ cstack' = ds /\ ctl' = [do |-> "unwind"]
         \/ /\ cstack' = ds /\ ctl' = [do |-> "unwind"]
            /\ UNCHANGED <<frames, mem, top, lists>>
         \/ /\ me.then = "op" /\ cstack' = ds /\ ctl' = [do |-> "run"]
            /\ UNCHANGED <<frames, mem, top, lists>>
         \/ /\ me.then = "tail" /\ cstack' = ds /\ ctl' = [do |-> "run"]
            /\ ReuseFrame(me.value[2])
         \/ ReturnWith(me.value, ds)
  BY DEF DefersDone
<1>2. /\ fs # <<>> /\ IsList(fs) /\ n \in Nat /\ m \in Nat /\ h \in 1..m /\ CodeOK(p, L)
      /\ Stacked(cs, n, "defers")
  BY <1>1, Here
<1>3. cs # <<>> /\ IsList(cs) /\ Len(cs) \in 1..Len(cs) /\ me.k = "defers"
  <2>1. cs # <<>> /\ IsList(cs) /\ Len(cs) \in Nat /\ Len(cs) > 0 /\ me.k = "defers"
    BY <1>2, TopActivation
  <2> QED
    BY <2>1
<1>4. Held(L, fs, m) /\ Owned(L, fs, hs, m) /\ Awaited(L, fs, cs, m) /\ Values(p, q, e, cs)
  BY DEF DepthInv
<1>5. Stacked(ds, n, "run") /\ Awaited(L, fs, ds, m)
  <2>1. Stacked(ds, n, "run")
    BY <1>2, <1>3, StackedLess
  <2>2. Stacked(cs, Len(fs), "defers") /\ cs[Len(cs)].k # "run"
    BY <1>2, <1>3
  <2>3. Awaited(L, fs, ds, m)
    BY <1>2, <1>3, <1>4, <2>2, AwaitedPop
  <2> QED
    BY <2>1, <2>3
<1>6. CarriedOK(p, me) /\ ValueOK(p, c) /\ ValueOK(p, me.value)
      /\ (me.then = "tail" => me.value[1] = "fn")
  BY <1>3, <1>4 DEF Values, CarriedOK
<1>7. Values(p, q, c, ds)
  <2>1. Values(p, q, e, ds)
    BY <1>3, <1>4, ValuesLess
  <2> QED
    BY <1>6, <2>1 DEF Values
<1>8. /\ frames # <<>> /\ top \in 1..Len(mem) /\ Stacked(ds, Len(frames), "run")
      /\ Awaited(loaded, frames, ds, Len(mem)) /\ Values(prog, mem, pendingException', ds)
      /\ UNCHANGED program
  BY <1>1, <1>2, <1>5, <1>7
<1>9. CASE DiscardFrame /\ cstack' = ds /\ ctl' = [do |-> "unwind"]
  BY <1>8, <1>9, Discarded
<1>10. CASE /\ cstack' = ds /\ UNCHANGED <<frames, mem, top, lists>>
            /\ \/ ctl' = [do |-> "unwind"]
               \/ me.then = "op" /\ ctl' = [do |-> "run"]
  <2>1. /\ prog' = p /\ loaded' = L /\ frames' = fs /\ mem' = q /\ handlers' = hs
        /\ top' = h /\ cstack' = ds /\ pendingException' = c
    BY <1>1, <1>10 DEF program, lists
  <2>2. /\ CodeOK(prog, loaded)' /\ Held(loaded, frames, Len(mem))'
        /\ Owned(loaded, frames, handlers, Len(mem))'
        /\ Awaited(loaded, frames, cstack, Len(mem))'
        /\ Values(prog, mem, pendingException, cstack)'
    BY <1>2, <1>4, <1>5, <1>7, <2>1
  <2>3. me.then = "op" => GoesOn(L, fs[Len(fs)], h)
    BY <1>1 DEF DepthInv, TopHeld, Frame
  <2>4. TopHeld'
    <3>1. top' \in 0..Len(mem') /\ top' >= 1
      BY <1>2, <2>1
    <3>2. ctl'.do = "run" => GoesOn(loaded', frames'[Len(frames')], top')
      BY <1>10, <2>1, <2>3
    <3>3. ctl'.do # "defers"
      BY <1>10
    <3> QED
      BY <3>1, <3>2, <3>3 DEF TopHeld, Frame
  <2> QED
    BY <2>2, <2>4 DEF DepthInv
<1>11. CASE /\ me.then = "tail" /\ cstack' = ds /\ ctl' = [do |-> "run"]
            /\ ReuseFrame(me.value[2])
  <2> PICK fn : fn = me.value[2]
    OBVIOUS
  <2>1. fn \in Callable(prog)
    BY <1>6, <1>11 DEF ValueOK
  <2>2. ReuseFrame(fn) /\ cstack' = ds /\ ctl'.do = "run"
    BY <1>11
  <2> QED
    BY <1>8, <2>1, <2>2, Reused
<1>12. CASE ReturnWith(me.value, ds)
  <2> PICK v : v = me.value
    OBVIOUS
  <2>1. ReturnWith(v, ds) /\ ValueOK(prog, v)
    BY <1>6, <1>12
  <2> QED
    BY <1>8, <2>1, Returned
<1> QED
  BY <1>1, <1>9, <1>10, <1>11, <1>12

LEMMA EscapeHeld == DefersInv /\ DepthInv /\ Escape => DepthInv'
<1> SUFFICES ASSUME DefersInv, DepthInv, Escape PROVE DepthInv'
  OBVIOUS
<1> PICK cs, n, L, fs, m, p, q, e, h, hs :
      /\ cs = cstack /\ n = Len(frames) /\ L = loaded /\ fs = frames
      /\ m = Len(mem) /\ p = prog /\ q = mem /\ e = pendingException /\ h = top /\ hs = handlers
  OBVIOUS
<1>1. /\ ctl.do = "unwind" /\ n <= cs[Len(cs)].base /\ cstack' = Pred(cs)
      /\ ctl'.do = "returned"
      /\ UNCHANGED <<program, frames, mem, top, handlers, pendingException>>
  BY DEF Escape, RunBase, core, lists
<1>2. IsList(fs) /\ n \in Nat /\ n = Len(fs) /\ Stacked(cs, n, "unwind")
  BY <1>1, ListFacts DEF DefersInv, FramesOK, CStackOK, Stretched
<1>3. cs # <<>> /\ IsList(cs) /\ cs[Len(cs)].base = n
  <2>1. cs # <<>> /\ IsList(cs) /\ cs[Len(cs)].base \in 0..n
    BY <1>2, TopActivation
  <2> QED
    BY <1>1, <1>2, <2>1
<1>4. CodeOK(p, L) /\ Held(L, fs, m) /\ Owned(L, fs, hs, m) /\ Awaited(L, fs, cs, m) /\ Values(p, q, e, cs)
  BY DEF DepthInv
<1>5. Awaited(L, fs, Pred(cs), m)
  <2>1. Stacked(cs, Len(fs), "unwind") /\ cs[Len(cs)].base = Len(fs)
    BY <1>2, <1>3
  <2> QED
    BY <1>2, <1>4, <2>1, AwaitedLeave
<1>6. Values(p, q, e, Pred(cs))
  BY <1>3, <1>4, ValuesLess
<1>7. /\ prog' = p /\ loaded' = L /\ frames' = fs /\ mem' = q /\ handlers' = hs
      /\ top' = h /\ pendingException' = e
  BY <1>1 DEF program
<1>8. /\ CodeOK(prog, loaded)' /\ Held(loaded, frames, Len(mem))'
      /\ Owned(loaded, frames, handlers, Len(mem))'
      /\ Awaited(loaded, frames, cstack, Len(mem))'
      /\ Values(prog, mem, pendingException, cstack)'
  BY <1>1, <1>4, <1>5, <1>6, <1>7
<1>9. TopHeld'
  BY <1>1, <1>7 DEF DepthInv, TopHeld
<1> QED
  BY <1>8, <1>9 DEF DepthInv

LEMMA ExitHeld == DefersInv /\ DepthInv /\ Exit => DepthInv'
<1> SUFFICES ASSUME DefersInv, DepthInv, Exit PROVE DepthInv'
  OBVIOUS
<1>1. /\ cstack = <<>> /\ cstack' = <<>> /\ ctl'.do = "done" /\ top' = 0
      /\ frames' = <<>> /\ handlers' = <<>> /\ UNCHANGED <<program, mem>>
      /\ pendingException' \in {pendingException, Null}
  BY DEF Exit
<1>2. IsList(<<>>) /\ Len(<<>>) = 0
  <2>1. <<>> \in Seq({})
    OBVIOUS
  <2> QED
    BY <2>1, ListOf
<1>3. ValueOK(prog, Null)
  BY DEF ValueOK, Null
<1>4. Values(prog, mem, pendingException, cstack)'
  BY <1>1, <1>2, <1>3 DEF DepthInv, Values, program
<1>5. Held(loaded, frames, Len(mem))' /\ Owned(loaded, frames, handlers, Len(mem))'
  BY <1>1, <1>2 DEF Held, Owned
<1>6. Awaited(loaded, frames, cstack, Len(mem))'
  BY <1>1, <1>2 DEF Awaited
<1>7. CodeOK(prog, loaded)'
  BY <1>1 DEF DepthInv, program
<1>8. TopHeld'
  <2>1. Len(mem) \in Nat
    BY ListFacts DEF DepthInv, Values
  <2> QED
    BY <1>1, <2>1 DEF TopHeld
<1> QED
  BY <1>4, <1>5, <1>6, <1>7, <1>8 DEF DepthInv

-----------------------------------------------------------------------------
(* Every step.                                                               *)

\* The blocks that wait are known: those registered are, and steps that end a
\* frame leave none of its own behind.
LEMMA KnownKept == DefersInv /\ DepthInv /\ KnownDefers /\ [Next]_vars => KnownDefers'
<1> SUFFICES ASSUME DefersInv, DepthInv, KnownDefers, [Next]_vars PROVE KnownDefers'
  OBVIOUS
<1> PICK xs, L : xs = defers /\ L = loaded
  OBVIOUS
<1>0. IsList(xs)
  BY DEF DefersInv, IdsOK
<1>1. CASE UNCHANGED <<loaded, defers>>
  BY <1>1 DEF KnownDefers
<1>2. CASE UNCHANGED loaded /\ defers' = <<>>
  <2>1. Len(<<>>) = 0 /\ 1..0 = {}
    OBVIOUS
  <2> QED
    BY <1>2, <2>1 DEF KnownDefers
<1>3. ASSUME frames # <<>>, ~HasDefers(Frame), UNCHANGED loaded,
             defers' \in {defers, Trimmed(defers, Frame.deferBase), Upto(defers, Frame.deferBase)}
      PROVE  KnownDefers'
  <2>1. defers' = defers
    BY <1>3, NoneOfIts
  <2> QED
    BY <1>1, <1>3, <2>1
<1>4. CASE PushDefer
  <2> PICK ins, c : ins = Ins /\ c = [fn |-> ins[2], id |-> registered + 1]
    OBVIOUS
  <2>1. ctl.do = "run" /\ ins[1] = "PUSH_DEFER" /\ UNCHANGED loaded /\ defers' = Append(xs, c)
    BY <1>4 DEF PushDefer, Running, program
  <2>2. ins[2] \in DOMAIN L /\ ins[2].kind = "thunk"
    <3>1. InstructionOK(prog, loaded, Proto, Frame.pc) /\ Ins = loaded[Frame.fn].code[Frame.pc]
      BY <2>1, Instruction
    <3> QED
      BY <2>1, <3>1 DEF InstructionOK, Proto
  <2> PICK ys, k : ys = Append(xs, c) /\ k = Len(xs)
    OBVIOUS
  <2>3. Len(ys) = k + 1 /\ ys[k + 1] = c /\ (\A i \in 1..k : ys[i] = xs[i]) /\ k \in Nat
    BY <1>0, AppendList, ListFacts
  <2>4. \A i \in 1..k : xs[i].fn \in DOMAIN L /\ xs[i].fn.kind = "thunk"
    BY DEF KnownDefers
  <2>5. \A i \in 1..k + 1 : i \in 1..k \/ i = k + 1
    BY <2>3
  <2>6. \A i \in 1..k + 1 : ys[i].fn \in DOMAIN L /\ ys[i].fn.kind = "thunk"
    BY <2>2, <2>3, <2>4, <2>5
  <2>7. defers' = ys /\ loaded' = L
    BY <2>1
  <2> QED
    BY <2>3, <2>6, <2>7 DEF KnownDefers
<1>5. CASE CallDeferred
  <2>1. ctl.do = "defers" /\ HasDefers(Frame) /\ UNCHANGED loaded /\ defers' = Pred(xs)
    BY <1>5 DEF CallDeferred, program
  <2> PICK k : k = Len(xs)
    OBVIOUS
  <2>2. xs # <<>> /\ k \in Nat
    <3>1. Frame.deferBase \in 0..Len(defers) /\ Len(defers) > Frame.deferBase
      BY <2>1, InFrame DEF HasDefers
    <3>2. k > 0 /\ k \in Nat
      BY <1>0, <3>1, ListFacts
    <3> QED
      BY <1>0, <3>2, ListFacts
  <2>3. Len(Pred(xs)) = k - 1 /\ \A i \in 1..k - 1 : Pred(xs)[i] = xs[i]
    BY <1>0, <2>2, PredList
  <2>4. \A i \in 1..k - 1 : i \in 1..k
    BY <2>2
  <2>5. \A i \in 1..k - 1 : Pred(xs)[i].fn \in DOMAIN L /\ Pred(xs)[i].fn.kind = "thunk"
    BY <2>3, <2>4 DEF KnownDefers
  <2>6. defers' = Pred(xs) /\ loaded' = L
    BY <2>1
  <2> QED
    BY <2>3, <2>5, <2>6 DEF KnownDefers
<1>6. CASE TailCall
  <2>1. frames # <<>> /\ UNCHANGED loaded
    BY <1>6, Here DEF TailCall, Running, program
  <2>2. UNCHANGED defers \/ (~HasDefers(Frame) /\ defers' = Trimmed(defers, Frame.deferBase))
    BY <1>6 DEF TailCall, ReuseFrame, lists
  <2> QED
    BY <1>1, <1>3, <2>1, <2>2
<1>7. CASE Return
  <2>1. frames # <<>> /\ UNCHANGED loaded
    BY <1>7, Here DEF Return, program
  <2>2. UNCHANGED defers \/ (~HasDefers(Frame) /\ defers' = Trimmed(defers, Frame.deferBase))
    BY <1>7 DEF Return, ReturnWith, LeaveFrame, lists
  <2> QED
    BY <1>1, <1>3, <2>1, <2>2
<1>8. CASE DefersDone
  <2>1. frames # <<>> /\ UNCHANGED loaded /\ ~HasDefers(Frame)
    BY <1>8, Here DEF DefersDone, program
  <2>2. defers' \in {defers, Trimmed(defers, Frame.deferBase), Upto(defers, Frame.deferBase)}
    BY <1>8 DEF DefersDone, ReturnWith, LeaveFrame, ReuseFrame, DiscardFrame, lists
  <2> QED
    BY <1>3, <2>1, <2>2
<1>9. CASE UnwindFrame
  <2>1. Unwinding
    BY <1>9 DEF UnwindFrame
  <2>2. frames # <<>> /\ UNCHANGED loaded
    BY <1>9, <2>1, Here DEF UnwindFrame, program, core
  <2>3. UNCHANGED defers \/ (~HasDefers(Frame) /\ defers' = Upto(defers, Frame.deferBase))
    BY <1>9 DEF UnwindFrame, DiscardFrame, lists
  <2> QED
    BY <1>1, <1>3, <2>2, <2>3
<1>10. CASE Exit
  BY <1>2, <1>10 DEF Exit, program
<1>11. CASE \/ Const \/ GetGlobal \/ Pop \/ Mark \/ Show
            \/ Jump \/ JumpIfTrue \/ GetIter \/ ForIter \/ Call
  BY <1>1, <1>11 DEF Const, GetGlobal, Pop, Mark, Show, Jump, JumpIfTrue, GetIter, ForIter, Call,
                     lists, program
<1>12. CASE \/ NativeReturns \/ ThrowOp \/ Reraise \/ PushHandler \/ PopHandler \/ EndFinally
            \/ RunDefers \/ MatchExc \/ GetExc
            \/ DeferredReturns \/ EnterDynamic \/ EnterStatic \/ Escape
  BY <1>1, <1>12 DEF NativeReturns, ThrowOp, Reraise, PushHandler, PopHandler, EndFinally,
                     RunDefers, MatchExc, GetExc, DeferredReturns, EnterDynamic, EnterStatic,
                     Escape, lists, program, core
<1>13. CASE UNCHANGED vars
  BY <1>1, <1>13 DEF vars, core, program, lists
<1> QED
  BY <1>4, <1>5, <1>6, <1>7, <1>8, <1>9, <1>10, <1>11, <1>12, <1>13 DEF Next

-----------------------------------------------------------------------------
(* As many handlers are open as counted (CoverInv).                          *)

LEMMA CutList ==
  ASSUME NEW s, IsList(s), NEW b \in 0..Len(s)
  PROVE  Len(SubSeq(s, 1, b)) = b /\ \A i \in 1..b : SubSeq(s, 1, b)[i] = s[i] /\ i \in 1..Len(s)
<1> PICK S : S = {s[i] : i \in DOMAIN s}
  OBVIOUS
<1>1. s \in Seq(S) /\ Len(s) \in Nat
  BY ListFacts DEF IsList
<1> QED
  BY <1>1

\* The top frame moves on.
LEMMA CoverTop ==
  ASSUME NEW L, NEW o, NEW fs, IsList(fs), fs # <<>>, NEW hs,
         \A i \in 1..Len(hs) : hs[i].frame \in 1..Len(fs), CoveredBelow(L, o, fs, hs),
         NEW g, g.fn = fs[Len(fs)].fn, g.handlerBase = fs[Len(fs)].handlerBase
  PROVE  CoveredBelow(L, o, With(fs, Len(fs), g), hs)
<1> PICK n, gs : n = Len(fs) /\ gs = With(fs, n, g)
  OBVIOUS
<1>1. n \in Nat /\ n \in 1..n
  BY ListFacts
<1>2. Len(gs) = n /\ gs[n] = g /\ \A i \in 1..n : i # n => gs[i] = fs[i]
  BY <1>1, WithList
<1>3. \A i \in 1..n : gs[i].fn = fs[i].fn /\ gs[i].handlerBase = fs[i].handlerBase
  BY <1>2
<1>4. ASSUME NEW i \in 1..Len(hs)
      PROVE  /\ hs[i].type \in {JAI_HANDLER_CATCH_ALL, "finally"}
             /\ Has(gs[hs[i].frame], i - 1, o[gs[hs[i].frame].fn][hs[i].at])
  <2>1. hs[i].frame \in 1..n
    OBVIOUS
  <2>2. gs[hs[i].frame].fn = fs[hs[i].frame].fn /\ gs[hs[i].frame].handlerBase = fs[hs[i].frame].handlerBase
    BY <1>3, <2>1
  <2> QED
    BY <2>2 DEF CoveredBelow, Has
<1>5. ASSUME NEW i \in 1..n - 1
      PROVE  HasLeft(L, o, gs[i], gs[i + 1].handlerBase)
  <2>1. i \in 1..n /\ i # n /\ i + 1 \in 1..n
    BY <1>1
  <2>2. gs[i] = fs[i] /\ gs[i + 1].handlerBase = fs[i + 1].handlerBase
    BY <1>2, <1>3, <2>1
  <2> QED
    BY <2>2 DEF CoveredBelow
<1> QED
  BY <1>2, <1>4, <1>5 DEF CoveredBelow

LEMMA CoverCut ==
  ASSUME NEW L, NEW o, NEW fs, NEW hs, IsList(hs), CoveredBelow(L, o, fs, hs), NEW b \in 0..Len(hs)
  PROVE  CoveredBelow(L, o, fs, SubSeq(hs, 1, b))
<1> PICK zs : zs = SubSeq(hs, 1, b)
  OBVIOUS
<1>1. Len(zs) = b /\ \A i \in 1..b : zs[i] = hs[i] /\ i \in 1..Len(hs)
  BY CutList
<1> QED
  BY <1>1 DEF CoveredBelow

LEMMA CoverPush ==
  ASSUME NEW L, NEW o, NEW fs, NEW hs, IsList(hs), CoveredBelow(L, o, fs, hs), NEW x,
         x.type \in {JAI_HANDLER_CATCH_ALL, "finally"},
         NEW f, f = fs[x.frame], Has(f, Len(hs), o[f.fn][x.at])
  PROVE  CoveredBelow(L, o, fs, Append(hs, x))
<1> PICK zs, k : zs = Append(hs, x) /\ k = Len(hs)
  OBVIOUS
<1>1. k \in Nat /\ Len(zs) = k + 1 /\ zs[k + 1] = x /\ \A i \in 1..k : zs[i] = hs[i]
  BY ListFacts, AppendList
<1>2. \A i \in 1..k + 1 : i \in 1..k \/ i = k + 1
  BY <1>1
<1>3. (k + 1) - 1 = k
  BY <1>1
<1>4. \A i \in 1..k : /\ zs[i].type \in {JAI_HANDLER_CATCH_ALL, "finally"}
                      /\ Has(fs[zs[i].frame], i - 1, o[fs[zs[i].frame].fn][zs[i].at])
  BY <1>1 DEF CoveredBelow
<1>5. /\ zs[k + 1].type \in {JAI_HANDLER_CATCH_ALL, "finally"}
      /\ Has(fs[zs[k + 1].frame], (k + 1) - 1, o[fs[zs[k + 1].frame].fn][zs[k + 1].at])
  BY <1>1, <1>3
<1>6. \A i \in 1..k + 1 : /\ zs[i].type \in {JAI_HANDLER_CATCH_ALL, "finally"}
                          /\ Has(fs[zs[i].frame], i - 1, o[fs[zs[i].frame].fn][zs[i].at])
  BY ONLY <1>2, <1>4, <1>5
<1> QED
  BY <1>1, <1>6 DEF CoveredBelow

LEMMA CoverMore ==
  ASSUME NEW L, NEW o, NEW fs, IsList(fs), fs # <<>>, NEW hs,
         \A i \in 1..Len(hs) : hs[i].frame \in 1..Len(fs),
         CoveredBelow(L, o, fs, hs), HasLeft(L, o, fs[Len(fs)], Len(hs)),
         NEW g, g.handlerBase = Len(hs)
  PROVE  CoveredBelow(L, o, Append(fs, g), hs)
<1> PICK n, gs : n = Len(fs) /\ gs = Append(fs, g)
  OBVIOUS
<1>1. n \in Nat /\ n \in 1..n
  BY ListFacts
<1>2. Len(gs) = n + 1 /\ gs[n + 1] = g /\ \A i \in 1..n : gs[i] = fs[i]
  BY AppendList
<1>3. \A i \in 1..Len(hs) : gs[hs[i].frame] = fs[hs[i].frame]
  BY <1>2
<1>4. ASSUME NEW i \in 1..(n + 1) - 1
      PROVE  HasLeft(L, o, gs[i], gs[i + 1].handlerBase)
  <2>1. CASE i = n
    BY <1>1, <1>2, <2>1
  <2>2. CASE i # n
    <3>1. i \in 1..n - 1 /\ i \in 1..n /\ i + 1 \in 1..n
      BY <1>1, <2>2
    <3> QED
      BY <1>2, <3>1 DEF CoveredBelow
  <2> QED
    BY <2>1, <2>2
<1> QED
  BY <1>2, <1>3, <1>4 DEF CoveredBelow

\* The frame on top goes or becomes another's.
TopGone(fs, gs, hs, zs, n, b) ==
  /\ n = Len(fs) /\ b = fs[n].handlerBase /\ zs = SubSeq(hs, 1, b)
  /\ \A k \in 1..n - 1 : gs[k] = fs[k]
  /\ Len(gs) = n - 1 \/ (Len(gs) = n /\ gs[n].handlerBase = b)

\* Its handlers go with it.
LEMMA CoverLess ==
  ASSUME NEW L, NEW o, NEW fs, IsList(fs), fs # <<>>, NEW hs, NEW m, Owned(L, fs, hs, m),
         CoveredBelow(L, o, fs, hs), NEW gs, NEW n, NEW b, NEW zs,
         TopGone(fs, gs, hs, zs, n, b)
  PROVE  /\ CoveredBelow(L, o, gs, zs) /\ Len(zs) = b
         /\ n > 1 => HasLeft(L, o, fs[n - 1], b)
<1>0. /\ n = Len(fs) /\ b = fs[n].handlerBase /\ zs = SubSeq(hs, 1, b)
      /\ \A k \in 1..n - 1 : gs[k] = fs[k]
      /\ Len(gs) = n - 1 \/ (Len(gs) = n /\ gs[n].handlerBase = b)
  BY DEF TopGone
<1>1. IsList(hs) /\ Len(hs) \in Nat /\ n \in Nat /\ n \in 1..n
  BY <1>0, ListFacts DEF Owned
<1>2. b \in 0..Len(hs)
  BY <1>0, <1>1 DEF Owned
<1>3. Len(zs) = b /\ \A i \in 1..b : zs[i] = hs[i] /\ i \in 1..Len(hs)
  BY <1>0, <1>1, <1>2, CutList
<1>4. ASSUME NEW i \in 1..b PROVE hs[i].frame \in 1..n - 1
  <2> PICK k : k = hs[i].frame
    OBVIOUS
  <2>1. k \in 1..n /\ fs[k].handlerBase < i
    BY <1>0, <1>3 DEF Owned
  <2>2. k # n
    <3>1. i <= b
      BY <1>2
    <3> QED
      BY <1>0, <1>1, <1>2, <2>1, <3>1
  <2> QED
    BY <1>1, <2>1, <2>2
<1>5. ASSUME NEW i \in 1..b
      PROVE  /\ zs[i].type \in {JAI_HANDLER_CATCH_ALL, "finally"}
             /\ Has(gs[zs[i].frame], i - 1, o[gs[zs[i].frame].fn][zs[i].at])
  <2>1. gs[hs[i].frame] = fs[hs[i].frame] /\ zs[i] = hs[i] /\ i \in 1..Len(hs)
    BY <1>0, <1>3, <1>4
  <2> QED
    BY <2>1 DEF CoveredBelow
<1>6. ASSUME NEW i \in 1..Len(gs) - 1
      PROVE  HasLeft(L, o, gs[i], gs[i + 1].handlerBase)
  <2>1. i \in 1..n - 1
    BY <1>0, <1>1
  <2>2. HasLeft(L, o, fs[i], fs[i + 1].handlerBase) /\ gs[i] = fs[i]
    BY <1>0, <2>1 DEF CoveredBelow
  <2>3. CASE i + 1 \in 1..n - 1
    BY <1>0, <2>2, <2>3
  <2>4. CASE i + 1 \notin 1..n - 1
    <3>1. i + 1 = n /\ Len(gs) = n
      BY <1>0, <1>1, <2>1, <2>4
    <3> QED
      BY <1>0, <2>2, <3>1
  <2> QED
    BY <2>3, <2>4
<1>7. n > 1 => HasLeft(L, o, fs[n - 1], b)
  <2> SUFFICES ASSUME n > 1 PROVE HasLeft(L, o, fs[n - 1], b)
    OBVIOUS
  <2>1. n - 1 \in 1..n - 1 /\ (n - 1) + 1 = n
    BY <1>1
  <2> QED
    BY <1>0, <2>1 DEF CoveredBelow
<1> QED
  BY <1>3, <1>5, <1>6, <1>7 DEF CoveredBelow

\* Where the exception table is searched the frame has no handler open, so the
\* entry found is not one that a handler shadows.
LEMMA Emptied ==
  ASSUME DefersInv, DepthInv, NEW o, Guards(loaded, o), CoverInv(o)
  PROVE  /\ EntersEmpty
         /\ Unwinding /\ DynamicHandlers = {} /\ StaticHandlers # {} =>
              o[Frame.fn][Proto.exceptions[Narrowest(StaticHandlers)].handler + 1] = 0
<1> SUFFICES ASSUME Unwinding, DynamicHandlers = {}, StaticHandlers # {}
             PROVE  /\ Frame.fn.kind # "thunk"
                    /\ DepthIs(Proto, Proto.exceptions[Narrowest(StaticHandlers)].handler + 1, 0)
                    /\ o[Frame.fn][Proto.exceptions[Narrowest(StaticHandlers)].handler + 1] = 0
  BY DEF EntersEmpty
<1> PICK L, f, fs, n, hs, m, p, b, k, c, q, S, i :
      /\ L = loaded /\ f = Frame /\ fs = frames /\ n = Len(fs) /\ hs = handlers /\ m = Len(mem)
      /\ p = prog /\ b = f.handlerBase /\ k = Len(hs) /\ c = L[f.fn] /\ q = o[f.fn]
      /\ S = StaticHandlers /\ i = Narrowest(S)
  OBVIOUS
<1>1. /\ IsList(fs) /\ fs # <<>> /\ f = fs[n] /\ n \in Nat /\ n \in 1..n
      /\ FrameHeld(L, f, m) /\ CodeOK(p, L)
  BY Here DEF Frame
<1>2. /\ Owned(L, fs, hs, m) /\ k \in Nat /\ b \in 0..k
  BY <1>1, ListFacts DEF DepthInv, Owned
<1>3. CoveredBelow(L, o, fs, hs) /\ HasLeft(L, o, f, k)
  BY <1>1 DEF CoverInv, Unwinding
<1>4. k = b
  <2> SUFFICES ASSUME k > b PROVE FALSE
    BY <1>2
  <2>1. k \in 1..k /\ k \in b + 1..k
    BY <1>2
  <2> PICK t : t = hs[k].frame
    OBVIOUS
  <2>2. t \in 1..n /\ (t < n => k <= fs[t + 1].handlerBase)
    BY <1>2, <2>1 DEF Owned
  <2>3. t = n
    <3> SUFFICES ASSUME t # n PROVE FALSE
      OBVIOUS
    <3>1. t + 1 \in 1..n /\ t < n
      BY <1>1, <2>2
    <3>2. fs[t + 1].handlerBase <= b /\ fs[t + 1].handlerBase \in 0..k
      <4>1. \A j \in 1..n : fs[j].handlerBase <= fs[n].handlerBase /\ fs[j].handlerBase \in 0..k
        <5>1. Owned(L, fs, hs, m) /\ n \in 1..n /\ n = Len(fs) /\ k = Len(hs)
          BY <1>1, <1>2
        <5> QED
          BY ONLY <5>1 DEF Owned
      <4>2. b = fs[n].handlerBase
        BY <1>1
      <4> PICK u : u = t + 1
        OBVIOUS
      <4>3. u \in 1..n
        BY <3>1
      <4>4. fs[u].handlerBase <= b /\ fs[u].handlerBase \in 0..k
        BY ONLY <4>1, <4>2, <4>3
      <4> QED
        BY <4>4
    <3> PICK y : y = fs[t + 1].handlerBase
      OBVIOUS
    <3>3. k \in Nat /\ y \in 0..k /\ y <= b /\ k <= y /\ b \in 0..k /\ k > b
      BY <1>2, <2>2, <3>1, <3>2
    <3> QED
      BY ONLY <3>3
  <2>4. handlerMatches(hs[k].type)
    BY <1>3, <2>1 DEF CoveredBelow, handlerMatches
  <2>5. k \in DynamicHandlers
    BY <2>1, <2>3, <2>4 DEF DynamicHandlers
  <2> QED
    BY <2>5
<1>5. GuardedBy(f.fn, c, q) /\ FunctionOK(p, L, f.fn)
  BY <1>1 DEF Guards, FrameHeld, CodeOK, Agrees
<1>6. \A j \in 1..Len(c.exceptions) :
        /\ c.exceptions[j].start \in Nat /\ c.exceptions[j].end \in Nat
        /\ c.exceptions[j].start < c.exceptions[j].end
  BY <1>5 DEF FunctionOK
<1>7. S \subseteq 1..Len(c.exceptions) /\ Proto = c
  BY DEF StaticHandlers, Proto
<1>8. i \in S
  <2>1. S \in SUBSET Nat
    BY <1>7
  <2>2. \A j \in S : Proto.exceptions[j].end - Proto.exceptions[j].start \in Nat
    <3>1. \A x, y \in Nat : x < y => y - x \in Nat
      OBVIOUS
    <3> QED
      BY <1>6, <1>7, <3>1
  <2> QED
    BY <2>1, <2>2, NarrowestIn
<1> PICK e, at : e = c.exceptions[i] /\ at = f.pc - 1
  OBVIOUS
<1>9. at \in 1..Len(c.code) /\ q[at] <= k - b /\ q[at] \in Nat
  <2>1. q \in [1..Len(c.code) -> Nat]
    BY <1>5 DEF GuardedBy, CountsOpen
  <2>2. at \in 1..Len(c.code) /\ q[at] <= k - b
    <3>1. HasLeft(L, o, f, k) /\ at = f.pc - 1 /\ c = L[f.fn] /\ q = o[f.fn] /\ b = f.handlerBase
      BY <1>3
    <3> QED
      BY ONLY <3>1 DEF HasLeft, Has
  <2> QED
    BY <2>1, <2>2
<1>10. ~(q[at] >= 1)
  <2> PICK z : z = q[at]
    OBVIOUS
  <2>1. z \in Nat /\ z <= k - b /\ k = b /\ b \in 0..k
    BY <1>2, <1>4, <1>9
  <2>2. ~(z >= 1)
    BY ONLY <2>1
  <2> QED
    BY <2>2
<1>11. e.start < at /\ at <= e.end /\ e.start \in Nat /\ e.end \in Nat
  BY <1>6, <1>7, <1>8 DEF StaticHandlers
<1>12. at \in e.start + 1..e.end
  BY <1>9, <1>11
<1>13. ~Shadowed(q, e)
  BY <1>10, <1>12 DEF Shadowed
<1>14. Taken(f.fn, c, q, e)
  BY <1>5, <1>7, <1>8, <1>13 DEF GuardedBy
<1> QED
  BY <1>7, <1>14 DEF Taken

LEMMA OpenFacts ==
  ASSUME NEW op, NEW n \in Nat
  PROVE  /\ OpenAfter(op, n) \in Nat
         /\ op \notin Registers => OpenAfter(op, n) <= n
         /\ op \notin Registers \cup {"POP_HANDLER"} => OpenAfter(op, n) = n
         /\ op \in Registers => OpenAfter(op, n) = n + 1
         /\ op = "POP_HANDLER" => OpenAfter(op, n) = IF n > 0 THEN n - 1 ELSE 0
<1>1. CASE op \in Registers
  <2>1. OpenAfter(op, n) = n + 1 /\ op # "POP_HANDLER"
    BY <1>1 DEF OpenAfter, Registers
  <2> QED
    BY <1>1, <2>1
<1>2. CASE op = "POP_HANDLER"
  <2>1. op \notin Registers
    BY <1>2 DEF Registers
  <2>2. OpenAfter(op, n) = IF n > 0 THEN n - 1 ELSE n
    BY <1>2, <2>1 DEF OpenAfter
  <2> QED
    BY <1>2, <2>1, <2>2
<1>3. CASE op \notin Registers \cup {"POP_HANDLER"}
  <2>1. OpenAfter(op, n) = n
    BY <1>3 DEF OpenAfter
  <2> QED
    BY <1>3, <2>1
<1> QED
  BY <1>1, <1>2, <1>3

\* A frame that waited goes on.
LEMMA Resume ==
  ASSUME NEW L, NEW o, NEW f, GuardedBy(f.fn, L[f.fn], o[f.fn]), NEW n, n - f.handlerBase \in Int,
         HasLeft(L, o, f, n), f.pc \in 1..Len(L[f.fn].code)
  PROVE  HasHere(o, f, n)
<1> PICK c, q, at, op, z : /\ c = L[f.fn] /\ q = o[f.fn] /\ at = f.pc - 1 /\ op = c.code[at][1]
                           /\ z = n - f.handlerBase
  OBVIOUS
<1>1. at \in 1..Len(c.code) /\ op \notin Registers /\ q[at] <= z
  BY DEF HasLeft, Has
<1>2. at + 1 = f.pc /\ at + 1 \in 1..Len(c.code)
  <2> PICK y, w : y = f.pc /\ w = Len(c.code)
    OBVIOUS
  <2>1. y \in 1..w /\ at = y - 1
    BY <1>1
  <2>2. at + 1 = y
    BY ONLY <2>1
  <2> QED
    BY <2>1, <2>2
<1>3. q \in [1..Len(c.code) -> Nat] /\ q[at + 1] <= OpenAfter(op, q[at])
  BY <1>1, <1>2 DEF GuardedBy, CountsOpen
<1> PICK x, y : x = q[at] /\ y = q[at + 1]
  OBVIOUS
<1>4. x \in Nat /\ y \in Nat
  BY <1>1, <1>2, <1>3
<1>5. OpenAfter(op, x) <= x /\ OpenAfter(op, x) \in Nat
  BY <1>1, <1>4, OpenFacts
<1>6. y <= z
  <2>1. y <= OpenAfter(op, x) /\ x <= z
    BY <1>1, <1>3
  <2>2. PICK w : w = OpenAfter(op, x)
    OBVIOUS
  <2>3. y <= w /\ w <= x /\ x <= z /\ x \in Nat /\ y \in Nat /\ w \in Nat /\ z \in Int
    BY <1>4, <1>5, <2>1, <2>2
  <2> QED
    BY ONLY <2>3
<1> QED
  BY <1>2, <1>6 DEF HasHere, Has

\* A frame that is entered.
LEMMA AtStart ==
  ASSUME NEW L, NEW o, Guards(L, o), NEW g, g.fn \in DOMAIN L, g.pc = 1,
         NEW n \in Nat, g.handlerBase = n
  PROVE  HasHere(o, g, n)
<1>1. o[g.fn][1] = 0
  BY DEF Guards, GuardedBy, CountsOpen
<1>2. n - n = 0 /\ 0 <= 0
  OBVIOUS
<1> QED
  BY <1>1, <1>2 DEF HasHere, Has

\* What is known where an instruction runs or a frame is unwound.
CoverHere(o) ==
  /\ DefersInv /\ DepthInv /\ Guards(loaded, o) /\ CoverInv(o)
  /\ ctl.do \in {"run", "defers"} \/ Unwinding

\* As many as counted are open at the instruction that runs, and where it goes.
LEMMA Counted ==
  ASSUME NEW o, CoverHere(o), ctl.do = "run", NEW q, q = o[Frame.fn], NEW op, op = Ins[1],
         NEW at, at = Frame.pc, NEW z, z = Len(handlers) - Frame.handlerBase
  PROVE  /\ at \in 1..Len(loaded[Frame.fn].code) /\ op = loaded[Frame.fn].code[at][1]
         /\ q[at] \in Nat /\ q[at] <= z /\ z \in Nat
         /\ jaiOpFallsThrough(op) =>
              /\ at + 1 \in 1..Len(loaded[Frame.fn].code)
              /\ q[at + 1] \in Nat /\ q[at + 1] <= OpenAfter(op, q[at])
         /\ jaiOpBranchOperandAt(op) =>
              q[at + 1 + Ins[2]] \in Nat /\ q[at + 1 + Ins[2]] <= q[at]
<1> PICK L, f, c, ins, to, k : /\ L = loaded /\ f = Frame /\ c = L[f.fn] /\ ins = Ins
                               /\ to = at + 1 + ins[2] /\ k = Len(handlers)
  OBVIOUS
<1>1. GuardedBy(f.fn, c, q) /\ frames # <<>> /\ f = frames[Len(frames)] /\ Len(frames) \in 1..Len(frames)
  BY Here DEF CoverHere, Guards, FrameHeld, Frame
<1>2. /\ InstructionOK(prog, L, c, at) /\ at \in 1..Len(c.code) /\ ins = c.code[at]
  BY Instruction DEF CoverHere, Proto, GoesOn, GoesOnAt
<1>3. q[at] <= z
  BY <1>1 DEF CoverHere, CoverInv, HasHere, Has
<1>4. z \in Nat
  <2>1. k \in Nat /\ f.handlerBase \in 0..k
    BY <1>1, ListFacts DEF CoverHere, DepthInv, Owned
  <2> QED
    BY <2>1
<1>5. /\ q \in [1..Len(c.code) -> Nat]
      /\ at + 1 \in 1..Len(c.code) => q[at + 1] <= OpenAfter(op, q[at])
      /\ jaiOpBranchOperandAt(op) => q[branchTarget(c.code, at)] <= q[at]
  BY <1>1, <1>2 DEF GuardedBy, CountsOpen
<1>6. jaiOpFallsThrough(op) => at + 1 \in 1..Len(c.code)
  BY <1>2 DEF InstructionOK, DepthIs
<1>7. jaiOpBranchOperandAt(op) => to \in 1..Len(c.code)
  <2>1. opBranchIsEdge(op) \/ op \in Registers \/ ~jaiOpBranchOperandAt(op)
    BY DEF opBranchIsEdge
  <2>2. branchTarget(c.code, at) = to
    BY <1>2 DEF branchTarget
  <2>3. /\ opBranchIsEdge(op) => DepthIs(c, to, jumpDepth(op, c.depth[at]))
        /\ op \in Registers => DepthIs(c, to, c.depth[at])
    BY <1>2, <2>2 DEF InstructionOK
  <2> QED
    BY <2>1, <2>3 DEF DepthIs
<1>8. branchTarget(c.code, at) = to
  BY <1>2 DEF branchTarget
<1> QED
  BY <1>2, <1>3, <1>4, <1>5, <1>6, <1>7, <1>8

\* A frame stops after an instruction.
LEMMA Leave ==
  ASSUME NEW o, CoverHere(o), ctl.do = "run", Ins[1] \notin Registers
  PROVE  HasLeft(loaded, o, At(Frame, Frame.pc + 1), Len(handlers))
<1> PICK g, f, q, op, at, z, b :
      /\ f = Frame /\ g = At(f, f.pc + 1) /\ q = o[f.fn] /\ op = Ins[1] /\ at = f.pc
      /\ b = f.handlerBase /\ z = Len(handlers) - b
  OBVIOUS
<1>1. at \in 1..Len(loaded[f.fn].code) /\ op = loaded[f.fn].code[at][1] /\ q[at] <= z
  BY Counted
<1>2. g.fn = f.fn /\ g.handlerBase = b /\ g.pc = at + 1
  BY Here, AtGoesOn DEF CoverHere
<1>3. g.pc - 1 = at
  BY <1>1, <1>2
<1> QED
  BY <1>1, <1>2, <1>3 DEF HasLeft, Has

\* The top frame goes on, with the handlers it has.
LEMMA CoverAlong ==
  ASSUME NEW o, CoverHere(o), ctl.do = "run", NEW pc, Goto(pc), UNCHANGED <<loaded, handlers>>,
         \/ ctl'.do # "run" /\ pc = Frame.pc + 1 /\ Ins[1] \notin Registers
         \/ ctl'.do = "run" /\ jaiOpBranchOperandAt(Ins[1]) /\ pc = Frame.pc + 1 + Ins[2]
         \/ /\ ctl'.do = "run" /\ pc = Frame.pc + 1
            /\ jaiOpFallsThrough(Ins[1]) /\ Ins[1] \notin Registers \cup {"POP_HANDLER"}
  PROVE  CoverInv(o)'
<1> PICK L, fs, gs, hs, f, g, n, m, k :
      /\ L = loaded /\ fs = frames /\ gs = TopAt(fs, pc) /\ hs = handlers /\ n = Len(fs)
      /\ f = fs[n] /\ g = At(f, pc) /\ m = Len(mem) /\ k = Len(hs)
  OBVIOUS
<1>1. /\ IsList(fs) /\ fs # <<>> /\ DOMAIN f = FrameFields /\ f = Frame
  BY Here DEF CoverHere, Frame
<1>2. frames' = gs /\ gs = With(fs, n, g) /\ Len(gs) = n /\ gs[n] = g
  <2>1. frames' = gs
    BY GotoIs
  <2>2. gs = With(fs, n, g)
    BY DEF TopAt
  <2>3. Len(gs) = n /\ gs[n] = g
    <3>1. /\ IsList(fs) /\ fs # <<>> /\ DOMAIN fs[Len(fs)] = FrameFields
          /\ gs = TopAt(fs, pc) /\ n = Len(fs) /\ g = At(fs[Len(fs)], pc)
      BY <1>1
    <3> QED
      BY ONLY <3>1, TopAtFacts
  <2> QED
    BY <2>1, <2>2, <2>3
<1>3. g.fn = f.fn /\ g.handlerBase = f.handlerBase /\ g.pc = pc
  BY <1>1, AtGoesOn
<1>4. CoveredBelow(L, o, gs, hs)
  <2>1. Owned(L, fs, hs, m) /\ CoveredBelow(L, o, fs, hs)
    BY DEF CoverHere, DepthInv, CoverInv
  <2>2. \A i \in 1..Len(hs) : hs[i].frame \in 1..Len(fs)
    BY <2>1 DEF Owned
  <2>3. CoveredBelow(L, o, With(fs, Len(fs), g), hs)
    BY <1>1, <1>3, <2>1, <2>2, CoverTop
  <2> QED
    BY <1>2, <2>3
<1>5. IF ctl'.do = "run" THEN HasHere(o, g, k) ELSE HasLeft(L, o, g, k)
  <2>1. CASE ctl'.do # "run"
    <3>1. g = At(Frame, Frame.pc + 1)
      BY <1>1, <2>1
    <3> QED
      BY <2>1, <3>1, Leave
  <2>2. CASE ctl'.do = "run"
    <3> PICK q, op, at, z, b : /\ q = o[f.fn] /\ op = Ins[1] /\ at = f.pc /\ b = f.handlerBase
                               /\ z = k - b
      OBVIOUS
    <3>1. /\ q[at] \in Nat /\ q[at] <= z /\ z \in Nat
          /\ jaiOpFallsThrough(op) => q[at + 1] \in Nat /\ q[at + 1] <= OpenAfter(op, q[at])
          /\ jaiOpBranchOperandAt(op) =>
               q[at + 1 + Ins[2]] \in Nat /\ q[at + 1 + Ins[2]] <= q[at]
      BY <1>1, Counted
    <3>2. q[pc] \in Nat /\ q[pc] <= q[at]
      <4>1. CASE jaiOpBranchOperandAt(op) /\ pc = at + 1 + Ins[2]
        BY <3>1, <4>1
      <4>2. CASE jaiOpFallsThrough(op) /\ op \notin Registers \cup {"POP_HANDLER"} /\ pc = at + 1
        BY <3>1, <4>2, OpenFacts
      <4> QED
        BY <1>1, <2>2, <4>1, <4>2
    <3>3. q[pc] <= z
      <4> PICK x, y : x = q[pc] /\ y = q[at]
        OBVIOUS
      <4>1. x \in Nat /\ y \in Nat /\ z \in Nat /\ x <= y /\ y <= z
        BY <3>1, <3>2
      <4>2. x <= z
        BY ONLY <4>1
      <4> QED
        BY <4>2
    <3> QED
      BY <1>3, <2>2, <3>3 DEF HasHere, Has
  <2> QED
    BY <2>1, <2>2
<1>6. loaded' = L /\ handlers' = hs /\ Frame' = g /\ frames' # <<>>
  <2>1. gs # <<>>
    BY <1>1, TopAtFacts
  <2> QED
    BY <1>2, <2>1 DEF Frame
<1> QED
  BY <1>2, <1>4, <1>5, <1>6 DEF CoverInv

LEMMA PlainCover ==
  ASSUME NEW o, CoverHere(o),
         \/ Const \/ GetGlobal \/ MatchExc \/ GetExc \/ Pop \/ Mark \/ Show
         \/ EndFinally \/ PushDefer \/ RunDefers
  PROVE  CoverInv(o)'
<1> PICK ins, pc : ins = Ins /\ pc = Frame.pc + 1
  OBVIOUS
<1>1. /\ ctl.do = "run" /\ Goto(pc) /\ UNCHANGED <<loaded, handlers>>
      /\ ins[1] \in {"CONST", "GET_GLOBAL", "MATCH_EXC", "GET_EXC", "POP", "POPN", "MARK", "SHOW",
                     "END_FINALLY", "PUSH_DEFER", "RUN_DEFERS"}
  BY DEF Const, GetGlobal, MatchExc, GetExc, Pop, Mark, Show, EndFinally, PushDefer, RunDefers,
         Running, Next1, program, lists
<1>2. jaiOpFallsThrough(ins[1]) /\ ins[1] \notin Registers \cup {"POP_HANDLER"}
  BY <1>1 DEF jaiOpFallsThrough, Registers
<1> QED
  BY <1>1, <1>2, CoverAlong

LEMMA JumpCover ==
  ASSUME NEW o, CoverHere(o), Jump \/ JumpIfTrue \/ ForIter
  PROVE  CoverInv(o)'
<1> PICK ins, pc, to : ins = Ins /\ pc = Frame.pc + 1 /\ to = Frame.pc + 1 + Ins[2]
  OBVIOUS
<1>1. /\ ctl.do = "run" /\ UNCHANGED <<loaded, handlers>>
      /\ ins[1] \in {"JUMP", "LOOP", "JUMP_IF_TRUE", "FOR_ITER"}
  BY DEF Jump, JumpIfTrue, ForIter, Running, program, lists
<1>2. jaiOpBranchOperandAt(ins[1]) /\ ins[1] \notin Registers \cup {"POP_HANDLER"}
  BY <1>1 DEF jaiOpBranchOperandAt, Registers
<1>3. CASE Goto(to) /\ ctl'.do = "run"
  BY <1>1, <1>2, <1>3, CoverAlong
<1>4. CASE Goto(pc) /\ ins[1] \in {"JUMP_IF_TRUE", "FOR_ITER"}
  <2>1. jaiOpFallsThrough(ins[1])
    BY <1>4 DEF jaiOpFallsThrough
  <2> QED
    BY <1>1, <1>2, <1>4, <2>1, CoverAlong
<1>5. Jump => Goto(to) /\ ctl'.do = "run"
  BY <1>1 DEF Jump
<1>6. ForIter => ((Goto(to) /\ ctl'.do = "run") \/ Goto(pc)) /\ ins[1] = "FOR_ITER"
  BY <1>1 DEF ForIter, Running, Throw, Next1
<1>7. ASSUME JumpIfTrue PROVE ((Goto(to) /\ ctl'.do = "run") \/ Goto(pc)) /\ ins[1] = "JUMP_IF_TRUE"
  <2>1. \/ Goto(pc + (IF Peek[2] THEN Ins[2] ELSE 0)) /\ ctl'.do = "run"
        \/ Goto(pc)
    BY <1>1, <1>7 DEF JumpIfTrue, Throw, Next1
  <2>2. pc + 0 = pc
    <3> PICK z : z = Frame.pc
      OBVIOUS
    <3>1. z \in 1..Len(loaded[Frame.fn].code)
      BY <1>1, Counted
    <3> QED
      BY <3>1
  <2>3. (Goto(to) /\ ctl'.do = "run") \/ Goto(pc)
    <3>1. CASE Peek[2]
      BY <2>1, <3>1
    <3>2. CASE ~Peek[2]
      BY <2>1, <2>2, <3>2
    <3> QED
      BY <3>1, <3>2
  <2> QED
    BY <1>7, <2>3 DEF JumpIfTrue, Running
<1> QED
  BY <1>3, <1>4, <1>5, <1>6, <1>7

LEMMA ThrowCover ==
  ASSUME NEW o, CoverHere(o), ThrowOp \/ Reraise \/ GetIter
  PROVE  CoverInv(o)'
<1> PICK ins, pc : ins = Ins /\ pc = Frame.pc + 1
  OBVIOUS
<1>1. /\ ctl.do = "run" /\ UNCHANGED <<loaded, handlers>> /\ Goto(pc)
      /\ ins[1] \in {"THROW", "RERAISE", "GET_ITER"}
  BY DEF ThrowOp, Reraise, GetIter, Throw, Next1, Running, program, lists
<1>2. ins[1] \notin Registers \cup {"POP_HANDLER"}
  BY <1>1 DEF Registers
<1>3. CASE ins[1] = "GET_ITER"
  <2>1. jaiOpFallsThrough(ins[1])
    BY <1>3 DEF jaiOpFallsThrough
  <2> QED
    BY <1>1, <1>2, <1>3, <2>1, CoverAlong
<1>4. CASE ins[1] # "GET_ITER"
  <2>1. ctl' = [do |-> "unwind"]
    BY <1>4 DEF ThrowOp, Reraise, GetIter, Throw, Running
  <2> QED
    BY <1>1, <1>2, <2>1, CoverAlong
<1> QED
  BY <1>3, <1>4

LEMMA HandlerCover ==
  ASSUME NEW o, CoverHere(o), PushHandler \/ PopHandler
  PROVE  CoverInv(o)'
<1> PICK L, fs, gs, hs, f, g, n, m, k, pc, ins, q, at, op, z, b :
      /\ L = loaded /\ fs = frames /\ n = Len(fs) /\ f = fs[n] /\ pc = f.pc + 1 /\ at = f.pc
      /\ gs = TopAt(fs, pc) /\ hs = handlers /\ g = At(f, pc) /\ m = Len(mem) /\ k = Len(hs)
      /\ ins = Ins /\ op = ins[1] /\ q = o[f.fn] /\ b = f.handlerBase /\ z = k - b
  OBVIOUS
<1>1. /\ IsList(fs) /\ fs # <<>> /\ DOMAIN f = FrameFields /\ f = Frame
  BY Here DEF CoverHere, Frame
<1>2. /\ ctl.do = "run" /\ ctl'.do = "run" /\ UNCHANGED loaded /\ Goto(pc)
      /\ op \in {"PUSH_HANDLER", "PUSH_FINALLY", "POP_HANDLER"}
  BY <1>1 DEF PushHandler, PopHandler, Next1, Running, program
<1>3. /\ frames' = gs /\ Len(gs) = n /\ gs[n] = g /\ gs # <<>>
  <2>1. frames' = gs
    BY <1>2, GotoIs
  <2>2. Len(gs) = n /\ gs[n] = g /\ gs # <<>>
    <3>1. /\ IsList(fs) /\ fs # <<>> /\ DOMAIN fs[Len(fs)] = FrameFields
          /\ gs = TopAt(fs, pc) /\ n = Len(fs) /\ g = At(fs[Len(fs)], pc)
      BY <1>1
    <3> QED
      BY ONLY <3>1, TopAtFacts
  <2> QED
    BY <2>1, <2>2
<1>4. g.fn = f.fn /\ g.handlerBase = b /\ g.pc = pc
  BY <1>1, AtGoesOn
<1>5. IsList(hs) /\ k \in Nat /\ b \in 0..k
  <2>1. Owned(L, fs, hs, m) /\ n \in 1..n
    BY Here DEF CoverHere, DepthInv
  <2> QED
    BY <2>1, ListFacts DEF Owned
<1>6. CoveredBelow(L, o, gs, hs)
  <2>1. Owned(L, fs, hs, m) /\ CoveredBelow(L, o, fs, hs)
    BY DEF CoverHere, DepthInv, CoverInv
  <2>2. \A i \in 1..Len(hs) : hs[i].frame \in 1..Len(fs)
    BY <2>1 DEF Owned
  <2>3. CoveredBelow(L, o, With(fs, Len(fs), g), hs)
    BY <1>1, <1>4, <2>1, <2>2, CoverTop
  <2> QED
    BY <2>3 DEF TopAt
<1>7. /\ q[at] \in Nat /\ q[at] <= z /\ z \in Nat
      /\ q[pc] \in Nat /\ q[pc] <= OpenAfter(op, q[at])
      /\ jaiOpBranchOperandAt(op) =>
           q[at + 1 + ins[2]] \in Nat /\ q[at + 1 + ins[2]] <= q[at]
  <2>1. jaiOpFallsThrough(op)
    BY <1>2 DEF jaiOpFallsThrough
  <2> QED
    BY <1>1, <1>2, <2>1, Counted
<1> PICK x, y : x = q[pc] /\ y = q[at]
  OBVIOUS
<1>8. x \in Nat /\ y \in Nat /\ z \in Nat /\ y <= z /\ z = k - b /\ k \in Nat /\ b \in 0..k
  BY <1>5, <1>7
<1>9. CoveredBelow(L, o, gs, handlers') /\ HasHere(o, g, Len(handlers'))
  <2>1. CASE PushHandler
    <3> PICK ty, h, to :
           /\ ty = IF op = "PUSH_FINALLY" THEN "finally" ELSE JAI_HANDLER_CATCH_ALL
           /\ to = f.pc + 1 + ins[2]
           /\ h = [at |-> to, type |-> ty, frame |-> n, top |-> top]
      OBVIOUS
    <3>1. handlers' = Append(hs, h) /\ op \in Registers
      BY <1>1, <2>1 DEF PushHandler, Registers
    <3>2. h.type \in {JAI_HANDLER_CATCH_ALL, "finally"} /\ h.at = to /\ h.frame = n
      OBVIOUS
    <3>3. q[to] \in Nat /\ q[to] <= y
      BY <1>7, <3>1 DEF jaiOpBranchOperandAt
    <3> PICK w : w = q[to]
      OBVIOUS
    <3>4. w <= z
      <4>1. w \in Nat /\ w <= y
        BY <3>3
      <4> QED
        BY ONLY <1>8, <4>1
    <3>5. Has(g, Len(hs), o[g.fn][h.at])
      BY <1>4, <3>2, <3>4 DEF Has
    <3>6. g = gs[h.frame]
      BY <1>3, <3>2
    <3>7. CoveredBelow(L, o, gs, Append(hs, h))
      BY ONLY <1>5, <1>6, <3>2, <3>5, <3>6, CoverPush
    <3>8. Len(Append(hs, h)) = k + 1
      BY <1>5, AppendList
    <3>9. x <= (k + 1) - b
      <4>1. x <= y + 1
        BY <1>7, <3>1, OpenFacts
      <4> QED
        BY ONLY <1>8, <4>1
    <3> QED
      BY <1>4, <3>1, <3>7, <3>8, <3>9 DEF HasHere, Has
  <2>2. CASE PopHandler
    <3>1. op = "POP_HANDLER"
      BY <2>2 DEF PopHandler, Running
    <3>2. x <= (IF y > 0 THEN y - 1 ELSE 0)
      BY <1>7, <3>1, OpenFacts
    <3>3. CASE k > b
      <4> PICK j : j = k - 1
        OBVIOUS
      <4>1. handlers' = SubSeq(hs, 1, j)
        BY <1>1, <2>2, <3>3 DEF PopHandler, Pred
      <4>2. j \in 0..k /\ x <= j - b
        BY ONLY <1>8, <3>2, <3>3, j = k - 1
      <4>3. CoveredBelow(L, o, gs, SubSeq(hs, 1, j)) /\ Len(SubSeq(hs, 1, j)) = j
        BY <1>5, <1>6, <4>2, CoverCut, CutList
      <4> QED
        BY <1>4, <4>1, <4>2, <4>3 DEF HasHere, Has
    <3>4. CASE ~(k > b)
      <4>1. handlers' = hs
        BY <1>1, <2>2, <3>4 DEF PopHandler
      <4>2. x <= k - b
        BY ONLY <1>8, <3>2, <3>4
      <4> QED
        BY <1>4, <1>6, <4>1, <4>2 DEF HasHere, Has
    <3> QED
      BY <3>3, <3>4
  <2> QED
    BY <2>1, <2>2
<1>10. Frame' = g /\ frames' # <<>> /\ loaded' = L
  BY <1>2, <1>3 DEF Frame
<1> QED
  BY <1>2, <1>3, <1>9, <1>10 DEF CoverInv

\* An exception enters a handler of its frame: one pushed, or one of the table.
LEMMA EnterCover ==
  ASSUME NEW o, CoverHere(o), EnterDynamic \/ EnterStatic
  PROVE  CoverInv(o)'
<1> PICK L, f, fs, n, hs, m, b :
      /\ L = loaded /\ f = Frame /\ fs = frames /\ n = Len(fs) /\ hs = handlers /\ m = Len(mem)
      /\ b = f.handlerBase
  OBVIOUS
<1>1. Unwinding /\ UNCHANGED loaded /\ ctl'.do = "run"
  BY DEF EnterDynamic, EnterStatic, program
<1>2. /\ IsList(fs) /\ fs # <<>> /\ DOMAIN f = FrameFields /\ f = fs[n] /\ n \in 1..n
  BY Here DEF CoverHere, Frame
<1>3. /\ Owned(L, fs, hs, m) /\ IsList(hs) /\ Len(hs) \in Nat /\ b \in 0..Len(hs)
      /\ CoveredBelow(L, o, fs, hs)
  BY <1>2, ListFacts DEF CoverHere, DepthInv, Owned, CoverInv
<1>4. \E pc : /\ Goto(pc) /\ CoveredBelow(L, o, fs, handlers')
              /\ Has(f, Len(handlers'), o[f.fn][pc])
  <2>1. CASE EnterDynamic
    <3> PICK D, i, x : /\ D = DynamicHandlers
                       /\ i = CHOOSE k \in DynamicHandlers : \A j \in DynamicHandlers : j <= k
                       /\ x = hs[i]
      OBVIOUS
    <3>1. D # {} /\ handlers' = SubSeq(hs, 1, i - 1) /\ Goto(x.at)
      BY <2>1 DEF EnterDynamic
    <3>2. D \in SUBSET (1..Len(hs)) /\ \A k \in D : hs[k].frame = n
      <4>1. D \subseteq b + 1..Len(hs) /\ \A k \in D : hs[k].frame = n
        BY DEF DynamicHandlers
      <4> QED
        BY <1>3, <4>1
    <3>3. i \in D
      <4>1. Greatest(D) \in D
        BY <1>3, <3>1, <3>2, GreatestIn
      <4>2. i = Greatest(DynamicHandlers)
        BY DEF Greatest
      <4> QED
        BY <4>1, <4>2
    <3>4. i \in 1..Len(hs) /\ x.frame = n
      BY <3>2, <3>3
    <3> PICK d, zs : d = i - 1 /\ zs = SubSeq(hs, 1, d)
      OBVIOUS
    <3>5. d \in 0..Len(hs)
      BY <1>3, <3>4
    <3>6. CoveredBelow(L, o, fs, zs) /\ Len(zs) = d
      BY <1>3, <3>5, CoverCut, CutList
    <3>7. Has(f, d, o[f.fn][x.at])
      BY <1>2, <1>3, <3>4 DEF CoveredBelow
    <3> QED
      BY <3>1, <3>6, <3>7
  <2>2. CASE EnterStatic
    <3> PICK to, zs : /\ to = Proto.exceptions[Narrowest(StaticHandlers)].handler + 1
                      /\ zs = SubSeq(hs, 1, b)
      OBVIOUS
    <3>1. handlers' = zs /\ Goto(to) /\ DynamicHandlers = {} /\ StaticHandlers # {}
      BY <2>2 DEF EnterStatic, Trimmed
    <3>2. o[f.fn][to] = 0
      BY <1>1, <3>1, Emptied DEF CoverHere
    <3>3. CoveredBelow(L, o, fs, zs) /\ Len(zs) = b
      BY <1>3, CoverCut, CutList
    <3>4. Has(f, b, o[f.fn][to])
      <4>1. 0 <= b - b
        BY <1>3
      <4> QED
        BY <3>2, <4>1 DEF Has
    <3> QED
      BY <3>1, <3>3, <3>4
  <2> QED
    BY <2>1, <2>2
<1>5. PICK pc : /\ Goto(pc) /\ CoveredBelow(L, o, fs, handlers')
                /\ Has(f, Len(handlers'), o[f.fn][pc])
  BY <1>4
<1> PICK gs, g, zs, j : gs = TopAt(fs, pc) /\ g = At(fs[n], pc) /\ zs = handlers' /\ j = Len(mem')
  OBVIOUS
<1>6. frames' = gs /\ Len(gs) = n /\ gs[n] = g /\ gs # <<>>
  <2>1. frames' = gs
    BY <1>5, GotoIs
  <2>2. Len(gs) = n /\ gs[n] = g /\ gs # <<>>
    <3>1. /\ IsList(fs) /\ fs # <<>> /\ DOMAIN fs[Len(fs)] = FrameFields
          /\ gs = TopAt(fs, pc) /\ n = Len(fs) /\ g = At(fs[Len(fs)], pc)
      BY <1>2
    <3> QED
      BY ONLY <3>1, TopAtFacts
  <2> QED
    BY <2>1, <2>2
<1>7. g.fn = f.fn /\ g.handlerBase = b /\ g.pc = pc
  BY <1>2, AtGoesOn
<1>8. CoveredBelow(L, o, gs, zs)
  <2>1. Owned(loaded', gs, zs, j)
    BY <1>6, EnterHeld, Emptied DEF CoverHere, DepthInv
  <2>2. \A i \in 1..Len(zs) : zs[i].frame \in 1..Len(fs)
    BY <1>6, <2>1 DEF Owned
  <2>3. CoveredBelow(L, o, With(fs, Len(fs), g), zs)
    BY <1>2, <1>5, <1>7, <2>2, CoverTop
  <2> QED
    BY <2>3 DEF TopAt
<1>9. HasHere(o, g, Len(zs))
  BY <1>5, <1>7 DEF HasHere, Has
<1>10. Frame' = g /\ frames' # <<>> /\ loaded' = L
  BY <1>1, <1>6 DEF Frame
<1> QED
  BY <1>1, <1>6, <1>8, <1>9, <1>10 DEF CoverInv

\* A frame is pushed on what the caller leaves.
LEMMA CalledCover ==
  ASSUME NEW o, CoverHere(o), DepthInv', ctl.do = "run", Ins[1] \notin Registers, ctl'.do = "run",
         UNCHANGED <<loaded, handlers>>,
         NEW fn, NEW slots, NEW base,
         frames' = Append(TopAt(frames, Frame.pc + 1), NewFrame(fn, slots, base))
  PROVE  CoverInv(o)'
<1> PICK L, f, fs, gs, ts, n, hs, q, h, g, k :
      /\ L = loaded /\ f = Frame /\ fs = frames /\ n = Len(fs) /\ hs = handlers /\ q = f.pc + 1
      /\ g = NewFrame(fn, slots, base) /\ k = Len(hs)
      /\ ts = TopAt(fs, q) /\ gs = Append(ts, g) /\ h = At(fs[n], q)
  OBVIOUS
<1>1. IsList(fs) /\ fs # <<>> /\ DOMAIN f = FrameFields /\ n \in Nat /\ n \in 1..n /\ f = fs[n]
  BY Here DEF CoverHere, Frame
<1>2. /\ IsList(ts) /\ Len(ts) = n /\ ts[n] = h /\ ts # <<>>
  <2>1. /\ IsList(fs) /\ fs # <<>> /\ DOMAIN fs[Len(fs)] = FrameFields
        /\ ts = TopAt(fs, q) /\ n = Len(fs) /\ h = At(fs[Len(fs)], q)
    BY <1>1
  <2> QED
    BY ONLY <2>1, TopAtFacts
<1>3. h.fn = f.fn /\ h.handlerBase = f.handlerBase /\ h.pc = q
  BY <1>1, AtGoesOn
<1>4. Owned(L, fs, hs, Len(mem)) /\ CoveredBelow(L, o, fs, hs)
  BY DEF CoverHere, DepthInv, CoverInv
<1>5. k \in Nat /\ \A i \in 1..Len(hs) : hs[i].frame \in 1..n
  BY <1>4, ListFacts DEF Owned
<1>6. CoveredBelow(L, o, ts, hs)
  <2>1. CoveredBelow(L, o, With(fs, Len(fs), h), hs)
    BY <1>1, <1>3, <1>4, <1>5, CoverTop
  <2> QED
    BY <2>1 DEF TopAt
<1>7. HasLeft(L, o, ts[Len(ts)], Len(hs))
  BY <1>1, <1>2, Leave
<1>8. g.handlerBase = k /\ g.fn = fn /\ g.pc = 1
  BY DEF NewFrame
<1>9. CoveredBelow(L, o, gs, hs)
  BY <1>2, <1>5, <1>6, <1>7, <1>8, CoverMore
<1>10. Len(gs) = n + 1 /\ gs[n + 1] = g /\ gs # <<>>
  BY <1>2, AppendList
<1>11. frames' = gs /\ Frame' = g /\ loaded' = L /\ handlers' = hs
  BY <1>10 DEF Frame
<1>12. fn \in DOMAIN L
  <2>1. Held(L, gs, Len(mem'))
    BY <1>11 DEF DepthInv
  <2>2. n + 1 \in 1..Len(gs)
    BY <1>1, <1>10
  <2> QED
    BY <1>8, <1>10, <2>1, <2>2 DEF Held, FrameHeld
<1>13. HasHere(o, g, k)
  BY <1>5, <1>8, <1>12, AtStart DEF CoverHere
<1> QED
  BY <1>9, <1>10, <1>11, <1>13 DEF CoverInv

LEMMA InvokeCover ==
  ASSUME NEW o, CoverHere(o), DepthInv', ctl.do = "run", Ins[1] \in {"CALL", "TAIL_CALL"}, Invoke,
         UNCHANGED <<loaded, handlers>>
  PROVE  CoverInv(o)'
<1> PICK ins : ins = Ins
  OBVIOUS
<1>1. jaiOpFallsThrough(ins[1]) /\ ins[1] \notin Registers \cup {"POP_HANDLER"}
  BY DEF jaiOpFallsThrough, Registers
<1>2. [frames EXCEPT ![Len(frames)].pc = @ + 1] = TopAt(frames, Frame.pc + 1)
  BY DEF TopAt, At, With, Frame
<1>3. \/ /\ ctl'.do = "run"
         /\ \E fn, slots, base :
              frames' = Append(TopAt(frames, Frame.pc + 1), NewFrame(fn, slots, base))
      \/ Goto(Frame.pc + 1)
  <2> PICK ts : ts = TopAt(frames, Frame.pc + 1)
    OBVIOUS
  <2>1. \/ UNCHANGED ctl /\ \E m, fn, slots : EnterCall(ts, m, fn, slots)
        \/ \E e : Throw(e)
    BY <1>2 DEF Invoke
  <2>2. CASE \E e : Throw(e)
    BY <2>2 DEF Throw, Next1
  <2>3. CASE UNCHANGED ctl /\ \E m, fn, slots : EnterCall(ts, m, fn, slots)
    <3>1. PICK m, fn, slots : EnterCall(ts, m, fn, slots)
      BY <2>3
    <3>2. frames' = Append(ts, NewFrame(fn, slots, slots))
      BY <3>1 DEF EnterCall
    <3> QED
      BY <2>3, <3>2
  <2> QED
    BY <2>1, <2>2, <2>3
<1>4. CASE Goto(Frame.pc + 1)
  <2> PICK pc : pc = Frame.pc + 1
    OBVIOUS
  <2> QED
    BY <1>1, <1>4, CoverAlong
<1>5. CASE /\ ctl'.do = "run"
           /\ \E fn, slots, base :
                frames' = Append(TopAt(frames, Frame.pc + 1), NewFrame(fn, slots, base))
  BY <1>1, <1>5, CalledCover
<1> QED
  BY <1>3, <1>4, <1>5

\* A tail call puts another function in the frame, at its first instruction.
LEMMA ReuseCover ==
  ASSUME NEW o, CoverHere(o), DepthInv', ctl'.do = "run", UNCHANGED loaded, NEW fn, ReuseFrame(fn)
  PROVE  CoverInv(o)'
<1> PICK L, f, fs, gs, n, hs, b, x, y, zs :
      /\ L = loaded /\ f = Frame /\ fs = frames /\ n = Len(fs) /\ hs = handlers
      /\ b = fs[n].handlerBase /\ y = [f EXCEPT !.fn = fn] /\ x = [y EXCEPT !.pc = 1]
      /\ gs = With(fs, n, x) /\ zs = SubSeq(hs, 1, b)
  OBVIOUS
<1>1. IsList(fs) /\ fs # <<>> /\ DOMAIN f = FrameFields /\ n \in Nat /\ n \in 1..n /\ f = fs[n]
  BY Here DEF CoverHere, Frame
<1>2. frames' = gs
  <2>1. frames' = [[fs EXCEPT ![n] = y] EXCEPT ![n] = [[fs EXCEPT ![n] = y][n] EXCEPT !.pc = 1]]
    BY <1>1 DEF ReuseFrame
  <2>2. DOMAIN fs = 1..n
    BY <1>1, ListFacts
  <2>3. [fs EXCEPT ![n] = y][n] = y
    BY <1>1, <2>2
  <2> QED
    BY <1>1, <2>1, <2>2, <2>3 DEF With
<1>3. IsList(gs) /\ Len(gs) = n /\ gs[n] = x /\ \A i \in 1..n : i # n => gs[i] = fs[i]
  BY <1>1, WithList
<1>4. x.pc = 1 /\ x.fn = fn /\ x.handlerBase = b
  BY <1>1 DEF FrameFields
<1>5. handlers' = zs
  BY <1>1 DEF ReuseFrame, Trimmed
<1>6. CoveredBelow(L, o, gs, zs) /\ Len(zs) = b
  <2>1. Owned(L, fs, hs, Len(mem)) /\ CoveredBelow(L, o, fs, hs)
    BY DEF CoverHere, DepthInv, CoverInv
  <2>2. \A k \in 1..n - 1 : gs[k] = fs[k]
    <3>1. \A k \in 1..n - 1 : k \in 1..n /\ k # n
      BY <1>1
    <3> QED
      BY <1>3, <3>1
  <2> PICK m : m = Len(mem)
    OBVIOUS
  <2>3. TopGone(fs, gs, hs, zs, n, b)
    BY <1>3, <1>4, <2>2 DEF TopGone
  <2>4. /\ IsList(fs) /\ fs # <<>> /\ Owned(L, fs, hs, m) /\ CoveredBelow(L, o, fs, hs)
        /\ TopGone(fs, gs, hs, zs, n, b)
    BY <1>1, <2>1, <2>3
  <2> QED
    BY ONLY <2>4, CoverLess
<1>7. b \in Nat
  <2>1. Owned(L, fs, hs, Len(mem))
    BY DEF CoverHere, DepthInv
  <2> PICK m : m = Len(mem)
    OBVIOUS
  <2>2. Owned(L, fs, hs, m) /\ n \in 1..n /\ n = Len(fs) /\ b = fs[n].handlerBase
    BY <1>1, <2>1
  <2>3. b \in 0..Len(hs) /\ IsList(hs)
    BY ONLY <2>2 DEF Owned
  <2>4. Len(hs) \in Nat
    BY <2>3, ListFacts
  <2> QED
    BY <2>3, <2>4
<1>8. fn \in DOMAIN L
  <2>1. Held(L, gs, Len(mem'))
    BY <1>2 DEF DepthInv
  <2>2. x = gs[n] /\ n \in 1..Len(gs)
    BY <1>1, <1>3
  <2>3. x.fn \in DOMAIN L
    BY <2>1, <2>2 DEF Held, FrameHeld
  <2> QED
    BY <1>4, <2>3
<1>9. HasHere(o, x, b)
  BY <1>4, <1>7, <1>8, AtStart DEF CoverHere
<1>10. Frame' = x /\ gs # <<>> /\ loaded' = L
  BY <1>1, <1>2, <1>3, ListFacts DEF Frame
<1> QED
  BY <1>2, <1>5, <1>6, <1>9, <1>10 DEF CoverInv

\* The frame on top goes on if it is to run, and stays as it stopped if not.
LEMMA Rests ==
  ASSUME NEW L, NEW o, Guards(L, o), NEW f, f.fn \in DOMAIN L, NEW n, n - f.handlerBase \in Int,
         HasLeft(L, o, f, n), NEW do, do = "run" => f.pc \in 1..Len(L[f.fn].code)
  PROVE  IF do = "run" THEN HasHere(o, f, n) ELSE HasLeft(L, o, f, n)
<1>1. GuardedBy(f.fn, L[f.fn], o[f.fn])
  BY DEF Guards
<1>2. CASE do = "run"
  <2>1. f.pc \in 1..Len(L[f.fn].code)
    BY <1>2
  <2> QED
    BY <1>1, <1>2, <2>1, Resume
<1>3. CASE do # "run"
  BY <1>3
<1> QED
  BY <1>2, <1>3

\* A frame goes, and its handlers.
LEMMA GoneCover ==
  ASSUME NEW o, CoverHere(o), DepthInv', UNCHANGED loaded, frames' = Pred(frames),
         handlers' \in {Trimmed(handlers, Frame.handlerBase), Upto(handlers, Frame.handlerBase)}
  PROVE  CoverInv(o)'
<1> PICK L, fs, gs, n, hs, m, b, zs, do :
      /\ L = loaded /\ fs = frames /\ n = Len(fs) /\ hs = handlers /\ m = Len(mem)
      /\ b = fs[n].handlerBase /\ gs = Pred(fs) /\ zs = SubSeq(hs, 1, b) /\ do = ctl'.do
  OBVIOUS
<1>1. IsList(fs) /\ fs # <<>> /\ n \in Nat /\ n \in 1..n /\ Frame = fs[n]
  BY Here DEF CoverHere, Frame
<1>2. IsList(gs) /\ Len(gs) = n - 1 /\ \A i \in 1..n - 1 : gs[i] = fs[i]
  BY <1>1, PredList
<1>3. Owned(L, fs, hs, m) /\ CoveredBelow(L, o, fs, hs) /\ Held(L, fs, m)
  BY DEF CoverHere, DepthInv, CoverInv
<1>4. b \in 0..Len(hs) /\ Len(hs) \in Nat
      /\ (\A i \in 1..n : fs[i].handlerBase \in 0..Len(hs)) /\ \A i \in 1..n : fs[i].fn \in DOMAIN L
  <2>1. Owned(L, fs, hs, m) /\ n \in 1..n /\ n = Len(fs) /\ b = fs[n].handlerBase /\ Held(L, fs, m)
    BY <1>1, <1>3
  <2>2. b \in 0..Len(hs) /\ IsList(hs) /\ \A i \in 1..n : fs[i].handlerBase \in 0..Len(hs)
    BY ONLY <2>1 DEF Owned
  <2>3. \A i \in 1..n : fs[i].fn \in DOMAIN L
    BY ONLY <2>1 DEF Held, FrameHeld
  <2> QED
    BY <2>2, <2>3, ListFacts
<1>5. handlers' = zs
  <2>1. b < Len(hs) \/ b = Len(hs)
    BY <1>4
  <2>2. Upto(hs, b) = zs
    BY <2>1 DEF Upto
  <2> QED
    BY <1>1, <2>2 DEF Trimmed
<1>6. CoveredBelow(L, o, gs, zs) /\ Len(zs) = b /\ (n > 1 => HasLeft(L, o, fs[n - 1], b))
  <2>1. TopGone(fs, gs, hs, zs, n, b)
    BY <1>2 DEF TopGone
  <2>2. /\ IsList(fs) /\ fs # <<>> /\ Owned(L, fs, hs, m) /\ CoveredBelow(L, o, fs, hs)
        /\ TopGone(fs, gs, hs, zs, n, b)
    BY <1>1, <1>3, <2>1
  <2> QED
    BY ONLY <2>2, CoverLess
<1>7. ASSUME gs # <<>>
      PROVE  LET g == gs[Len(gs)]
             IN  IF do = "run" THEN HasHere(o, g, b) ELSE HasLeft(L, o, g, b)
  <2> PICK f, j : j = n - 1 /\ f = fs[j]
    OBVIOUS
  <2>1. n > 1 /\ j \in 1..n - 1 /\ j \in 1..n
    BY <1>1, <1>2, <1>7, ListFacts
  <2>2. gs[Len(gs)] = f
    BY <1>2, <2>1
  <2>3. f.fn \in DOMAIN L /\ f.handlerBase \in 0..Len(hs)
    BY <1>4, <2>1
  <2>4. b - f.handlerBase \in Int
    BY <1>4, <2>3
  <2>5. HasLeft(L, o, f, b) /\ Guards(L, o)
    BY <1>6, <2>1 DEF CoverHere
  <2>6. do = "run" => f.pc \in 1..Len(L[f.fn].code)
    <3>1. do = "run" => GoesOn(L, gs[Len(gs)], top')
      BY DEF DepthInv, TopHeld, Frame
    <3> QED
      BY <2>2, <3>1 DEF GoesOn, GoesOnAt
  <2>7. IF do = "run" THEN HasHere(o, f, b) ELSE HasLeft(L, o, f, b)
    BY ONLY <2>3, <2>4, <2>5, <2>6, Rests
  <2> QED
    BY <2>2, <2>7
<1>8. frames' = gs /\ Frame' = gs[Len(gs)] /\ loaded' = L
  BY DEF Frame
<1> QED
  BY <1>5, <1>6, <1>7, <1>8 DEF CoverInv

\* The frame on top has waited; it is taken up again or waits on.
LEMMA StillCover ==
  ASSUME NEW o, DepthInv, Guards(loaded, o), CoverInv(o), DepthInv',
         IsList(frames), ctl.do # "run", UNCHANGED <<loaded, frames, handlers>>
  PROVE  CoverInv(o)'
<1> PICK L, fs, n, hs, m, k, do :
      /\ L = loaded /\ fs = frames /\ n = Len(fs) /\ hs = handlers /\ m = Len(mem)
      /\ k = Len(hs) /\ do = ctl'.do
  OBVIOUS
<1>1. ASSUME fs # <<>>
      PROVE  IF do = "run" THEN HasHere(o, fs[n], k) ELSE HasLeft(L, o, fs[n], k)
  <2> PICK f : f = fs[n]
    OBVIOUS
  <2>1. n \in 1..n
    BY <1>1, ListFacts
  <2>2. Owned(L, fs, hs, m) /\ Held(L, fs, m) /\ n \in 1..n /\ n = Len(fs) /\ f = fs[n] /\ k = Len(hs)
    BY <2>1 DEF DepthInv
  <2>3. f.handlerBase \in 0..k /\ IsList(hs) /\ f.fn \in DOMAIN L
    BY ONLY <2>2 DEF Owned, Held, FrameHeld
  <2>4. k - f.handlerBase \in Int
    <3>1. k \in Nat
      BY <2>3, ListFacts
    <3> QED
      BY <2>3, <3>1
  <2>5. HasLeft(L, o, f, k) /\ Guards(L, o)
    BY <1>1 DEF CoverInv, Frame
  <2>6. do = "run" => f.pc \in 1..Len(L[f.fn].code)
    <3>1. do = "run" => GoesOn(L, f, top')
      BY DEF DepthInv, TopHeld, Frame
    <3> QED
      BY <3>1 DEF GoesOn, GoesOnAt
  <2>7. IF do = "run" THEN HasHere(o, f, k) ELSE HasLeft(L, o, f, k)
    BY ONLY <2>3, <2>4, <2>5, <2>6, Rests
  <2> QED
    BY <2>7
<1>2. CoveredBelow(L, o, fs, hs)
  BY DEF CoverInv
<1> QED
  BY <1>1, <1>2 DEF CoverInv, Frame

LEMMA CallCover ==
  ASSUME NEW o, CoverHere(o), DepthInv', Call \/ TailCall \/ Return
  PROVE  CoverInv(o)'
<1>1. ctl.do = "run" /\ UNCHANGED loaded
  BY DEF Call, TailCall, Return, Running, program
<1>2. CASE Call
  <2>1. Ins[1] = "CALL" /\ Invoke /\ UNCHANGED handlers
    BY <1>2 DEF Call, Running, lists
  <2> QED
    BY <1>1, <2>1, InvokeCover
<1>3. CASE TailCall
  <2>1. Ins[1] = "TAIL_CALL"
    BY <1>3 DEF TailCall, Running
  <2>2. CASE Invoke /\ UNCHANGED lists
    BY <1>1, <2>1, <2>2, InvokeCover DEF lists
  <2>3. CASE Next1 /\ StartDefers("tail", Peek) /\ UNCHANGED lists
    <3>1. ctl'.do # "run" /\ UNCHANGED handlers /\ Goto(Frame.pc + 1) /\ Ins[1] \notin Registers
      BY <2>1, <2>3 DEF StartDefers, lists, Next1, Registers
    <3> QED
      BY <1>1, <3>1, CoverAlong
  <2>4. CASE UNCHANGED ctl /\ ReuseFrame(Peek[2])
    BY <1>1, <2>4, ReuseCover
  <2> QED
    BY <1>3, <2>2, <2>3, <2>4 DEF TailCall
<1>4. CASE Return
  <2>1. CASE Next1 /\ (\E v : StartDefers("return", v)) /\ UNCHANGED lists
    <3>1. ctl'.do # "run" /\ UNCHANGED handlers /\ Goto(Frame.pc + 1) /\ Ins[1] \notin Registers
      BY <1>4, <2>1 DEF StartDefers, lists, Next1, Registers, Return
    <3> QED
      BY <1>1, <3>1, CoverAlong
  <2>2. CASE \E v : ReturnWith(v, cstack)
    BY <1>1, <2>2, GoneCover DEF ReturnWith, LeaveFrame
  <2> QED
    BY <1>4, <2>1, <2>2 DEF Return
<1> QED
  BY <1>2, <1>3, <1>4

LEMMA DeferredCover ==
  ASSUME NEW o, CoverHere(o), DepthInv', CallDeferred \/ DefersDone \/ UnwindFrame
  PROVE  CoverInv(o)'
<1>1. UNCHANGED loaded /\ ctl.do # "run"
  BY DEF CallDeferred, DefersDone, UnwindFrame, program, core, Unwinding
<1>2. IsList(frames) /\ frames # <<>> /\ DepthInv /\ Guards(loaded, o) /\ CoverInv(o)
  BY Here DEF CoverHere
<1>3. CASE CallDeferred
  <2> PICK L, fs, hs, m, n, k, g, gs :
        /\ L = loaded /\ fs = frames /\ hs = handlers /\ m = Len(mem) /\ n = Len(fs) /\ k = Len(hs)
        /\ g = [NewFrame(defers[Len(defers)].fn, Frame.slots, top) EXCEPT !.deferBase = Len(defers) - 1]
        /\ gs = Append(fs, g)
    OBVIOUS
  <2>1. frames' = gs /\ UNCHANGED handlers /\ ctl'.do = "run"
    BY <1>3 DEF CallDeferred
  <2>2. g.pc = 1 /\ g.handlerBase = k
    BY DEF NewFrame
  <2>3. Owned(L, fs, hs, m) /\ CoveredBelow(L, o, fs, hs) /\ HasLeft(L, o, fs[Len(fs)], Len(hs))
    BY <1>1, <1>2 DEF DepthInv, CoverInv, Frame
  <2>4. k \in Nat /\ \A i \in 1..Len(hs) : hs[i].frame \in 1..Len(fs)
    BY <2>3, ListFacts DEF Owned
  <2>5. CoveredBelow(L, o, gs, hs)
    BY <1>2, <2>2, <2>3, <2>4, CoverMore
  <2>6. Len(gs) = n + 1 /\ gs[n + 1] = g /\ n + 1 \in 1..Len(gs) /\ gs # <<>>
    BY <1>2, AppendList, ListFacts
  <2>7. Frame' = g /\ loaded' = L
    BY <1>1, <2>1, <2>6 DEF Frame
  <2>8. g.fn \in DOMAIN L
    <3>1. Held(L, gs, Len(mem'))
      BY <2>1, <2>7 DEF DepthInv
    <3> QED
      BY <2>6, <3>1 DEF Held, FrameHeld
  <2>9. HasHere(o, g, k)
    BY <1>2, <2>2, <2>4, <2>8, AtStart
  <2> QED
    BY <2>1, <2>5, <2>6, <2>7, <2>9 DEF CoverInv
<1>4. CASE DefersDone
  <2>1. CASE frames' = Pred(frames) /\ handlers' \in {Trimmed(handlers, Frame.handlerBase), Upto(handlers, Frame.handlerBase)}
    BY <1>1, <2>1, GoneCover
  <2>2. CASE UNCHANGED <<frames, handlers>>
    BY <1>1, <1>2, <2>2, StillCover
  <2>3. CASE ctl'.do = "run" /\ \E fn : ReuseFrame(fn)
    BY <1>1, <2>3, ReuseCover
  <2>4. \/ DiscardFrame \/ UNCHANGED <<frames, mem, top, lists>>
        \/ ctl'.do = "run" /\ \E fn : ReuseFrame(fn)
        \/ \E v, cs : ReturnWith(v, cs)
    BY <1>4 DEF DefersDone
  <2> QED
    BY <2>1, <2>2, <2>3, <2>4 DEF DiscardFrame, ReturnWith, LeaveFrame, lists
<1>5. CASE UnwindFrame
  <2>1. CASE UNCHANGED <<core, lists>>
    <3>1. UNCHANGED <<frames, handlers>>
      BY <2>1 DEF core, lists
    <3> QED
      BY <1>1, <1>2, <3>1, StillCover
  <2>2. CASE DiscardFrame
    BY <1>1, <2>2, GoneCover DEF DiscardFrame
  <2> QED
    BY <1>5, <2>1, <2>2 DEF UnwindFrame
<1> QED
  BY <1>3, <1>4, <1>5

LEMMA CoverStep ==
  ASSUME NEW o, DefersInv, DepthInv, Guards(loaded, o), CoverInv(o), [Next]_vars, DepthInv'
  PROVE  CoverInv(o)'
<1>1. CASE \/ Const \/ GetGlobal \/ Pop \/ Mark \/ Show
           \/ Jump \/ JumpIfTrue \/ GetIter \/ ForIter
           \/ Call \/ TailCall \/ Return
           \/ ThrowOp \/ Reraise \/ PushHandler \/ PopHandler \/ EndFinally
           \/ PushDefer \/ RunDefers \/ MatchExc \/ GetExc
           \/ CallDeferred \/ DefersDone \/ EnterDynamic \/ EnterStatic \/ UnwindFrame
  <2>1. ctl.do \in {"run", "defers"} \/ Unwinding
    <3>1. CASE \/ Const \/ GetGlobal \/ Pop \/ Mark \/ Show
               \/ Jump \/ JumpIfTrue \/ GetIter \/ ForIter
               \/ Call \/ TailCall \/ Return
      BY <3>1 DEF Const, GetGlobal, Pop, Mark, Show, Jump, JumpIfTrue, GetIter, ForIter,
                  Call, TailCall, Return, Running
    <3>2. CASE \/ ThrowOp \/ Reraise \/ PushHandler \/ PopHandler \/ EndFinally
               \/ PushDefer \/ RunDefers \/ MatchExc \/ GetExc
               \/ CallDeferred \/ DefersDone \/ EnterDynamic \/ EnterStatic \/ UnwindFrame
      BY <3>2 DEF ThrowOp, Reraise, PushHandler, PopHandler, EndFinally, PushDefer, RunDefers,
                  MatchExc, GetExc, CallDeferred, DefersDone, EnterDynamic, EnterStatic,
                  UnwindFrame, Running
    <3> QED
      BY <1>1, <3>1, <3>2
  <2>2. CoverHere(o)
    BY <2>1 DEF CoverHere
  <2> QED
    BY <1>1, <2>2, PlainCover, JumpCover, ThrowCover, HandlerCover, EnterCover, CallCover, DeferredCover
<1>2. CASE NativeReturns \/ DeferredReturns \/ Escape
  <2>1. UNCHANGED <<loaded, frames, handlers>> /\ ctl.do # "run"
    BY <1>2 DEF NativeReturns, DeferredReturns, Escape, program, core, lists
  <2>2. IsList(frames)
    BY DEF DefersInv, FramesOK, Stretched
  <2> QED
    BY <2>1, <2>2, StillCover
<1>3. CASE Exit
  <2>1. frames' = <<>> /\ handlers' = <<>> /\ Len(<<>>) = 0
    BY <1>3 DEF Exit
  <2>2. CoveredBelow(loaded', o, <<>>, <<>>)
    <3>1. 1..0 = {} /\ 1..0 - 1 = {}
      OBVIOUS
    <3> QED
      BY <2>1, <3>1 DEF CoveredBelow
  <2> QED
    BY <2>1, <2>2 DEF CoverInv
<1>4. CASE UNCHANGED vars
  <2>1. UNCHANGED <<loaded, frames, handlers, ctl>>
    BY <1>4 DEF vars, core, program, lists
  <2> QED
    BY <2>1 DEF CoverInv, Frame
<1> QED
  BY <1>1, <1>2, <1>3, <1>4 DEF Next

LEMMA StartsCovered ==
  ASSUME Init, Agrees(prog, loaded), NEW o, Guards(loaded, o)
  PROVE  CoverInv(o)
<1> PICK f : f = [fn |-> Main(prog), pc |-> 1, slots |-> 0, base |-> 0,
                  handlerBase |-> 0, deferBase |-> 0]
  OBVIOUS
<1>1. frames = <<f>> /\ handlers = <<>> /\ ctl.do = "run"
  BY DEF Init
<1>2. Len(frames) = 1 /\ Frame = f /\ Len(handlers) = 0
  BY <1>1 DEF Frame
<1>3. HasHere(o, Frame, 0)
  BY <1>2, AtStart DEF Agrees
<1>4. CoveredBelow(loaded, o, frames, handlers)
  <2>1. 1..0 = {} /\ 1..1 - 1 = {}
    OBVIOUS
  <2> QED
    BY <1>2, <2>1 DEF CoveredBelow
<1> QED
  BY <1>1, <1>2, <1>3, <1>4 DEF CoverInv

-----------------------------------------------------------------------------
(* Every step.                                                               *)

LEMMA DepthStep ==
  DefersInv /\ DepthInv /\ KnownDefers /\ EntersEmpty /\ [Next]_vars => DepthInv'
<1> SUFFICES ASSUME DefersInv, DepthInv, KnownDefers, EntersEmpty, [Next]_vars PROVE DepthInv'
  OBVIOUS
<1>1. CASE \/ Const \/ GetGlobal \/ Pop \/ Mark \/ Show
           \/ Jump \/ JumpIfTrue \/ GetIter \/ ForIter
           \/ EndFinally \/ MatchExc \/ GetExc
  BY <1>1, ValueSteps, PlainSteps, BranchSteps, GetIterHeld
<1>2. CASE Call \/ TailCall \/ Return \/ NativeReturns \/ Exit
  BY <1>2, CallHeld, TailCallHeld, ReturnHeld, NativeReturnsHeld, ExitHeld
<1>3. CASE \/ ThrowOp \/ Reraise \/ PushHandler \/ PopHandler
           \/ EnterDynamic \/ EnterStatic \/ UnwindFrame \/ Escape
  BY <1>3, ThrowSteps, HandlerSteps, EnterHeld, UnwindFrameHeld, EscapeHeld
<1>4. CASE PushDefer \/ RunDefers \/ CallDeferred \/ DeferredReturns \/ DefersDone
  BY <1>4, DeferSteps, CallDeferredHeld, DeferredReturnsHeld, DefersDoneHeld
<1>5. CASE UNCHANGED vars
  <2>1. UNCHANGED <<prog, loaded, frames, mem, top, handlers, pendingException, cstack, ctl>>
    BY <1>5 DEF vars, core, program, exn, lists
  <2> QED
    BY <2>1 DEF DepthInv, TopHeld, Frame
<1> QED
  BY <1>1, <1>2, <1>3, <1>4, <1>5 DEF Next

\* The program is the same in every state.
LEMMA SameProgram == [Next]_vars => UNCHANGED <<prog, loaded>>
<1> SUFFICES ASSUME [Next]_vars PROVE UNCHANGED <<prog, loaded>>
  OBVIOUS
<1>1. CASE \/ Const \/ GetGlobal \/ Pop \/ Mark \/ Show
           \/ Jump \/ JumpIfTrue \/ GetIter \/ ForIter
           \/ Call \/ TailCall \/ Return \/ NativeReturns \/ Exit
  BY <1>1 DEF Const, GetGlobal, Pop, Mark, Show, Jump, JumpIfTrue, GetIter, ForIter,
              Call, TailCall, Return, NativeReturns, Exit, program
<1>2. CASE \/ ThrowOp \/ Reraise \/ PushHandler \/ PopHandler \/ EndFinally
           \/ PushDefer \/ RunDefers \/ MatchExc \/ GetExc
           \/ CallDeferred \/ DeferredReturns \/ DefersDone
  BY <1>2 DEF ThrowOp, Reraise, PushHandler, PopHandler, EndFinally, PushDefer, RunDefers,
              MatchExc, GetExc, CallDeferred, DeferredReturns, DefersDone, program
<1>3. CASE EnterDynamic \/ EnterStatic \/ UnwindFrame \/ Escape \/ UNCHANGED vars
  BY <1>3 DEF EnterDynamic, EnterStatic, UnwindFrame, Escape, program, core, vars
<1> QED
  BY <1>1, <1>2, <1>3 DEF Next

LEMMA StartsHeld == Init /\ CodeOK(prog, loaded) => DepthInv /\ KnownDefers
<1> SUFFICES ASSUME Init, CodeOK(prog, loaded) PROVE DepthInv /\ KnownDefers
  OBVIOUS
<1> PICK fn, f, w, q : /\ fn = Main(prog) /\ w = loaded[fn].window
                       /\ f = [fn |-> fn, pc |-> 1, slots |-> 0, base |-> 0,
                               handlerBase |-> 0, deferBase |-> 0]
                       /\ q = [i \in 1..w |-> Null]
  OBVIOUS
<1>1. /\ frames = <<f>> /\ mem = q /\ top = w /\ handlers = <<>> /\ defers = <<>>
      /\ pendingException = Null /\ cstack = <<[k |-> "run", base |-> 0]>> /\ ctl.do = "run"
  BY DEF Init, frameWindowSize
<1>2. fn \in DOMAIN loaded /\ fn.kind # "thunk" /\ w \in Nat \ {0} /\ DepthIs(loaded[fn], 1, 0)
  BY DEF CodeOK, Agrees, FunctionOK
<1>3. Len(frames) = 1 /\ frames[1] = f /\ Frame = f
  BY <1>1 DEF Frame
<1>4. q \in Seq({Null}) /\ Len(q) = w
  BY <1>2
<1>5. IsList(q) /\ \A i \in 1..Len(q) : q[i] = Null
  BY <1>4, ListOf
<1>6. Floor(loaded, f) = w
  BY <1>2 DEF Floor
<1>7. FrameHeld(loaded, f, w) /\ GoesOn(loaded, f, w)
  BY <1>2, <1>6 DEF FrameHeld, GoesOn, GoesOnAt, DepthIs
<1>8. Held(loaded, frames, Len(mem))
  <2>1. \A i \in 1..1 : i = 1
    OBVIOUS
  <2>2. \A i \in 2..1 : FALSE
    OBVIOUS
  <2>3. Len(mem) = w /\ \A i \in 1..Len(frames) : FrameHeld(loaded, frames[i], w)
    BY <1>1, <1>3, <1>4, <1>7, <2>1
  <2>4. \A i \in 2..Len(frames) : frames[i].base >= 1
    BY <1>3, <2>2
  <2> QED
    BY <2>3, <2>4 DEF Held
<1>9. IsList(<<>>) /\ Len(<<>>) = 0
  <2>1. <<>> \in Seq({})
    OBVIOUS
  <2> QED
    BY <2>1, ListOf
<1>10. Owned(loaded, frames, handlers, Len(mem))
  BY <1>1, <1>3, <1>9 DEF Owned
<1>11. Len(cstack) = 1 /\ cstack[1].k = "run"
  BY <1>1
<1>12. Awaited(loaded, frames, cstack, Len(mem))
  <2>1. \A i \in 1..1 - 1 : FALSE
    OBVIOUS
  <2>2. \A j \in 1..1 : j = 1
    OBVIOUS
  <2>3. \A i \in 1..Len(frames) - 1 : FALSE
    BY <1>3, <2>1
  <2>4. \A j \in 1..Len(cstack) : cstack[j].k \notin {"native", "deferred"}
    BY <1>11, <2>2
  <2> QED
    BY <2>3, <2>4 DEF Awaited
<1>13. Values(prog, mem, pendingException, cstack)
  <2>1. ValueOK(prog, Null)
    BY DEF ValueOK, Null
  <2>2. \A j \in 1..1 : j = 1
    OBVIOUS
  <2>3. \A j \in 1..Len(cstack) : CarriedOK(prog, cstack[j])
    BY <1>11, <2>2 DEF CarriedOK
  <2>4. IsList(mem) /\ \A i \in 1..Len(mem) : ValueOK(prog, mem[i])
    BY <1>1, <1>5, <2>1
  <2> QED
    BY <1>1, <2>1, <2>3, <2>4 DEF Values
<1>14. TopHeld
  BY <1>1, <1>2, <1>3, <1>4, <1>7 DEF TopHeld
<1>15. KnownDefers
  BY <1>1, <1>9 DEF KnownDefers
<1> QED
  BY <1>8, <1>10, <1>12, <1>13, <1>14, <1>15 DEF DepthInv

LEMMA EmptyThere == DefersInv /\ DepthKept /\ CodeOK(prog, loaded) => EntersEmpty
<1> SUFFICES ASSUME DefersInv, DepthKept, CodeOK(prog, loaded) PROVE EntersEmpty
  OBVIOUS
<1>1. PICK o : Guards(loaded, o)
  BY DEF CodeOK
<1> QED
  BY <1>1, Emptied DEF DepthKept

\* DepthKept is inductive beside DefersInv: in code that is well put together
\* the frames, the handlers and what is suspended below a native or a deferred
\* block all stand where the verifier's depths have them (DepthInv), and no
\* fewer handlers are open than the code counts at each place (CoverInv).
THEOREM DepthsKept == Spec => []DepthKept
<1>1. Init => DefersInv /\ DepthKept
  BY StartsRight, StartsHeld, StartsCovered DEF DepthKept, CodeOK
<1>2. DefersInv /\ DepthKept /\ [Next]_vars => (DefersInv /\ DepthKept)'
  <2> SUFFICES ASSUME DefersInv, DepthKept, [Next]_vars PROVE DefersInv' /\ DepthKept'
    OBVIOUS
  <2>1. DefersInv'
    BY StepKeeps
  <2>2. CASE CodeOK(prog, loaded)
    <3>1. DepthInv' /\ KnownDefers'
      BY <2>2, EmptyThere, DepthStep, KnownKept DEF DepthKept
    <3>2. ASSUME NEW o, Guards(loaded', o) PROVE CoverInv(o)'
      <4>1. Guards(loaded, o)
        BY <3>2, SameProgram
      <4> QED
        BY <2>2, <3>1, <4>1, CoverStep DEF DepthKept
    <3> QED
      BY <2>1, <3>1, <3>2 DEF DepthKept
  <2>3. CASE ~CodeOK(prog, loaded)
    <3>1. ~CodeOK(prog, loaded)'
      BY <2>3, SameProgram
    <3> QED
      BY <2>1, <3>1 DEF DepthKept
  <2> QED
    BY <2>2, <2>3
<1> QED
  BY <1>1, <1>2, PTL DEF Spec

LEMMA DepthHolds == DefersInv /\ DepthInv => DepthAsVerified
<1> SUFFICES ASSUME DefersInv, DepthInv, ctl.do = "run"
             PROVE  Proto.depth[Frame.pc] >= 0 /\ OperandDepth = Proto.depth[Frame.pc]
  BY DEF DepthAsVerified
<1> PICK L, f, h, d, k : L = loaded /\ f = Frame /\ h = top /\ d = Proto.depth[Frame.pc] /\ k = Floor(L, f)
  OBVIOUS
<1>1. FrameHeld(L, f, Len(mem)) /\ Len(mem) \in Nat /\ GoesOn(L, f, h)
  BY Here, Instruction
<1>2. d \in Nat /\ h = k + d
  BY <1>1 DEF GoesOn, GoesOnAt, Proto
<1>3. k \in Nat
  BY <1>1, FloorIn
<1>4. OperandDepth = h - k
  BY DEF OperandDepth, Floor, frameWindowSize
<1> QED
  BY <1>2, <1>3, <1>4

\* DepthAsVerified: whatever was thrown, caught, deferred, tail-called or
\* re-entered on the way, the operand stack at each instruction is as deep as
\* jaiVerifyChunk computed, for any code whose depths agree along its edges and
\* whose exception tables have entries met at depth 0 (a catch) or covered by
\* an open handler (a `finally`, in a loop or not): all that the compiler makes
\* but a deferred block with a catch of its own.
THEOREM DepthsAsVerified == Spec => [](CodeOK(prog, loaded) => DepthAsVerified)
<1>1. Spec => []DefersInv
  BY Structure
<1>2. Spec => []DepthKept
  BY DepthsKept
<1>3. DefersInv /\ DepthKept => (CodeOK(prog, loaded) => DepthAsVerified)
  BY DepthHolds DEF DepthKept
<1> QED
  BY <1>1, <1>2, <1>3, PTL

-----------------------------------------------------------------------------
(* Control follows the graph.                                                *)

\* Every frame goes on running the function it ran.
LEMMA GraphSame ==
  ASSUME NEW L, NEW fs, NEW hs, NEW m, Owned(L, fs, hs, m), InGraph(L, fs, hs),
         NEW gs, \A k \in 1..Len(fs) : gs[k].fn = fs[k].fn
  PROVE  InGraph(L, gs, hs)
BY DEF Owned, InGraph

LEMMA GraphCut ==
  ASSUME NEW L, NEW fs, NEW hs, IsList(hs), InGraph(L, fs, hs), NEW b \in 0..Len(hs)
  PROVE  InGraph(L, fs, SubSeq(hs, 1, b))
<1> PICK S, zs : S = {hs[i] : i \in DOMAIN hs} /\ zs = SubSeq(hs, 1, b)
  OBVIOUS
<1>1. hs \in Seq(S) /\ Len(hs) \in Nat
  BY ListFacts DEF IsList
<1>2. Len(zs) = b /\ \A i \in 1..b : zs[i] = hs[i] /\ i \in 1..Len(hs)
  BY <1>1
<1> QED
  BY <1>2 DEF InGraph

\* The top frame's handlers go, and with them all that depends on its function.
LEMMA GraphLess ==
  ASSUME NEW L, NEW fs, IsList(fs), fs # <<>>, NEW hs, NEW m, Owned(L, fs, hs, m),
         InGraph(L, fs, hs), NEW gs, \A k \in 1..Len(fs) - 1 : gs[k].fn = fs[k].fn,
         NEW b, b = fs[Len(fs)].handlerBase
  PROVE  InGraph(L, gs, SubSeq(hs, 1, b))
<1> PICK S, zs, n : S = {hs[i] : i \in DOMAIN hs} /\ zs = SubSeq(hs, 1, b) /\ n = Len(fs)
  OBVIOUS
<1>1. hs \in Seq(S) /\ Len(hs) \in Nat /\ n \in Nat /\ n \in 1..n
  BY ListFacts DEF IsList, Owned
<1>2. b \in 0..Len(hs)
  BY <1>1 DEF Owned
<1>3. Len(zs) = b /\ \A i \in 1..b : zs[i] = hs[i] /\ i \in 1..Len(hs)
  BY <1>1, <1>2
<1>4. ASSUME NEW i \in 1..b PROVE hs[i].frame \in 1..n - 1
  <2> PICK k : k = hs[i].frame
    OBVIOUS
  <2>1. k \in 1..n /\ fs[k].handlerBase < i
    BY <1>3 DEF Owned
  <2>2. k # n
    <3>1. i <= b
      BY <1>2
    <3> QED
      BY <1>1, <1>2, <2>1, <3>1
  <2> QED
    BY <1>1, <2>1, <2>2
<1>5. ASSUME NEW i \in 1..b PROVE zs[i].at \in L[gs[zs[i].frame].fn].cfg.rpo
  <2>1. gs[hs[i].frame].fn = fs[hs[i].frame].fn
    BY <1>4
  <2>2. hs[i].at \in L[fs[hs[i].frame].fn].cfg.rpo
    BY <1>3 DEF InGraph
  <2> QED
    BY <1>3, <2>1, <2>2
<1> QED
  BY <1>3, <1>5 DEF InGraph

LEMMA GraphPush ==
  ASSUME NEW L, NEW fs, NEW hs, IsList(hs), InGraph(L, fs, hs), NEW x,
         x.at \in L[fs[x.frame].fn].cfg.rpo
  PROVE  InGraph(L, fs, Append(hs, x))
<1> PICK zs, k : zs = Append(hs, x) /\ k = Len(hs)
  OBVIOUS
<1>1. k \in Nat /\ Len(zs) = k + 1 /\ zs[k + 1] = x /\ \A i \in 1..k : zs[i] = hs[i]
  BY ListFacts, AppendList
<1>2. \A i \in 1..k + 1 : i \in 1..k \/ i = k + 1
  BY <1>1
<1> QED
  BY <1>1, <1>2 DEF InGraph

\* What is known where an instruction runs or a frame is unwound.
GraphHere ==
  /\ DefersInv /\ DepthInv /\ GraphInv /\ GraphsOK(loaded) /\ EntersEmpty
  /\ ctl.do \in {"run", "defers"} \/ Unwinding

LEMMA NotRunning ==
  ASSUME ctl'.do # "run"
  PROVE  CfgStep
BY DEF CfgStep

LEMMA Unmoved ==
  ASSUME \A i \in 1..Len(frames) : i <= Len(frames') => frames'[i].pc = frames[i].pc
  PROVE  CfgStep
BY DEF CfgStep

\* The top frame goes on, those below it stay.
LEMMA OnlyTop ==
  ASSUME Len(frames) \in Nat, \A i \in 1..Len(frames) - 1 : frames'[i] = frames[i],
         NEW q, frames'[Len(frames)].pc = q,
         LET cfg == loaded[Frame.fn].cfg
         IN  IF ctl.do = "unwind" \/ Reuses THEN frames'[Len(frames)].fn = Frame.fn => q \in cfg.rpo
             ELSE \/ q = Frame.pc + 1 /\ cfg.blockAt[q] = cfg.blockAt[Frame.pc]
                  \/ q \in cfg.succ[cfg.blockAt[Frame.pc]] /\ q \in cfg.rpo
  PROVE  CfgStep
<1> PICK n : n = Len(frames)
  OBVIOUS
<1>1. \A i \in 1..n : i \in 1..n - 1 \/ i = n
  OBVIOUS
<1>2. \A i \in 1..n - 1 : frames'[i].pc = frames[i].pc
  OBVIOUS
<1>3. n = Len(frames) /\ frames[n] = Frame
  BY DEF Frame
<1> QED
  BY <1>1, <1>2, <1>3 DEF CfgStep

\* The ways on from the instruction that runs are in the graph.
LEMMA Onward ==
  ASSUME GraphHere, ctl.do = "run", NEW q,
         \/ jaiOpFallsThrough(Ins[1]) /\ q = Frame.pc + 1
         \/ opBranchIsEdge(Ins[1]) /\ q = Frame.pc + 1 + Ins[2]
  PROVE  LET cfg == loaded[Frame.fn].cfg
         IN  \/ q = Frame.pc + 1 /\ cfg.blockAt[q] = cfg.blockAt[Frame.pc]
             \/ q \in cfg.succ[cfg.blockAt[Frame.pc]] /\ q \in cfg.rpo
<1> PICK L, f, c, at : L = loaded /\ f = Frame /\ c = L[f.fn] /\ at = f.pc
  OBVIOUS
<1>1. f.fn \in DOMAIN L
  BY Here DEF GraphHere, FrameHeld
<1>2. at \in 1..Len(c.code) /\ c.depth[at] \in Nat /\ Ins = c.code[at]
  BY Instruction DEF GraphHere, GoesOn, GoesOnAt
<1>3. c.depth[at] >= 0
  BY <1>2
<1>4. WaysOn(c, at)
  BY <1>1, <1>2, <1>3 DEF GraphHere, GraphsOK
<1>5. \/ jaiOpFallsThrough(c.code[at][1]) /\ q = at + 1
      \/ opBranchIsEdge(c.code[at][1]) /\ q = branchTarget(c.code, at)
  BY <1>2 DEF branchTarget
<1> QED
  BY <1>4, <1>5 DEF WaysOn, EdgeTo

LEMMA Registered ==
  ASSUME GraphHere, ctl.do = "run", Ins[1] \in Registers
  PROVE  Frame.pc + 1 + Ins[2] \in loaded[Frame.fn].cfg.rpo
<1> PICK L, f, c, at : L = loaded /\ f = Frame /\ c = L[f.fn] /\ at = f.pc
  OBVIOUS
<1>1. f.fn \in DOMAIN L
  BY Here DEF GraphHere, FrameHeld
<1>2. at \in 1..Len(c.code) /\ c.depth[at] \in Nat /\ Ins = c.code[at]
  BY Instruction DEF GraphHere, GoesOn, GoesOnAt
<1>3. c.depth[at] >= 0
  BY <1>2
<1>4. WaysOn(c, at)
  BY <1>1, <1>2, <1>3 DEF GraphHere, GraphsOK
<1> QED
  BY <1>2, <1>4 DEF WaysOn, branchTarget

\* What a Goto leaves alone.
LEMMA GotoOnly ==
  ASSUME GraphHere, NEW pc, Goto(pc)
  PROVE  /\ Len(frames) \in Nat /\ Len(frames') = Len(frames)
         /\ \A i \in 1..Len(frames) - 1 : frames'[i] = frames[i]
         /\ frames'[Len(frames)].pc = pc /\ frames'[Len(frames)].fn = Frame.fn
         /\ \A k \in 1..Len(frames) : frames'[k].fn = frames[k].fn
<1> PICK fs, gs, n, g : fs = frames /\ gs = TopAt(fs, pc) /\ n = Len(fs) /\ g = At(fs[n], pc)
  OBVIOUS
<1>1. IsList(fs) /\ fs # <<>> /\ DOMAIN fs[Len(fs)] = FrameFields /\ n \in Nat /\ n \in 1..n
  BY Here DEF GraphHere, Frame
<1>2. /\ Len(gs) = n /\ gs[n] = g
      /\ \A i \in 1..n : i # n => gs[i] = fs[i]
  BY <1>1, TopAtFacts
<1>3. g.pc = pc /\ g.fn = fs[n].fn
  BY <1>1 DEF At, FrameFields
<1>4. frames' = gs
  BY GotoIs
<1>5. \A i \in 1..n - 1 : i \in 1..n /\ i # n
  BY <1>1
<1> QED
  BY <1>1, <1>2, <1>3, <1>4, <1>5 DEF Frame

\* An instruction goes on within its frame.
LEMMA GoesAlong ==
  ASSUME GraphHere, ctl.do = "run", ~Reuses, NEW pc, Goto(pc), UNCHANGED loaded,
         \/ ctl'.do # "run"
         \/ jaiOpFallsThrough(Ins[1]) /\ pc = Frame.pc + 1
         \/ opBranchIsEdge(Ins[1]) /\ pc = Frame.pc + 1 + Ins[2]
  PROVE  CfgStep /\ InGraph(loaded', frames', handlers)
<1>1. InGraph(loaded', frames', handlers)
  <2> PICK L, fs, gs, hs, m : L = loaded /\ fs = frames /\ gs = frames' /\ hs = handlers /\ m = Len(mem)
    OBVIOUS
  <2>1. Owned(L, fs, hs, m) /\ InGraph(L, fs, hs) /\ \A k \in 1..Len(fs) : gs[k].fn = fs[k].fn
    BY GotoOnly DEF GraphHere, DepthInv, GraphInv
  <2>2. InGraph(L, gs, hs)
    BY <2>1, GraphSame
  <2> QED
    BY <2>2
<1>2. CASE ctl'.do # "run"
  BY <1>1, <1>2, NotRunning
<1>3. CASE ctl'.do = "run"
  <2>1. LET cfg == loaded[Frame.fn].cfg
        IN  \/ pc = Frame.pc + 1 /\ cfg.blockAt[pc] = cfg.blockAt[Frame.pc]
            \/ pc \in cfg.succ[cfg.blockAt[Frame.pc]] /\ pc \in cfg.rpo
    BY <1>3, Onward
  <2>2. ctl.do # "unwind"
    OBVIOUS
  <2>3. CfgStep
    BY <2>1, <2>2, GotoOnly, OnlyTop
  <2> QED
    BY <1>1, <2>3
<1> QED
  BY <1>2, <1>3


\* An instruction that leaves the handlers and does not reuse its frame.
LEMMA Along ==
  ASSUME GraphHere, ctl.do = "run", Ins[1] # "TAIL_CALL", NEW pc, Goto(pc),
         UNCHANGED <<loaded, handlers>>,
         \/ ctl'.do # "run"
         \/ jaiOpFallsThrough(Ins[1]) /\ pc = Frame.pc + 1
         \/ opBranchIsEdge(Ins[1]) /\ pc = Frame.pc + 1 + Ins[2]
  PROVE  CfgStep /\ GraphInv'
<1>1. ~Reuses
  BY DEF Reuses, Running
<1>2. CfgStep /\ InGraph(loaded', frames', handlers)
  BY <1>1, GoesAlong
<1> QED
  BY <1>2 DEF GraphInv

LEMMA PlainGraph ==
  ASSUME GraphHere, \/ Const \/ GetGlobal \/ MatchExc \/ GetExc \/ Pop \/ Mark \/ Show
                    \/ EndFinally \/ PushDefer \/ RunDefers
  PROVE  CfgStep /\ GraphInv'
<1> PICK ins : ins = Ins
  OBVIOUS
<1>1. /\ ctl.do = "run" /\ Goto(Frame.pc + 1) /\ UNCHANGED <<loaded, handlers>>
      /\ ins[1] \in {"CONST", "GET_GLOBAL", "MATCH_EXC", "GET_EXC", "POP", "POPN", "MARK", "SHOW",
                     "END_FINALLY", "PUSH_DEFER", "RUN_DEFERS"}
  BY DEF Const, GetGlobal, MatchExc, GetExc, Pop, Mark, Show, EndFinally, PushDefer, RunDefers,
         Running, Next1, program, lists
<1>2. jaiOpFallsThrough(ins[1]) /\ ins[1] # "TAIL_CALL"
  BY <1>1 DEF jaiOpFallsThrough
<1> QED
  BY <1>1, <1>2, Along

LEMMA JumpGraph ==
  ASSUME GraphHere, Jump \/ JumpIfTrue \/ ForIter
  PROVE  CfgStep /\ GraphInv'
<1> PICK ins, pc, to : ins = Ins /\ pc = Frame.pc + 1 /\ to = Frame.pc + 1 + Ins[2]
  OBVIOUS
<1>1. /\ ctl.do = "run" /\ UNCHANGED <<loaded, handlers>>
      /\ ins[1] \in {"JUMP", "LOOP", "JUMP_IF_TRUE", "FOR_ITER"}
  BY DEF Jump, JumpIfTrue, ForIter, Running, program, lists
<1>2. opBranchIsEdge(ins[1]) /\ ins[1] # "TAIL_CALL"
  BY <1>1 DEF opBranchIsEdge, jaiOpBranchOperandAt, Registers
<1>3. CASE Goto(to)
  BY <1>1, <1>2, <1>3, Along
<1>4. CASE Goto(pc) /\ ins[1] \in {"JUMP_IF_TRUE", "FOR_ITER"}
  <2>1. jaiOpFallsThrough(ins[1])
    BY <1>4 DEF jaiOpFallsThrough
  <2> QED
    BY <1>1, <1>2, <1>4, <2>1, Along
<1>5. Jump => Goto(to)
  BY DEF Jump
<1>6. ForIter => (Goto(to) \/ Goto(pc)) /\ ins[1] = "FOR_ITER"
  BY DEF ForIter, Running, Throw, Next1
<1>7. ASSUME JumpIfTrue PROVE (Goto(to) \/ Goto(pc)) /\ ins[1] = "JUMP_IF_TRUE"
  <2>1. \/ Goto(pc + (IF Peek[2] THEN Ins[2] ELSE 0))
        \/ Goto(pc)
    BY <1>7 DEF JumpIfTrue, Throw, Next1
  <2>2. pc + 0 = pc
    <3> PICK z : z = Frame.pc
      OBVIOUS
    <3>1. z \in 1..Len(loaded[Frame.fn].code)
      BY <1>1, Instruction DEF GraphHere, GoesOn, GoesOnAt
    <3> QED
      BY <3>1
  <2>3. Goto(to) \/ Goto(pc)
    <3>1. CASE Peek[2]
      BY <2>1, <3>1
    <3>2. CASE ~Peek[2]
      BY <2>1, <2>2, <3>2
    <3> QED
      BY <3>1, <3>2
  <2> QED
    BY <1>7, <2>3 DEF JumpIfTrue, Running
<1> QED
  BY <1>3, <1>4, <1>5, <1>6, <1>7

LEMMA ThrowGraph ==
  ASSUME GraphHere, ThrowOp \/ Reraise \/ GetIter
  PROVE  CfgStep /\ GraphInv'
<1> PICK ins, pc : ins = Ins /\ pc = Frame.pc + 1
  OBVIOUS
<1>1. /\ ctl.do = "run" /\ UNCHANGED <<loaded, handlers>> /\ Goto(pc)
      /\ ins[1] \in {"THROW", "RERAISE", "GET_ITER"}
  BY DEF ThrowOp, Reraise, GetIter, Throw, Next1, Running, program, lists
<1>2. CASE ins[1] = "GET_ITER"
  <2>1. jaiOpFallsThrough(ins[1])
    BY <1>2 DEF jaiOpFallsThrough
  <2> QED
    BY <1>1, <1>2, <2>1, Along
<1>3. CASE ins[1] # "GET_ITER"
  <2>1. ctl' = [do |-> "unwind"]
    BY <1>3 DEF ThrowOp, Reraise, GetIter, Throw, Running
  <2> QED
    BY <1>1, <2>1, Along
<1> QED
  BY <1>2, <1>3

LEMMA HandlerGraph ==
  ASSUME GraphHere, PushHandler \/ PopHandler
  PROVE  CfgStep /\ GraphInv'
<1> PICK ins, pc, L, fs, gs, hs, f, n :
      /\ ins = Ins /\ pc = Frame.pc + 1 /\ L = loaded /\ fs = frames /\ gs = frames'
      /\ hs = handlers /\ f = Frame /\ n = Len(fs)
  OBVIOUS
<1>1. /\ ctl.do = "run" /\ UNCHANGED loaded /\ Goto(pc)
      /\ ins[1] \in {"PUSH_HANDLER", "PUSH_FINALLY", "POP_HANDLER"}
  BY DEF PushHandler, PopHandler, Next1, Running, program
<1>2. jaiOpFallsThrough(ins[1]) /\ ~Reuses
  BY <1>1 DEF jaiOpFallsThrough, Reuses, Running
<1>3. CfgStep /\ InGraph(L, gs, hs)
  BY <1>1, <1>2, GoesAlong
<1>4. IsList(hs) /\ Len(hs) \in Nat
  BY ListFacts DEF GraphHere, DepthInv, Owned
<1>5. InGraph(L, gs, handlers')
  <2>1. CASE PushHandler
    <3> PICK ty, x : /\ ty = IF ins[1] = "PUSH_FINALLY" THEN "finally" ELSE JAI_HANDLER_CATCH_ALL
                     /\ x = [at |-> f.pc + 1 + ins[2], type |-> ty, frame |-> n, top |-> top]
      OBVIOUS
    <3>1. handlers' = Append(hs, x) /\ ins[1] \in Registers
      BY <2>1 DEF PushHandler, Registers
    <3>2. x.at \in L[gs[x.frame].fn].cfg.rpo
      <4>1. gs[n].fn = f.fn
        BY <1>1, GotoOnly
      <4>2. f.pc + 1 + ins[2] \in L[f.fn].cfg.rpo
        BY <1>1, <3>1, Registered
      <4> QED
        BY <4>1, <4>2
    <3>3. InGraph(L, gs, Append(hs, x))
      BY ONLY <1>3, <1>4, <3>2, GraphPush
    <3> QED
      BY <3>1, <3>3
  <2>2. CASE PopHandler /\ Len(hs) > f.handlerBase
    <3> PICK b : b = Len(hs) - 1
      OBVIOUS
    <3>1. handlers' = SubSeq(hs, 1, b)
      BY <2>2 DEF PopHandler, Pred
    <3>2. b \in 0..Len(hs)
      <4> PICK k, d : k = Len(hs) /\ d = f.handlerBase
        OBVIOUS
      <4>1. d \in 0..k
        <5>1. f = fs[n] /\ n \in 1..n
          BY <1>1, Here DEF GraphHere, Frame
        <5> QED
          BY <5>1 DEF GraphHere, DepthInv, Owned
      <4>2. k \in Nat /\ k > d
        BY <1>4, <2>2
      <4>3. k - 1 \in 0..k
        BY ONLY <4>1, <4>2
      <4> QED
        BY <4>3
    <3>3. InGraph(L, gs, SubSeq(hs, 1, b))
      BY ONLY <1>3, <1>4, <3>2, GraphCut
    <3> QED
      BY <3>1, <3>3
  <2>3. CASE PopHandler /\ ~(Len(hs) > f.handlerBase)
    BY <1>3, <2>3 DEF PopHandler
  <2> QED
    BY <2>1, <2>2, <2>3
<1> QED
  BY <1>1, <1>3, <1>5 DEF GraphInv


\* An exception enters a handler of its frame: one pushed, or one of the table.
LEMMA EnterGraph ==
  ASSUME GraphHere, EnterDynamic \/ EnterStatic
  PROVE  CfgStep /\ GraphInv'
<1> PICK L, f, fs, gs, n, hs, p, b :
      /\ L = loaded /\ f = Frame /\ fs = frames /\ gs = frames' /\ n = Len(fs) /\ hs = handlers
      /\ p = prog /\ b = f.handlerBase
  OBVIOUS
<1>1. Unwinding /\ UNCHANGED loaded /\ ctl.do = "unwind"
  BY DEF EnterDynamic, EnterStatic, program, Unwinding
<1>2. /\ IsList(fs) /\ fs # <<>> /\ f = fs[n] /\ n \in 1..n
      /\ FrameHeld(L, f, Len(mem)) /\ CodeOK(p, L)
  BY <1>1, Here DEF GraphHere, Frame
<1>3. IsList(hs) /\ Len(hs) \in Nat /\ b \in 0..Len(hs) /\ InGraph(L, fs, hs)
  BY <1>2, ListFacts DEF GraphHere, DepthInv, Owned, GraphInv
<1>4. \E pc : Goto(pc) /\ InGraph(L, fs, handlers') /\ pc \in L[f.fn].cfg.rpo
  <2>1. CASE EnterDynamic
    <3> PICK D, i, x : /\ D = DynamicHandlers
                       /\ i = CHOOSE k \in DynamicHandlers : \A j \in DynamicHandlers : j <= k
                       /\ x = hs[i]
      OBVIOUS
    <3>1. D # {} /\ handlers' = SubSeq(hs, 1, i - 1) /\ Goto(x.at)
      BY <2>1 DEF EnterDynamic
    <3>2. D \in SUBSET (1..Len(hs)) /\ \A k \in D : hs[k].frame = n
      <4>1. D \subseteq b + 1..Len(hs) /\ \A k \in D : hs[k].frame = n
        BY DEF DynamicHandlers
      <4> QED
        BY <1>3, <4>1
    <3>3. i \in D
      <4>1. Greatest(D) \in D
        BY <1>3, <3>1, <3>2, GreatestIn
      <4>2. i = Greatest(DynamicHandlers)
        BY DEF Greatest
      <4> QED
        BY <4>1, <4>2
    <3>4. i \in 1..Len(hs) /\ x.frame = n
      BY <3>2, <3>3
    <3>5. x.at \in L[f.fn].cfg.rpo
      BY <1>2, <1>3, <3>4 DEF InGraph
    <3>6. i - 1 \in 0..Len(hs)
      BY <1>3, <3>4
    <3>7. InGraph(L, fs, SubSeq(hs, 1, i - 1))
      <4> PICK d : d = i - 1
        OBVIOUS
      <4>1. d \in 0..Len(hs)
        BY <3>6
      <4>2. InGraph(L, fs, SubSeq(hs, 1, d))
        BY ONLY <1>3, <4>1, GraphCut
      <4> QED
        BY <4>2
    <3> QED
      BY <3>1, <3>5, <3>7
  <2>2. CASE EnterStatic
    <3> PICK S, i, c, to : /\ S = StaticHandlers /\ i = Narrowest(S) /\ c = L[f.fn]
                           /\ to = c.exceptions[i].handler + 1
      OBVIOUS
    <3>1. S # {} /\ handlers' = SubSeq(hs, 1, b) /\ Goto(to)
      BY <2>2 DEF EnterStatic, Trimmed, Proto
    <3>2. FunctionOK(p, L, f.fn) /\ f.fn \in DOMAIN L
      BY <1>2 DEF CodeOK, Agrees, FrameHeld
    <3>3. \A k \in 1..Len(c.exceptions) :
            /\ c.exceptions[k].start \in Nat /\ c.exceptions[k].end \in Nat
            /\ c.exceptions[k].start < c.exceptions[k].end
      BY <3>2 DEF FunctionOK
    <3>4. S \subseteq 1..Len(c.exceptions)
      BY DEF StaticHandlers, Proto
    <3>5. i \in S
      <4>1. S \in SUBSET Nat
        BY <3>4
      <4>2. \A k \in S : Proto.exceptions[k].end - Proto.exceptions[k].start \in Nat
        <5>1. \A x, y \in Nat : x < y => y - x \in Nat
          OBVIOUS
        <5>2. Proto = c
          BY DEF Proto
        <5> QED
          BY <3>3, <3>4, <5>1, <5>2
      <4> QED
        BY <3>1, <4>1, <4>2, NarrowestIn
    <3>6. to \in c.cfg.rpo
      BY <3>2, <3>4, <3>5 DEF GraphHere, GraphsOK
    <3>7. InGraph(L, fs, SubSeq(hs, 1, b))
      BY ONLY <1>3, GraphCut
    <3> QED
      BY <3>1, <3>6, <3>7
  <2> QED
    BY <2>1, <2>2
<1>5. PICK pc : Goto(pc) /\ InGraph(L, fs, handlers') /\ pc \in L[f.fn].cfg.rpo
  BY <1>4
<1>6. /\ n \in Nat /\ (\A i \in 1..n - 1 : gs[i] = fs[i])
      /\ gs[n].pc = pc /\ gs[n].fn = f.fn /\ \A k \in 1..n : gs[k].fn = fs[k].fn
  BY <1>5, GotoOnly
<1>7. CfgStep
  <2>1. loaded[Frame.fn].cfg = L[f.fn].cfg
    OBVIOUS
  <2> QED
    BY <1>1, <1>5, <1>6, <2>1, OnlyTop
<1>8. InGraph(L, gs, handlers')
  <2>1. Owned(loaded', gs, handlers', Len(mem'))
    BY EnterHeld DEF GraphHere, DepthInv
  <2>2. Len(gs) = n
    BY <1>5, GotoOnly
  <2>3. \A i \in 1..Len(handlers') : handlers'[i].frame \in 1..n
    BY <2>1, <2>2 DEF Owned
  <2> QED
    BY <1>5, <1>6, <2>3 DEF InGraph
<1> QED
  BY <1>1, <1>7, <1>8 DEF GraphInv

\* A frame is pushed on what the caller leaves.
LEMMA CalledGraph ==
  ASSUME GraphHere, ctl.do = "run", ~Reuses, jaiOpFallsThrough(Ins[1]),
         UNCHANGED <<loaded, handlers>>,
         NEW g, frames' = Append(TopAt(frames, Frame.pc + 1), g)
  PROVE  CfgStep /\ GraphInv'
<1> PICK L, f, fs, gs, ts, n, hs, q, m, h :
      /\ L = loaded /\ f = Frame /\ fs = frames /\ n = Len(fs) /\ hs = handlers /\ q = f.pc + 1
      /\ ts = TopAt(fs, q) /\ gs = Append(ts, g) /\ m = Len(mem) /\ h = At(fs[n], q)
  OBVIOUS
<1>1. IsList(fs) /\ fs # <<>> /\ DOMAIN fs[Len(fs)] = FrameFields /\ n \in Nat /\ n \in 1..n /\ f = fs[n]
  BY Here DEF GraphHere, Frame
<1>2. /\ IsList(ts) /\ Len(ts) = n /\ ts[n] = h
      /\ \A i \in 1..n : i # n => ts[i] = fs[i]
  BY <1>1, TopAtFacts
<1>3. h.pc = q /\ h.fn = f.fn
  BY <1>1 DEF At, FrameFields
<1>4. \A i \in 1..n : gs[i] = ts[i]
  BY <1>2, AppendList
<1>5. /\ gs[n].pc = q /\ \A i \in 1..n : gs[i].fn = fs[i].fn
      /\ \A i \in 1..n - 1 : gs[i] = fs[i]
  <2>1. \A i \in 1..n - 1 : i \in 1..n /\ i # n
    BY <1>1
  <2> QED
    BY <1>1, <1>2, <1>3, <1>4, <2>1
<1>6. CfgStep
  <2>1. LET cfg == loaded[Frame.fn].cfg
        IN  \/ q = Frame.pc + 1 /\ cfg.blockAt[q] = cfg.blockAt[Frame.pc]
            \/ q \in cfg.succ[cfg.blockAt[Frame.pc]] /\ q \in cfg.rpo
    BY Onward
  <2>2. ctl.do # "unwind"
    OBVIOUS
  <2> QED
    <3>1. /\ Len(frames) \in Nat /\ frames'[Len(frames)].pc = q
          /\ \A i \in 1..Len(frames) - 1 : frames'[i] = frames[i]
      BY <1>1, <1>5
    <3> QED
      BY <2>1, <2>2, <3>1, OnlyTop
<1>7. InGraph(L, gs, hs)
  <2>1. Owned(L, fs, hs, m) /\ InGraph(L, fs, hs) /\ \A k \in 1..Len(fs) : gs[k].fn = fs[k].fn
    BY <1>5 DEF GraphHere, DepthInv, GraphInv
  <2> QED
    BY ONLY <2>1, GraphSame
<1> QED
  BY <1>6, <1>7 DEF GraphInv

LEMMA InvokeGraph ==
  ASSUME GraphHere, ctl.do = "run", ~Reuses, Ins[1] \in {"CALL", "TAIL_CALL"}, Invoke,
         UNCHANGED <<loaded, handlers>>
  PROVE  CfgStep /\ GraphInv'
<1>1. jaiOpFallsThrough(Ins[1])
  <2> PICK ins : ins = Ins
    OBVIOUS
  <2>1. ins[1] \in {"CALL", "TAIL_CALL"}
    OBVIOUS
  <2>2. jaiOpFallsThrough(ins[1])
    BY <2>1 DEF jaiOpFallsThrough
  <2> QED
    BY <2>2
<1>2. [frames EXCEPT ![Len(frames)].pc = @ + 1] = TopAt(frames, Frame.pc + 1)
  BY DEF TopAt, At, With, Frame
<1>3. \/ \E g : frames' = Append(TopAt(frames, Frame.pc + 1), g)
      \/ Goto(Frame.pc + 1)
  BY <1>2, Zenon DEF Invoke, EnterCall, Throw, Next1
<1>4. CASE Goto(Frame.pc + 1)
  <2>1. CfgStep /\ InGraph(loaded', frames', handlers)
    <3> PICK pc : pc = Frame.pc + 1
      OBVIOUS
    <3> QED
      BY <1>1, <1>4, GoesAlong
  <2> QED
    BY <2>1 DEF GraphInv
<1>5. CASE \E g : frames' = Append(TopAt(frames, Frame.pc + 1), g)
  BY <1>1, <1>5, CalledGraph
<1> QED
  BY <1>3, <1>4, <1>5

\* A tail call puts another function in the frame, at its first instruction.
LEMMA ReuseGraph ==
  ASSUME GraphHere, Reuses, UNCHANGED loaded, NEW fn, ReuseFrame(fn)
  PROVE  CfgStep /\ GraphInv'
<1> PICK L, f, fs, gs, n, hs, m, b, x, y :
      /\ L = loaded /\ f = Frame /\ fs = frames /\ n = Len(fs) /\ hs = handlers /\ m = Len(mem)
      /\ b = fs[n].handlerBase /\ y = [f EXCEPT !.fn = fn] /\ x = [y EXCEPT !.pc = 1]
      /\ gs = With(fs, n, x)
  OBVIOUS
<1>1. /\ IsList(fs) /\ fs # <<>> /\ DOMAIN f = FrameFields /\ n \in Nat /\ n \in 1..n /\ f = fs[n]
      /\ f.fn \in DOMAIN L
  BY Here DEF GraphHere, Frame, FrameHeld
<1>2. frames' = gs
  <2>1. frames' = [[fs EXCEPT ![n] = y] EXCEPT ![n] = [[fs EXCEPT ![n] = y][n] EXCEPT !.pc = 1]]
    BY <1>1 DEF ReuseFrame
  <2>2. DOMAIN fs = 1..n
    BY <1>1, ListFacts
  <2>3. [fs EXCEPT ![n] = y][n] = y
    BY <1>1, <2>2
  <2> QED
    BY <1>1, <2>1, <2>2, <2>3 DEF With
<1>3. Len(gs) = n /\ gs[n] = x /\ \A i \in 1..n : i # n => gs[i] = fs[i]
  BY <1>1, WithList
<1>4. x.pc = 1
  BY <1>1 DEF FrameFields
<1>5. \A i \in 1..n - 1 : gs[i] = fs[i]
  BY <1>1, <1>3
<1>6. CfgStep
  <2>1. 1 \in loaded[Frame.fn].cfg.rpo
    BY <1>1 DEF GraphHere, GraphsOK
  <2>2. n = Len(frames) /\ frames'[n].pc = 1 /\ Len(frames) \in Nat /\ \A i \in 1..Len(frames) - 1 : frames'[i] = frames[i]
    BY <1>1, <1>2, <1>3, <1>4, <1>5
  <2> QED
    BY <2>1, <2>2, OnlyTop
<1>7. handlers' = SubSeq(hs, 1, b)
  BY <1>1 DEF ReuseFrame, Trimmed
<1>8. InGraph(L, gs, SubSeq(hs, 1, b))
  <2>1. /\ Owned(L, fs, hs, m) /\ InGraph(L, fs, hs)
        /\ \A k \in 1..Len(fs) - 1 : gs[k].fn = fs[k].fn
    BY <1>5 DEF GraphHere, DepthInv, GraphInv
  <2>2. b = fs[Len(fs)].handlerBase
    OBVIOUS
  <2> QED
    BY ONLY <1>1, <2>1, <2>2, GraphLess
<1> QED
  BY <1>2, <1>6, <1>7, <1>8 DEF GraphInv

\* A frame goes, and its handlers.
LEMMA GoneGraph ==
  ASSUME GraphHere, UNCHANGED loaded, frames' = Pred(frames),
         handlers' \in {Trimmed(handlers, Frame.handlerBase), Upto(handlers, Frame.handlerBase)}
  PROVE  CfgStep /\ GraphInv'
<1> PICK L, fs, gs, n, hs, m, b :
      /\ L = loaded /\ fs = frames /\ n = Len(fs) /\ hs = handlers /\ m = Len(mem)
      /\ b = fs[n].handlerBase /\ gs = Pred(fs)
  OBVIOUS
<1>1. IsList(fs) /\ fs # <<>> /\ n \in Nat /\ n \in 1..n /\ Frame = fs[n]
  BY Here DEF GraphHere, Frame
<1>2. Len(gs) = n - 1 /\ \A i \in 1..n - 1 : gs[i] = fs[i]
  BY <1>1, PredList
<1>3. CfgStep
  <2>1. \A i \in 1..n : i <= n - 1 => i \in 1..n - 1
    BY <1>1
  <2>2. \A i \in 1..n : i <= Len(gs) => gs[i].pc = fs[i].pc
    BY <1>2, <2>1
  <2>3. \A i \in 1..Len(frames) : i <= Len(frames') => frames'[i].pc = frames[i].pc
    BY <2>2
  <2> QED
    BY <2>3, Unmoved
<1>4. Owned(L, fs, hs, m) /\ InGraph(L, fs, hs)
  BY DEF GraphHere, DepthInv, GraphInv
<1>5. handlers' = SubSeq(hs, 1, b)
  <2>1. b \in 0..Len(hs) /\ Len(hs) \in Nat
    BY <1>1, <1>4, ListFacts DEF Owned
  <2>2. b < Len(hs) \/ b = Len(hs)
    BY <2>1
  <2>3. Upto(hs, b) = SubSeq(hs, 1, b)
    BY <2>2 DEF Upto
  <2> QED
    BY <1>1, <2>3 DEF Trimmed
<1>6. InGraph(L, gs, SubSeq(hs, 1, b))
  <2>1. b = fs[Len(fs)].handlerBase /\ \A k \in 1..Len(fs) - 1 : gs[k].fn = fs[k].fn
    BY <1>2
  <2> QED
    BY ONLY <1>1, <1>4, <2>1, GraphLess
<1> QED
  BY <1>3, <1>5, <1>6 DEF GraphInv

\* Nothing moves.
LEMMA StillGraph ==
  ASSUME GraphInv, UNCHANGED <<loaded, frames, handlers>>
  PROVE  CfgStep /\ GraphInv'
<1>1. CfgStep
  BY Unmoved
<1> QED
  BY <1>1 DEF GraphInv

\* A frame has something to do with the deferred blocks while it stays: it goes
\* to its next instruction with them to run, or is where it was.
LEMMA WaitsGraph ==
  ASSUME GraphHere, UNCHANGED <<loaded, handlers>>, NEW pc, Goto(pc), ctl'.do # "run"
  PROVE  CfgStep /\ GraphInv'
<1> PICK L, fs, gs, hs, m : L = loaded /\ fs = frames /\ gs = frames' /\ hs = handlers /\ m = Len(mem)
  OBVIOUS
<1>1. Owned(L, fs, hs, m) /\ InGraph(L, fs, hs) /\ \A k \in 1..Len(fs) : gs[k].fn = fs[k].fn
  BY GotoOnly DEF GraphHere, DepthInv, GraphInv
<1>2. InGraph(L, gs, hs)
  BY ONLY <1>1, GraphSame
<1> QED
  BY <1>2, NotRunning DEF GraphInv


LEMMA CallGraph ==
  ASSUME GraphHere, Call \/ TailCall \/ Return
  PROVE  CfgStep /\ GraphInv'
<1>1. ctl.do = "run" /\ UNCHANGED loaded
  BY DEF Call, TailCall, Return, Running, program
<1>2. CASE Call
  <2> PICK ins : ins = Ins
    OBVIOUS
  <2>1. ins[1] = "CALL" /\ Invoke /\ UNCHANGED handlers
    BY <1>2 DEF Call, Running, lists
  <2>2. ~Reuses
    BY <1>1, <2>1 DEF Reuses, Running
  <2> QED
    BY <1>1, <2>1, <2>2, InvokeGraph
<1>3. CASE TailCall
  <2>1. Running("TAIL_CALL") /\ Ins[1] = "TAIL_CALL"
    BY <1>3 DEF TailCall, Running
  <2>2. CASE Peek[1] # "fn" /\ Invoke /\ UNCHANGED lists
    <3>1. ~Reuses
      BY <1>1, <2>2 DEF Reuses
    <3> QED
      BY <1>1, <2>1, <2>2, <3>1, InvokeGraph DEF lists
  <2>3. CASE Next1 /\ StartDefers("tail", Peek) /\ UNCHANGED lists
    <3>1. ctl'.do # "run" /\ UNCHANGED handlers
      BY <2>3 DEF StartDefers, lists
    <3> QED
      BY <1>1, <2>3, <3>1, WaitsGraph DEF Next1
  <2>4. CASE Peek[1] = "fn" /\ ReuseFrame(Peek[2])
    <3>1. Reuses
      BY <2>1, <2>4 DEF Reuses
    <3> QED
      BY <1>1, <2>4, <3>1, ReuseGraph
  <2> QED
    BY <1>3, <2>2, <2>3, <2>4 DEF TailCall
<1>4. CASE Return
  <2>1. CASE Next1 /\ (\E v : StartDefers("return", v)) /\ UNCHANGED lists
    <3>1. ctl'.do # "run" /\ UNCHANGED handlers
      BY <2>1 DEF StartDefers, lists
    <3> QED
      BY <1>1, <2>1, <3>1, WaitsGraph DEF Next1
  <2>2. CASE \E v : ReturnWith(v, cstack)
    BY <1>1, <2>2, GoneGraph DEF ReturnWith, LeaveFrame
  <2> QED
    BY <1>4, <2>1, <2>2 DEF Return
<1> QED
  BY <1>2, <1>3, <1>4

LEMMA DeferredGraph ==
  ASSUME GraphHere, CallDeferred \/ DefersDone \/ UnwindFrame
  PROVE  CfgStep /\ GraphInv'
<1>1. UNCHANGED loaded /\ GraphInv
  BY DEF CallDeferred, DefersDone, UnwindFrame, program, core, GraphHere
<1>2. CASE CallDeferred
  <2> PICK L, fs, hs, m : L = loaded /\ fs = frames /\ hs = handlers /\ m = Len(mem)
    OBVIOUS
  <2>1. IsList(fs) /\ Owned(L, fs, hs, m) /\ InGraph(L, fs, hs)
    BY Here DEF GraphHere, DepthInv, GraphInv
  <2>2. UNCHANGED handlers /\ \E g : frames' = Append(fs, g)
    BY <1>2 DEF CallDeferred
  <2>3. PICK g : frames' = Append(fs, g)
    BY <2>2
  <2> PICK gs : gs = Append(fs, g)
    OBVIOUS
  <2>4. \A i \in 1..Len(fs) : gs[i] = fs[i]
    BY <2>1, AppendList
  <2>5. InGraph(L, gs, hs)
    <3>1. \A k \in 1..Len(fs) : gs[k].fn = fs[k].fn
      BY <2>4
    <3> QED
      BY ONLY <2>1, <3>1, GraphSame
  <2>6. CfgStep
    <3>1. \A i \in 1..Len(frames) : i <= Len(frames') => frames'[i].pc = frames[i].pc
      BY <2>3, <2>4
    <3> QED
      BY <3>1, Unmoved
  <2> QED
    BY <1>1, <2>2, <2>3, <2>5, <2>6 DEF GraphInv
<1>3. CASE DefersDone
  <2>1. CASE frames' = Pred(frames) /\ handlers' \in {Trimmed(handlers, Frame.handlerBase), Upto(handlers, Frame.handlerBase)}
    BY <1>1, <2>1, GoneGraph
  <2>2. CASE UNCHANGED <<frames, handlers>>
    BY <1>1, <2>2, StillGraph
  <2>3. CASE cstack[Len(cstack)].then = "tail" /\ \E fn : ReuseFrame(fn)
    <3>1. Reuses
      BY <1>3, <2>3 DEF Reuses, DefersDone
    <3> QED
      BY <1>1, <2>3, <3>1, ReuseGraph
  <2>4. \/ DiscardFrame \/ UNCHANGED <<frames, mem, top, lists>>
        \/ cstack[Len(cstack)].then = "tail" /\ \E fn : ReuseFrame(fn)
        \/ \E v, cs : ReturnWith(v, cs)
    BY <1>3 DEF DefersDone
  <2> QED
    BY <2>1, <2>2, <2>3, <2>4 DEF DiscardFrame, ReturnWith, LeaveFrame, lists
<1>4. CASE UnwindFrame
  <2>1. CASE UNCHANGED <<core, lists>>
    BY <1>1, <2>1, StillGraph DEF core, lists
  <2>2. CASE DiscardFrame
    BY <1>1, <2>2, GoneGraph DEF DiscardFrame
  <2> QED
    BY <1>4, <2>1, <2>2 DEF UnwindFrame
<1> QED
  BY <1>2, <1>3, <1>4

LEMMA GraphStep ==
  ASSUME DefersInv, DepthInv, GraphInv, GraphsOK(loaded), EntersEmpty, [Next]_vars
  PROVE  (Next => CfgStep) /\ GraphInv'
<1>1. CASE \/ Const \/ GetGlobal \/ Pop \/ Mark \/ Show
           \/ Jump \/ JumpIfTrue \/ GetIter \/ ForIter
           \/ Call \/ TailCall \/ Return
           \/ ThrowOp \/ Reraise \/ PushHandler \/ PopHandler \/ EndFinally
           \/ PushDefer \/ RunDefers \/ MatchExc \/ GetExc
           \/ CallDeferred \/ DefersDone \/ EnterDynamic \/ EnterStatic \/ UnwindFrame
  <2>1. ctl.do \in {"run", "defers"} \/ Unwinding
    <3>1. CASE \/ Const \/ GetGlobal \/ Pop \/ Mark \/ Show
               \/ Jump \/ JumpIfTrue \/ GetIter \/ ForIter
               \/ Call \/ TailCall \/ Return
      BY <3>1 DEF Const, GetGlobal, Pop, Mark, Show, Jump, JumpIfTrue, GetIter, ForIter,
                  Call, TailCall, Return, Running
    <3>2. CASE \/ ThrowOp \/ Reraise \/ PushHandler \/ PopHandler \/ EndFinally
               \/ PushDefer \/ RunDefers \/ MatchExc \/ GetExc
               \/ CallDeferred \/ DefersDone \/ EnterDynamic \/ EnterStatic \/ UnwindFrame
      BY <3>2 DEF ThrowOp, Reraise, PushHandler, PopHandler, EndFinally, PushDefer, RunDefers,
                  MatchExc, GetExc, CallDeferred, DefersDone, EnterDynamic, EnterStatic,
                  UnwindFrame, Running
    <3> QED
      BY <1>1, <3>1, <3>2
  <2>2. GraphHere
    BY <2>1 DEF GraphHere
  <2> QED
    BY <1>1, <2>2, PlainGraph, JumpGraph, ThrowGraph, HandlerGraph, EnterGraph, CallGraph, DeferredGraph
<1>2. CASE NativeReturns \/ DeferredReturns \/ Escape
  <2>1. UNCHANGED <<loaded, frames, handlers>>
    BY <1>2 DEF NativeReturns, DeferredReturns, Escape, program, core, lists
  <2> QED
    BY <2>1, StillGraph
<1>3. CASE Exit
  <2>1. ctl'.do # "run" /\ handlers' = <<>>
    BY <1>3 DEF Exit
  <2>2. GraphInv'
    <3>1. Len(<<>>) = 0 /\ 1..0 = {}
      OBVIOUS
    <3> QED
      BY <2>1, <3>1 DEF GraphInv, InGraph
  <2> QED
    BY <2>1, <2>2, NotRunning
<1>4. CASE UNCHANGED vars
  <2>1. UNCHANGED <<loaded, frames, handlers>>
    BY <1>4 DEF vars, core, program, lists
  <2> QED
    BY <2>1, StillGraph
<1> QED
  BY <1>1, <1>2, <1>3, <1>4 DEF Next

\* What GraphInv needs of the code is what is asked of it.
GraphKept == CodeOK(prog, loaded) /\ GraphsOK(loaded) => GraphInv

\* FollowsCfg: for any code whose depths and exception tables are those of
\* DepthsAsVerified and whose graphs have an edge for every way on to another
\* block, control never goes where the range analysis does not walk, whatever
\* is thrown, caught, deferred, tail-called or re-entered.
THEOREM ControlFollowsGraph ==
  Spec => (CodeOK(prog, loaded) /\ GraphsOK(loaded) => FollowsCfg)
<1> DEFINE Good == CodeOK(prog, loaded) /\ GraphsOK(loaded)
<1>1. Spec => []DefersInv
  BY Structure
<1>2. Spec => []DepthKept
  BY DepthsKept
<1>3. Init => GraphKept
  <2> SUFFICES ASSUME Init PROVE GraphInv
    BY DEF GraphKept
  <2>1. handlers = <<>> /\ Len(<<>>) = 0 /\ 1..0 = {}
    BY DEF Init
  <2> QED
    BY <2>1 DEF GraphInv, InGraph
<1>4. Good /\ [Next]_vars => Good'
  BY SameProgram
<1>5. ~Good /\ [Next]_vars => ~Good'
  BY SameProgram
<1>6. DefersInv /\ DepthKept /\ GraphKept /\ [Next]_vars => GraphKept'
  BY <1>5, GraphStep, EmptyThere DEF GraphKept, DepthKept
<1>7. DefersInv /\ DepthKept /\ GraphKept /\ Good /\ [Next]_vars => [CfgStep]_vars
  BY GraphStep, EmptyThere DEF GraphKept, DepthKept
<1> HIDE DEF Good
<1>8. (CodeOK(prog, loaded) /\ GraphsOK(loaded)) <=> Good
  BY DEF Good
<1> QED
  BY <1>1, <1>2, <1>3, <1>4, <1>6, <1>7, <1>8, PTL DEF Spec, FollowsCfg
=============================================================================
