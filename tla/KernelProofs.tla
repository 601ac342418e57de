---------------------------- MODULE KernelProofs ----------------------------
(***************************************************************************)
(* Proofs about the agent's event loop (AgentKernel), the functions on its *)
(* conversation (Transcript) and a batch of its tool calls (ToolRuntime),  *)
(* for conversations and batches of any length, any tool ids and any       *)
(* limits of the configuration.                                            *)
(***************************************************************************)
EXTENDS Histories, ToolRuntime, AgentKernel, FiniteSetTheorems, WellFoundedInduction, TLAPS

-----------------------------------------------------------------------------
(* Least and greatest numbers.                                             *)

LEMMA LeastNumber ==
    ASSUME NEW T, T \subseteq Nat, T # {}
    PROVE  \E v \in T : \A u \in T : v <= u
<1> DEFINE R == {ss \in Nat \X Nat : ss[1] < ss[2]}
<1>1. IsWellFoundedOn(R, Nat)
  BY NatLessThanWellFounded DEF OpToRel
<1>2. \E v \in T : \A u \in T : ~(<<u, v>> \in R)
  <2> HIDE DEF R
  <2> QED
    BY <1>1, WFMin
<1>3. ASSUME NEW v \in T, NEW u \in T, ~(<<u, v>> \in R)
      PROVE  v <= u
  <2>1. u \in Nat /\ v \in Nat
    OBVIOUS
  <2>2. ~(u < v)
    BY <1>3, <2>1
  <2> QED
    BY <2>1, <2>2
<1> QED
  <2> HIDE DEF R
  <2> QED
    BY <1>2, <1>3

LEMMA UpTo ==
    ASSUME NEW n \in Nat, NEW G, 0 \in G, \A k \in 0..n - 1 : k \in G => k + 1 \in G
    PROVE  \A k \in 0..n : k \in G
<1> DEFINE B == {k \in 0..n : k \notin G}
<1> SUFFICES ASSUME B # {} PROVE FALSE
  OBVIOUS
<1>1. PICK k \in B : \A j \in B : k <= j
  <2>1. B \subseteq Nat
    OBVIOUS
  <2> HIDE DEF B
  <2> QED
    BY <2>1, LeastNumber
<1>2. k # 0 /\ k \in 0..n /\ k \notin G
  BY <1>1
<1>3. k - 1 \in 0..n - 1 /\ (k - 1) + 1 = k
  BY <1>2
<1>4. k - 1 \notin G
  BY <1>2, <1>3
<1>5. k - 1 \in B
  BY <1>3, <1>4
<1> QED
  BY <1>1, <1>2, <1>5

LEMMA GreatestNumber ==
    ASSUME NEW n \in Nat, NEW T, T \subseteq 0..n, T # {}
    PROVE  Max(T) \in T /\ \A u \in T : u <= Max(T)
<1> DEFINE B == {k \in Nat : \A u \in T : u <= k}
<1>1. PICK k \in B : \A j \in B : k <= j
  <2>1. n \in B /\ B \subseteq Nat
    OBVIOUS
  <2> HIDE DEF B
  <2> QED
    BY <2>1, LeastNumber
<1>2. k \in T
  <2>1. SUFFICES ASSUME k \notin T PROVE FALSE
    OBVIOUS
  <2>2. PICK u \in T : TRUE
    OBVIOUS
  <2>3. k > 0
    BY <2>1, <2>2
  <2>4. \A w \in T : w <= k - 1
    BY <2>1
  <2>5. k - 1 \in B
    BY <2>3, <2>4
  <2> QED
    BY <2>3, <2>5, <1>1
<1>3. \E x \in T : \A y \in T : x >= y
  BY <1>2
<1>4. Max(T) \in T /\ \A y \in T : Max(T) >= y
  BY <1>3 DEF Max
<1> QED
  BY <1>4

LEMMA LeastSubset ==
    ASSUME NEW S, IsFiniteSet(S), NEW Bad \in SUBSET SUBSET S, Bad # {}
    PROVE  \E T \in Bad : \A U \in Bad : U \subseteq T => U = T
<1>1. IsWellFoundedOn(StrictSubsetOrdering(S), SUBSET S)
  BY FS_StrictSubsetOrderingWellFounded, FS_FiniteSubsetsOfFinite
<1>2. PICK T \in Bad : \A U \in Bad : ~(<<U, T>> \in StrictSubsetOrdering(S))
  BY <1>1, WFMin
<1>3. ASSUME NEW U \in Bad, U \subseteq T, U # T PROVE FALSE
  BY <1>2, <1>3 DEF StrictSubsetOrdering
<1> QED
  BY <1>3

-----------------------------------------------------------------------------
(* Sanitizing is a scan.  The library's fold is a recursive function on    *)
(* the sets of positions, of which nothing is known before such a function *)
(* is shown to exist.                                                      *)

NothingYet == [out |-> <<>>, pending |-> {}, at |-> 0]

\* g[s] is what the scan of the messages of c at the places s ends with.
Scans(g, c, A) ==
    g = [s \in SUBSET A |->
            IF s = {} THEN NothingYet ELSE SanitizeStep(g[s \ {Max(s)}], c[Max(s)])]

LEMMA LastPlace ==
    ASSUME NEW c \in Seq(Message), NEW s, s \subseteq DOMAIN c, s # {}
    PROVE  Max(s) \in s /\ \A u \in s : u <= Max(s)
<1>1. Len(c) \in Nat /\ s \subseteq 0..Len(c)
  OBVIOUS
<1> QED
  BY <1>1, GreatestNumber

LEMMA PlacesFinite ==
    ASSUME NEW c \in Seq(Message), NEW s, s \subseteq DOMAIN c
    PROVE  IsFiniteSet(s)
<1>1. Len(c) \in Nat /\ s \subseteq 1..Len(c)
  OBVIOUS
<1>2. IsFiniteSet(1..Len(c))
  BY <1>1, FS_Interval
<1> QED
  BY <1>1, <1>2, FS_Subset

LEMMA ScansAgree ==
    ASSUME NEW c \in Seq(Message), NEW A, NEW B, A \subseteq DOMAIN c, NEW g, NEW h,
           Scans(g, c, A), Scans(h, c, B), NEW s, s \subseteq A, s \subseteq B
    PROVE  g[s] = h[s]
<1> DEFINE Bad == {t \in SUBSET A : t \subseteq B /\ g[t] # h[t]}
<1> SUFFICES ASSUME Bad # {} PROVE FALSE
  OBVIOUS
<1>1. PICK t \in Bad : \A u \in Bad : u \subseteq t => u = t
  <2>1. Bad \in SUBSET SUBSET A /\ IsFiniteSet(A)
    BY PlacesFinite
  <2> HIDE DEF Bad
  <2> QED
    BY <2>1, LeastSubset
<1>2. g[t] = IF t = {} THEN NothingYet ELSE SanitizeStep(g[t \ {Max(t)}], c[Max(t)])
  BY DEF Scans
<1>3. h[t] = IF t = {} THEN NothingYet ELSE SanitizeStep(h[t \ {Max(t)}], c[Max(t)])
  BY DEF Scans
<1>4. t # {}
  BY <1>2, <1>3
<1>5. Max(t) \in t
  BY <1>4, LastPlace
<1>6. g[t \ {Max(t)}] = h[t \ {Max(t)}]
  BY <1>1, <1>5
<1> QED
  BY <1>2, <1>3, <1>6

LEMMA ScansExist ==
    ASSUME NEW c \in Seq(Message)
    PROVE  \E g : Scans(g, c, DOMAIN c)
<1> DEFINE Bad == {T \in SUBSET DOMAIN c : ~ \E g : Scans(g, c, T)}
           G(T) == CHOOSE g : Scans(g, c, T)
<1> SUFFICES ASSUME Bad # {} PROVE FALSE
  OBVIOUS
<1>1. PICK T \in Bad : \A U \in Bad : U \subseteq T => U = T
  <2>1. Bad \in SUBSET SUBSET DOMAIN c /\ IsFiniteSet(DOMAIN c)
    BY PlacesFinite
  <2> HIDE DEF Bad
  <2> QED
    BY <2>1, LeastSubset
<1>2. \A U \in SUBSET T : U # T => Scans(G(U), c, U)
  BY <1>1
<1>a. T \subseteq DOMAIN c
  BY <1>1
<1> DEFINE h == [s \in SUBSET T |->
                    IF s # T THEN G(s)[s]
                    ELSE IF T = {} THEN NothingYet
                    ELSE SanitizeStep(G(T \ {Max(T)})[T \ {Max(T)}], c[Max(T)])]
<1> HIDE DEF G
<1>3. ASSUME NEW s \in SUBSET T
      PROVE  h[s] = IF s = {} THEN NothingYet ELSE SanitizeStep(h[s \ {Max(s)}], c[Max(s)])
  <2>1. CASE s = {} /\ s # T
    <3>1. G(s)[s] = NothingYet
      BY <1>2, <2>1 DEF Scans
    <3> QED
      BY <2>1, <3>1
  <2>2. CASE s = {} /\ s = T
    BY <2>2
  <2>3. CASE s # {} /\ s = T
    <3>1. Max(s) \in s
      BY <2>3, <1>a, LastPlace
    <3> QED
      BY <2>3, <3>1
  <2>4. CASE s # {} /\ s # T
    <3> DEFINE r == s \ {Max(s)}
    <3>1. Max(s) \in s
      BY <2>4, <1>a, LastPlace
    <3>2. r \in SUBSET T /\ r # T /\ r \subseteq s
      BY <3>1
    <3>3. G(s)[s] = SanitizeStep(G(s)[r], c[Max(s)])
      BY <1>2, <2>4 DEF Scans
    <3>4. G(s)[r] = G(r)[r]
      <4>1. Scans(G(s), c, s) /\ Scans(G(r), c, r) /\ s \subseteq DOMAIN c /\ r \subseteq s
            /\ r \subseteq r /\ c \in Seq(Message)
        BY <1>2, <1>a, <2>4, <3>2
      <4> HIDE DEF h, r, Bad
      <4> QED
        BY ONLY <4>1, ScansAgree
    <3>5. h[s] = G(s)[s] /\ h[r] = G(r)[r]
      BY <2>4, <3>2
    <3> HIDE DEF h, r
    <3>6. h[s] = SanitizeStep(h[r], c[Max(s)])
      BY <3>3, <3>4, <3>5
    <3> QED
      BY <2>4, <3>6 DEF r
  <2> QED
    BY <2>1, <2>2, <2>3, <2>4
<1>4. Scans(h, c, T)
  <2>1. h = [s \in SUBSET T |-> h[s]]
    OBVIOUS
  <2> HIDE DEF h
  <2> QED
    BY <1>3, <2>1 DEF Scans
<1> QED
  BY <1>1, <1>4

\* What the end of the scan makes of the state it is in.
Settle(acc) == IF acc.pending # {} THEN RemoveAt(acc.out, acc.at) ELSE acc.out

\* Message by message, as the loop of sanitize_conversation_messages runs.
LEMMA SanitizeScans ==
    ASSUME NEW c \in Seq(Message)
    PROVE  \E f : /\ f[0] = NothingYet
                  /\ \A k \in 0..Len(c) - 1 : f[k + 1] = SanitizeStep(f[k], c[k + 1])
                  /\ Sanitize(c) = Settle(f[Len(c)])
<1> DEFINE g == CHOOSE h : Scans(h, c, DOMAIN c)
           f == [k \in 0..Len(c) |-> g[1..k]]
<1>1. Scans(g, c, DOMAIN c)
  BY ScansExist
<1>2. Sanitize(c) = Settle(g[DOMAIN c])
  BY DEF Sanitize, FoldLeft, MapThenFoldSet, Scans, Settle, NothingYet
<1> HIDE DEF g
<1>a. DOMAIN c = 1..Len(c) /\ Len(c) \in Nat
  OBVIOUS
<1>3. f[0] = NothingYet
  <2>1. 1..0 = {} /\ 0 \in 0..Len(c)
    BY <1>a
  <2>2. g[{}] = NothingYet
    BY <1>1 DEF Scans
  <2> QED
    BY <2>1, <2>2
<1>4. ASSUME NEW k \in 0..Len(c) - 1
      PROVE  f[k + 1] = SanitizeStep(f[k], c[k + 1])
  <2> DEFINE s == 1..(k + 1)
  <2>0. k \in Nat /\ k + 1 <= Len(c)
    BY <1>a
  <2>1. s \in SUBSET DOMAIN c /\ s # {} /\ k + 1 \in s /\ k + 1 \in Nat
    <3>1. s \subseteq 1..Len(c) /\ k + 1 \in s
      BY <2>0, <1>a
    <3> HIDE DEF s
    <3> QED
      BY <3>1, <2>0, <1>a
  <2>2. Max(s) \in s /\ \A u \in s : u <= Max(s)
    BY <2>1, LastPlace
  <2>3. Max(s) = k + 1
    BY <2>1, <2>2
  <2>4. s \ {k + 1} = 1..k
    <3>1. \A u : u \in 1..(k + 1) /\ u # k + 1 <=> u \in 1..k
      BY <1>a
    <3> QED
      BY <3>1
  <2>5. g[s] = SanitizeStep(g[s \ {Max(s)}], c[Max(s)])
    BY <1>1, <2>1 DEF Scans
  <2>6. f[k + 1] = g[s] /\ f[k] = g[1..k]
    BY <1>a
  <2> HIDE DEF s, f
  <2> QED
    BY <2>3, <2>4, <2>5, <2>6
<1>5. f[Len(c)] = g[DOMAIN c]
  BY <1>a
<1> HIDE DEF f
<1> QED
  BY <1>2, <1>3, <1>4, <1>5

-----------------------------------------------------------------------------
(* What sanitizing leaves is paired.                                       *)

\* A conversation whose calls are all answered; `strict` asks that no result
\* answers a call that was not made.
Paired(s, strict) ==
    /\ s \in Seq(Written) /\ Covered(s) /\ (strict => WellPaired(s))
    /\ \A i \in 1..Len(s) : s[i].role = "assistant" => ~IsEffectivelyEmpty(s[i])

LEMMA WrittenFields ==
    ASSUME NEW m \in Written
    PROVE  /\ m \in Message /\ m.role \in {"user", "assistant"} /\ m.text \in BOOLEAN
           /\ m.role = "assistant" => m.results = {}
           /\ m.role = "user" => m.uses = {}
           /\ m.uses # {} => m.role = "assistant"
           /\ m.results # {} => m.role = "user"
BY DEF Written, Message

LEMMA AppendShape ==
    ASSUME NEW S, NEW s \in Seq(S), NEW m \in S
    PROVE  /\ Append(s, m) \in Seq(S) /\ Len(Append(s, m)) = Len(s) + 1
           /\ Len(s) \in Nat /\ Append(s, m)[Len(s) + 1] = m
           /\ \A i \in 1..Len(s) : Append(s, m)[i] = s[i] /\ s[i] \in S
OBVIOUS

LEMMA PairedNil == ASSUME NEW x PROVE Paired(<<>>, x)
BY DEF Paired, Covered, WellPaired

LEMMA PairedAppend ==
    ASSUME NEW x, NEW s, Paired(s, x), NEW m \in Written, m.uses = {}, m.results = {},
           m.role = "assistant" => ~IsEffectivelyEmpty(m)
    PROVE  Paired(Append(s, m), x)
<1> DEFINE t == Append(s, m)
<1>1. /\ t \in Seq(Written) /\ Len(t) = Len(s) + 1 /\ Len(s) \in Nat /\ t[Len(s) + 1] = m
      /\ \A i \in 1..Len(s) : t[i] = s[i] /\ s[i] \in Written
  BY AppendShape DEF Paired
<1> HIDE DEF t
<1>2. Covered(t)
  <2> SUFFICES ASSUME NEW i \in 1..Len(t)
               PROVE  /\ t[i].uses # {} =>
                            /\ i < Len(t) /\ t[i + 1].role = "user"
                            /\ t[i].uses \subseteq t[i + 1].results
                      /\ t[i].results # {} => i > 1 /\ t[i - 1].uses # {}
    BY DEF Covered
  <2>1. CASE i = Len(s) + 1
    BY <1>1, <2>1
  <2>2. CASE i \in 1..Len(s)
    <3>1. /\ s[i].uses # {} =>
                  /\ i < Len(s) /\ s[i + 1].role = "user"
                  /\ s[i].uses \subseteq s[i + 1].results
          /\ s[i].results # {} => i > 1 /\ s[i - 1].uses # {}
      BY <2>2 DEF Paired, Covered
    <3>2. t[i] = s[i] /\ (i < Len(s) => t[i + 1] = s[i + 1]) /\ (i > 1 => t[i - 1] = s[i - 1])
      BY <1>1, <2>2
    <3> QED
      BY <3>1, <3>2, <2>2, <1>1
  <2> QED
    BY <1>1, <2>1, <2>2
<1>3. x => WellPaired(t)
  <2> SUFFICES ASSUME x, NEW i \in 2..Len(t) PROVE t[i].results \subseteq t[i - 1].uses
    BY <1>2 DEF WellPaired
  <2>1. CASE i = Len(s) + 1
    BY <1>1, <2>1
  <2>2. CASE i \in 2..Len(s)
    <3>1. s[i].results \subseteq s[i - 1].uses
      BY <2>2 DEF Paired, WellPaired
    <3> QED
      BY <3>1, <2>2, <1>1
  <2> QED
    BY <1>1, <2>1, <2>2
<1>4. \A i \in 1..Len(t) : t[i].role = "assistant" => ~IsEffectivelyEmpty(t[i])
  <2>1. \A i \in 1..Len(t) : i = Len(s) + 1 \/ i \in 1..Len(s)
    BY <1>1
  <2> QED
    BY <2>1, <1>1 DEF Paired
<1> QED
  BY <1>1, <1>2, <1>3, <1>4 DEF Paired, t

LEMMA PairedAnswer ==
    ASSUME NEW x, NEW s, Paired(s, x), NEW m \in Written, NEW n \in Written,
           m.uses # {}, n.role = "user", m.uses \subseteq n.results,
           x => n.results \subseteq m.uses
    PROVE  Paired(Append(Append(s, m), n), x)
<1> DEFINE u == Append(s, m)
           t == Append(u, n)
<1>1. /\ u \in Seq(Written) /\ Len(u) = Len(s) + 1 /\ Len(s) \in Nat /\ u[Len(s) + 1] = m
      /\ \A i \in 1..Len(s) : u[i] = s[i] /\ s[i] \in Written
  BY AppendShape DEF Paired
<1> HIDE DEF u
<1>2. /\ t \in Seq(Written) /\ Len(t) = Len(u) + 1 /\ t[Len(u) + 1] = n
      /\ \A i \in 1..Len(u) : t[i] = u[i]
  BY <1>1, AppendShape
<1> HIDE DEF t
<1>3. /\ Len(t) = Len(s) + 2 /\ t[Len(s) + 1] = m /\ t[Len(s) + 2] = n
      /\ \A i \in 1..Len(s) : t[i] = s[i]
  BY <1>1, <1>2
<1>m. m.role = "assistant" /\ m.results = {} /\ n.uses = {} /\ ~IsEffectivelyEmpty(m)
  BY WrittenFields DEF IsEffectivelyEmpty
<1>4. Covered(t)
  <2> SUFFICES ASSUME NEW i \in 1..Len(t)
               PROVE  /\ t[i].uses # {} =>
                            /\ i < Len(t) /\ t[i + 1].role = "user"
                            /\ t[i].uses \subseteq t[i + 1].results
                      /\ t[i].results # {} => i > 1 /\ t[i - 1].uses # {}
    BY DEF Covered
  <2>1. CASE i = Len(s) + 1
    BY <1>1, <1>3, <1>m, <2>1
  <2>3. CASE i = Len(s) + 2
    BY <1>1, <1>3, <1>m, <2>3
  <2>2. CASE i \in 1..Len(s)
    <3>1. /\ s[i].uses # {} =>
                  /\ i < Len(s) /\ s[i + 1].role = "user"
                  /\ s[i].uses \subseteq s[i + 1].results
          /\ s[i].results # {} => i > 1 /\ s[i - 1].uses # {}
      BY <2>2 DEF Paired, Covered
    <3>2. t[i] = s[i] /\ (i < Len(s) => t[i + 1] = s[i + 1]) /\ (i > 1 => t[i - 1] = s[i - 1])
      BY <1>1, <1>3, <2>2
    <3> QED
      BY <3>1, <3>2, <2>2, <1>1, <1>3
  <2> QED
    BY <1>1, <1>3, <2>1, <2>2, <2>3
<1>5. x => WellPaired(t)
  <2> SUFFICES ASSUME x, NEW i \in 2..Len(t) PROVE t[i].results \subseteq t[i - 1].uses
    BY <1>4 DEF WellPaired
  <2>1. CASE i = Len(s) + 1
    BY <1>1, <1>3, <1>m, <2>1
  <2>3. CASE i = Len(s) + 2
    BY <1>1, <1>3, <2>3
  <2>2. CASE i \in 2..Len(s)
    <3>1. s[i].results \subseteq s[i - 1].uses
      BY <2>2 DEF Paired, WellPaired
    <3> QED
      BY <3>1, <2>2, <1>1, <1>3
  <2> QED
    BY <1>1, <1>3, <2>1, <2>2, <2>3
<1>6. \A i \in 1..Len(t) : t[i].role = "assistant" => ~IsEffectivelyEmpty(t[i])
  <2>1. \A i \in 1..Len(t) : i = Len(s) + 1 \/ i = Len(s) + 2 \/ i \in 1..Len(s)
    BY <1>1, <1>3
  <2> QED
    BY <2>1, <1>1, <1>3, <1>m DEF Paired
<1> QED
  BY <1>2, <1>4, <1>5, <1>6 DEF Paired, t, u

\* The calls that wait are those of the last message kept, and that one is
\* taken back when they are not answered.
LEMMA TakenBack ==
    ASSUME NEW s \in Seq(Written), NEW m \in Written
    PROVE  RemoveAt(Append(s, m), Len(s) + 1) = s
BY DEF RemoveAt

\* The state of the scan of c after k messages.
ScanState(acc, k, c, strict) ==
    \/ acc.pending = {} /\ Paired(acc.out, strict)
    \/ /\ acc.pending # {}
       /\ strict => k > 0 /\ c[k].uses = acc.pending
       /\ \E s, m : /\ Paired(s, strict) /\ m \in Written /\ m.uses = acc.pending
                    /\ acc.out = Append(s, m) /\ acc.at = Len(s) + 1

LEMMA ScanStep ==
    ASSUME NEW c \in Seq(Written), NEW strict \in BOOLEAN, strict => Tidy(c),
           NEW k \in 0..Len(c) - 1, NEW acc, ScanState(acc, k, c, strict)
    PROVE  ScanState(SanitizeStep(acc, c[k + 1]), k + 1, c, strict)
<1>0. k \in Nat /\ Len(c) \in Nat /\ k + 1 \in 1..Len(c)
  OBVIOUS
<1> DEFINE m == c[k + 1]
<1>1. m \in Written
  BY <1>0
<1>2. strict /\ m.role = "assistant" => ~IsEffectivelyEmpty(m)
  BY <1>0 DEF Tidy
<1>3. strict /\ acc.pending # {} => m.results \subseteq acc.pending
  <2> SUFFICES ASSUME strict, acc.pending # {} PROVE m.results \subseteq acc.pending
    OBVIOUS
  <2>1. k > 0 /\ c[k].uses = acc.pending
    BY DEF ScanState
  <2>2. c[(k + 1) - 1].uses # {} => c[k + 1].results \subseteq c[(k + 1) - 1].uses
    BY <2>1, <1>0 DEF Tidy
  <2>3. (k + 1) - 1 = k
    BY <1>0
  <2> QED
    BY <2>1, <2>2, <2>3
<1>4. m.uses = c[k + 1].uses /\ k + 1 > 0 /\ (k + 1) \in Nat
  BY <1>0
<1> HIDE DEF m
<1> DEFINE covers == acc.pending # {} /\ m.role = "user" /\ acc.pending \subseteq m.results
           out == IF acc.pending # {} /\ ~covers THEN RemoveAt(acc.out, acc.at) ELSE acc.out
           orphaned == m.role = "user" /\ m.results # {} /\ ~covers
           kept == IF orphaned THEN [m EXCEPT !.results = {}] ELSE m
           stay == m.role = "assistant" /\ IsEffectivelyEmpty(m)
           gone == orphaned /\ IsEffectivelyEmpty(kept)
           new == [out |-> Append(out, kept),
                   pending |-> IF m.role = "assistant" THEN m.uses ELSE {},
                   at |-> Len(out) + 1]
<1>5. SanitizeStep(acc, m) = IF stay THEN acc
                             ELSE IF gone THEN [out |-> out, pending |-> {}, at |-> 0] ELSE new
  BY DEF SanitizeStep
<1>6. CASE stay
  <2>1. ~strict
    BY <1>6, <1>2
  <2>2. ScanState(acc, k + 1, c, strict)
    BY <2>1 DEF ScanState
  <2> QED
    BY <1>5, <1>6, <2>2 DEF m
<1>7. ~covers => Paired(out, strict)
  <2> SUFFICES ASSUME ~covers PROVE Paired(out, strict)
    OBVIOUS
  <2>1. CASE acc.pending = {}
    BY <2>1 DEF ScanState
  <2>2. CASE acc.pending # {}
    <3>1. PICK s, q : /\ Paired(s, strict) /\ q \in Written /\ acc.out = Append(s, q)
                      /\ acc.at = Len(s) + 1
      BY <2>2 DEF ScanState
    <3>2. out = s
      BY <2>2, <3>1, TakenBack DEF Paired
    <3> QED
      BY <3>1, <3>2
  <2> QED
    BY <2>1, <2>2
<1>8. CASE ~stay /\ covers
  <2>1. ~orphaned /\ out = acc.out /\ kept = m /\ ~gone
    BY <1>8
  <2>2. new.pending = {} /\ new.out = Append(acc.out, m)
    BY <1>8, <2>1
  <2>3. PICK s, q : /\ Paired(s, strict) /\ q \in Written /\ q.uses = acc.pending
                    /\ acc.out = Append(s, q)
    BY <1>8 DEF ScanState
  <2>4. Paired(Append(Append(s, q), m), strict)
    <3>1. q.uses # {} /\ m.role = "user" /\ q.uses \subseteq m.results
          /\ (strict => m.results \subseteq q.uses)
      BY <1>8, <1>3, <2>3
    <3> QED
      BY <3>1, <1>1, <2>3, PairedAnswer
  <2>5. ScanState(new, k + 1, c, strict)
    <3> HIDE DEF new
    <3> QED
      BY <2>2, <2>3, <2>4 DEF ScanState
  <2> QED
    BY <1>5, <1>8, <2>1, <2>5 DEF m
<1>9. CASE ~stay /\ ~covers /\ gone
  <2>1. ScanState([out |-> out, pending |-> {}, at |-> 0], k + 1, c, strict)
    <3> HIDE DEF out
    <3> QED
      BY <1>9, <1>7 DEF ScanState
  <2> QED
    BY <1>5, <1>9, <2>1 DEF m
<1>10. CASE ~stay /\ ~covers /\ ~gone
  <2>1. /\ kept \in Written /\ kept.results = {} /\ kept.role = m.role /\ kept.uses = m.uses
        /\ kept.role = "assistant" => ~IsEffectivelyEmpty(kept)
    <3>1. CASE orphaned
      <4>1. kept = [m EXCEPT !.results = {}]
        BY <3>1
      <4> HIDE DEF kept
      <4> QED
        BY <4>1, <3>1, <1>1 DEF Written, Message
    <3>2. CASE ~orphaned
      <4>1. kept = m
        BY <3>2
      <4>2. m.results = {}
        BY <1>10, <3>2, <1>1, WrittenFields
      <4> QED
        BY <4>1, <4>2, <1>10, <1>1
    <3> QED
      BY <3>1, <3>2
  <2>2. new.pending = m.uses /\ new.out = Append(out, kept) /\ new.at = Len(out) + 1
    <3>1. m.role # "assistant" => m.uses = {}
      BY <1>1, WrittenFields
    <3> HIDE DEF out, kept
    <3> QED
      BY <3>1
  <2>3. Paired(out, strict)
    BY <1>10, <1>7
  <2> HIDE DEF out, kept, new, covers, orphaned
  <2>4. ASSUME m.uses = {} PROVE ScanState(new, k + 1, c, strict)
    <3>1. Paired(new.out, strict)
      BY <2>1, <2>2, <2>3, <2>4, PairedAppend
    <3> QED
      BY <3>1, <2>2, <2>4 DEF ScanState
  <2>5. ASSUME m.uses # {} PROVE ScanState(new, k + 1, c, strict)
    <3>1. new.pending # {} /\ (strict => k + 1 > 0 /\ c[k + 1].uses = new.pending)
      BY <2>2, <2>5, <1>4
    <3>2. /\ Paired(out, strict) /\ kept \in Written /\ kept.uses = new.pending
          /\ new.out = Append(out, kept) /\ new.at = Len(out) + 1
      BY <2>1, <2>2, <2>3
    <3> QED
      BY <3>1, <3>2 DEF ScanState
  <2>6. ScanState(new, k + 1, c, strict)
    BY <2>4, <2>5
  <2> QED
    BY <1>5, <1>10, <2>6 DEF m
<1> QED
  BY <1>6, <1>8, <1>9, <1>10

LEMMA ScanHolds ==
    ASSUME NEW c \in Seq(Written), NEW strict \in BOOLEAN, strict => Tidy(c),
           NEW f, f[0] = NothingYet,
           \A k \in 0..Len(c) - 1 : f[k + 1] = SanitizeStep(f[k], c[k + 1])
    PROVE  ScanState(f[Len(c)], Len(c), c, strict)
<1> DEFINE Bad == {k \in 0..Len(c) : ~ScanState(f[k], k, c, strict)}
<1>a. Len(c) \in Nat
  OBVIOUS
<1> SUFFICES ASSUME Bad # {} PROVE FALSE
  BY <1>a
<1>1. PICK k \in Bad : \A j \in Bad : k <= j
  <2>1. Bad \subseteq Nat
    BY <1>a
  <2> HIDE DEF Bad
  <2> QED
    BY <2>1, LeastNumber
<1>2. k # 0
  <2>1. ScanState(NothingYet, 0, c, strict)
    BY PairedNil DEF ScanState, NothingYet
  <2> QED
    BY <2>1
<1>3. k - 1 \in 0..Len(c) - 1 /\ (k - 1) + 1 = k /\ k - 1 \notin Bad
  BY <1>1, <1>2, <1>a
<1>4. ScanState(f[k - 1], k - 1, c, strict)
  BY <1>3, <1>a
<1>5. ScanState(SanitizeStep(f[k - 1], c[(k - 1) + 1]), (k - 1) + 1, c, strict)
  <2> HIDE DEF Bad
  <2> QED
    BY <1>3, <1>4, ScanStep
<1>6. f[(k - 1) + 1] = SanitizeStep(f[k - 1], c[(k - 1) + 1])
  BY <1>3
<1> QED
  BY <1>3, <1>5, <1>6

LEMMA WrittenMessages == ASSUME NEW c \in Seq(Written) PROVE c \in Seq(Message)
BY DEF Written

\* What sanitize_conversation_messages returns is paired, for a history of any
\* length in any disorder; exactly, if the history is tidy.
LEMMA SanitizePairs ==
    ASSUME NEW c \in Seq(Written), NEW strict \in BOOLEAN, strict => Tidy(c)
    PROVE  Paired(Sanitize(c), strict)
<1>1. PICK f : /\ f[0] = NothingYet
               /\ \A k \in 0..Len(c) - 1 : f[k + 1] = SanitizeStep(f[k], c[k + 1])
               /\ Sanitize(c) = Settle(f[Len(c)])
  BY WrittenMessages, SanitizeScans
<1>2. ScanState(f[Len(c)], Len(c), c, strict)
  BY <1>1, ScanHolds
<1> DEFINE acc == f[Len(c)]
<1> HIDE DEF acc
<1>3. CASE acc.pending = {}
  BY <1>1, <1>2, <1>3 DEF acc, ScanState, Settle
<1>4. CASE acc.pending # {}
  <2>1. PICK s, q : /\ Paired(s, strict) /\ q \in Written /\ acc.out = Append(s, q)
                    /\ acc.at = Len(s) + 1
    BY <1>2, <1>4 DEF ScanState, acc
  <2>2. RemoveAt(acc.out, acc.at) = s
    BY <2>1, TakenBack DEF Paired
  <2>3. Sanitize(c) = RemoveAt(acc.out, acc.at)
    BY <1>1, <1>4 DEF Settle, acc
  <2> QED
    BY <2>1, <2>2, <2>3
<1> QED
  BY <1>3, <1>4

\* What is paired already stays as it is.
Kept(acc, k, c) ==
    /\ acc.out = SubSeq(c, 1, k)
    /\ acc.pending = IF k = 0 THEN {} ELSE c[k].uses

LEMMA PrefixGrows ==
    ASSUME NEW c \in Seq(Written), NEW k \in 0..Len(c) - 1
    PROVE  Append(SubSeq(c, 1, k), c[k + 1]) = SubSeq(c, 1, k + 1)
OBVIOUS

LEMMA KeptStep ==
    ASSUME NEW c, Paired(c, FALSE), NEW k \in 0..Len(c) - 1, NEW acc, Kept(acc, k, c)
    PROVE  Kept(SanitizeStep(acc, c[k + 1]), k + 1, c)
<1>0. c \in Seq(Written) /\ k \in Nat /\ Len(c) \in Nat /\ k + 1 \in 1..Len(c)
  BY DEF Paired
<1> DEFINE m == c[k + 1]
<1>1. m \in Written /\ ~(m.role = "assistant" /\ IsEffectivelyEmpty(m))
  BY <1>0 DEF Paired
<1>2. acc.pending # {} => m.role = "user" /\ acc.pending \subseteq m.results
  <2> SUFFICES ASSUME acc.pending # {} PROVE m.role = "user" /\ acc.pending \subseteq m.results
    OBVIOUS
  <2>1. k \in 1..Len(c) /\ acc.pending = c[k].uses
    BY <1>0 DEF Kept
  <2> QED
    BY <2>1, <1>0 DEF Paired, Covered
<1>3. acc.pending = {} => m.results = {}
  <2> SUFFICES ASSUME m.results # {} PROVE acc.pending # {}
    OBVIOUS
  <2>1. k + 1 > 1 /\ c[(k + 1) - 1].uses # {}
    BY <1>0 DEF Paired, Covered
  <2>2. (k + 1) - 1 = k /\ k # 0
    BY <1>0, <2>1
  <2> QED
    BY <2>1, <2>2 DEF Kept
<1>4. m.role # "assistant" => m.uses = {}
  BY <1>1, WrittenFields
<1>5. Append(SubSeq(c, 1, k), m) = SubSeq(c, 1, k + 1) /\ k + 1 # 0 /\ m.uses = c[k + 1].uses
  BY <1>0, PrefixGrows
<1> HIDE DEF m
<1> DEFINE new == [out |-> Append(acc.out, m),
                   pending |-> IF m.role = "assistant" THEN m.uses ELSE {},
                   at |-> Len(acc.out) + 1]
<1>6. SanitizeStep(acc, m) = new
  BY <1>1, <1>2, <1>3 DEF SanitizeStep
<1>b. new.out = Append(acc.out, m) /\ new.pending = m.uses
  BY <1>4
<1> HIDE DEF new
<1>7. Kept(SanitizeStep(acc, m), k + 1, c)
  BY <1>5, <1>6, <1>b DEF Kept
<1> QED
  BY <1>7 DEF m

\* Sanitizing what is paired changes nothing.
LEMMA SanitizeKeeps ==
    ASSUME NEW c, Paired(c, FALSE)
    PROVE  Sanitize(c) = c
<1>a. c \in Seq(Written) /\ c \in Seq(Message) /\ Len(c) \in Nat
  BY WrittenMessages DEF Paired
<1>1. PICK f : /\ f[0] = NothingYet
               /\ \A k \in 0..Len(c) - 1 : f[k + 1] = SanitizeStep(f[k], c[k + 1])
               /\ Sanitize(c) = Settle(f[Len(c)])
  BY <1>a, SanitizeScans
<1> DEFINE Bad == {k \in 0..Len(c) : ~Kept(f[k], k, c)}
<1>2. Bad = {}
  <2> SUFFICES ASSUME Bad # {} PROVE FALSE
    OBVIOUS
  <2>1. PICK k \in Bad : \A j \in Bad : k <= j
    <3>1. Bad \subseteq Nat
      BY <1>a
    <3> HIDE DEF Bad
    <3> QED
      BY <3>1, LeastNumber
  <2>2. k # 0
    <3>1. SubSeq(c, 1, 0) = <<>>
      BY <1>a
    <3>2. Kept(NothingYet, 0, c)
      BY <3>1 DEF Kept, NothingYet
    <3> QED
      BY <3>2, <1>1
  <2>3. k - 1 \in 0..Len(c) - 1 /\ (k - 1) + 1 = k /\ k - 1 \notin Bad
    BY <2>1, <2>2, <1>a
  <2>4. Kept(f[k - 1], k - 1, c)
    BY <2>3, <1>a
  <2>5. Kept(SanitizeStep(f[k - 1], c[(k - 1) + 1]), (k - 1) + 1, c)
    <3> HIDE DEF Bad
    <3> QED
      BY <2>3, <2>4, KeptStep
  <2>6. f[(k - 1) + 1] = SanitizeStep(f[k - 1], c[(k - 1) + 1])
    BY <2>3, <1>1
  <2> QED
    BY <2>3, <2>5, <2>6
<1>3. Kept(f[Len(c)], Len(c), c)
  BY <1>2, <1>a
<1>4. f[Len(c)].pending = {}
  <2>1. Len(c) # 0 => c[Len(c)].uses = {}
    BY <1>a DEF Paired, Covered
  <2> QED
    BY <1>3, <2>1 DEF Kept
<1>5. SubSeq(c, 1, Len(c)) = c
  BY <1>a
<1> QED
  BY <1>1, <1>3, <1>4, <1>5 DEF Settle, Kept

LEMMA PairedLoosely == ASSUME NEW c, NEW x, Paired(c, x) PROVE Paired(c, FALSE)
BY DEF Paired

\* Whatever history was restored or cut off, in any order and of any length,
\* sanitize_conversation_messages returns one whose calls are all answered by
\* the next message and whose results follow calls; and sanitizing again, as
\* submit, save and load all do, changes nothing.
THEOREM SanitizeRepairsHistories ==
    \A c \in Seq(Written) : /\ Covered(Sanitize(c))
                            /\ Sanitize(Sanitize(c)) = Sanitize(c)
<1> SUFFICES ASSUME NEW c \in Seq(Written)
             PROVE  Covered(Sanitize(c)) /\ Sanitize(Sanitize(c)) = Sanitize(c)
  OBVIOUS
<1>1. Paired(Sanitize(c), FALSE)
  BY SanitizePairs
<1> QED
  BY <1>1, SanitizeKeeps DEF Paired

-----------------------------------------------------------------------------
(* Compaction keeps pairs together.                                        *)

LEMMA PairedIsTidy ==
    ASSUME NEW c, Paired(c, TRUE)
    PROVE  /\ c \in Seq(Written) /\ Tidy(c) /\ WellPaired(c) /\ Len(c) \in Nat
           /\ Len(c) > 0 => c[1].results = {} /\ c[Len(c)].uses = {}
<1>1. c \in Seq(Written) /\ WellPaired(c) /\ Len(c) \in Nat
  BY DEF Paired
<1>2. Tidy(c)
  BY <1>1 DEF Paired, Tidy, WellPaired
<1>3. Len(c) > 0 => c[1].results = {} /\ c[Len(c)].uses = {}
  BY <1>1 DEF WellPaired, Covered
<1> QED
  BY <1>1, <1>2, <1>3

LEMMA PairedEnds ==
    ASSUME NEW c, NEW x \in BOOLEAN, Paired(c, x)
    PROVE  /\ c \in Seq(Written) /\ Covered(c) /\ (x => WellPaired(c)) /\ Len(c) \in Nat
           /\ Len(c) > 0 => c[1].results = {} /\ c[Len(c)].uses = {}
<1>1. c \in Seq(Written) /\ Covered(c) /\ (x => WellPaired(c)) /\ Len(c) \in Nat
  BY DEF Paired
<1>2. Len(c) > 0 => c[1].results = {} /\ c[Len(c)].uses = {}
  BY <1>1 DEF Covered
<1> QED
  BY <1>1, <1>2

LEMMA SanitizePairsTidy ==
    ASSUME NEW c \in Seq(Written), Tidy(c)
    PROVE  Paired(Sanitize(c), TRUE)
BY SanitizePairs

LEMMA PieceShape ==
    ASSUME NEW c \in Seq(Written), NEW i \in 1..Len(c) + 1, NEW n \in i - 1..Len(c)
    PROVE  /\ SubSeq(c, i, n) \in Seq(Written) /\ Len(SubSeq(c, i, n)) = n - i + 1
           /\ n - i + 1 \in Nat
           /\ \A j \in 1..n - i + 1 : SubSeq(c, i, n)[j] = c[i + j - 1] /\ i + j - 1 \in 1..Len(c)
<1>1. i \in Int /\ n \in Int /\ Len(c) \in Nat /\ 1 <= i /\ i - 1 <= n /\ n <= Len(c)
  OBVIOUS
<1>2. \A j \in 1..n - i + 1 : i + j - 1 \in 1..Len(c) /\ i + j - 1 \in i..n
  BY <1>1
<1>3. SubSeq(c, i, n) \in Seq(Written)
  BY <1>1
<1>4. Len(SubSeq(c, i, n)) = n - i + 1
  BY <1>1
<1>5. \A j \in 1..n - i + 1 : SubSeq(c, i, n)[j] = c[i + j - 1]
  BY <1>1
<1> QED
  BY <1>1, <1>2, <1>3, <1>4, <1>5

\* A piece that separates no call from its result.
LEMMA PiecePaired ==
    ASSUME NEW x \in BOOLEAN, NEW c, Paired(c, x), NEW i \in 1..Len(c) + 1, NEW n \in i - 1..Len(c),
           n >= i => c[i].results = {} /\ c[n].uses = {}
    PROVE  Paired(SubSeq(c, i, n), x)
<1> DEFINE t == SubSeq(c, i, n)
           l == n - i + 1
<1>b. c \in Seq(Written) /\ Len(c) \in Nat /\ Covered(c) /\ (x => WellPaired(c))
  BY PairedEnds
<1>a. c \in Seq(Written) /\ Len(c) \in Nat /\ Covered(c) /\ (x => WellPaired(c)) /\ i \in Int /\ n \in Int
  BY <1>b
<1>1. /\ t \in Seq(Written) /\ Len(t) = l /\ l \in Nat
      /\ \A j \in 1..l : t[j] = c[i + j - 1] /\ i + j - 1 \in 1..Len(c)
  BY <1>a, PieceShape
<1>c. i \in Int /\ n \in Int /\ l \in Nat
  BY <1>1, <1>a
<1> HIDE DEF t
<1>2. ASSUME NEW j \in 1..l
      PROVE  /\ t[j].uses # {} =>
                  /\ j < l /\ t[j + 1].role = "user" /\ t[j].uses \subseteq t[j + 1].results
             /\ t[j].results # {} => j > 1 /\ t[j - 1].uses # {}
             /\ x /\ j > 1 => t[j].results \subseteq t[j - 1].uses
             /\ t[j].role = "assistant" => ~IsEffectivelyEmpty(t[j])
  <2> DEFINE k == i + j - 1
  <2>1. k \in 1..Len(c) /\ t[j] = c[k] /\ j \in Int /\ k \in Int
    <3>1. j \in Int /\ k \in Int
      BY <1>c
    <3>2. k \in 1..Len(c) /\ t[j] = c[k]
      BY <1>1
    <3> QED
      BY <3>1, <3>2
  <2>2. j < l => t[j + 1] = c[k + 1]
    <3>1. j < l => j + 1 \in 1..l /\ i + (j + 1) - 1 = k + 1
      BY <1>c
    <3> QED
      BY <3>1, <1>1
  <2>3. j > 1 => t[j - 1] = c[k - 1] /\ k > 1
    <3>1. j > 1 => j - 1 \in 1..l /\ i + (j - 1) - 1 = k - 1 /\ k > 1
      BY <1>c, <1>a
    <3> QED
      BY <3>1, <1>1
  <2>4. (j = 1 => k = i) /\ (j = l => k = n) /\ n >= i /\ j <= l /\ j >= 1
    BY <1>1, <1>a
  <2> HIDE DEF k, l
  <2>5. /\ c[k].uses # {} =>
               /\ k < Len(c) /\ c[k + 1].role = "user" /\ c[k].uses \subseteq c[k + 1].results
        /\ c[k].results # {} => k > 1 /\ c[k - 1].uses # {}
        /\ x /\ k > 1 => c[k].results \subseteq c[k - 1].uses
        /\ c[k].role = "assistant" => ~IsEffectivelyEmpty(c[k])
    BY <2>1, <1>a DEF Paired, WellPaired, Covered
  <2>6. t[j].uses # {} => j < l
    <3>1. j = l => t[j].uses = {}
      BY <2>1, <2>4
    <3> QED
      BY <3>1, <2>4, <2>1, <1>1
  <2>7. t[j].results # {} => j > 1
    <3>1. j = 1 => t[j].results = {}
      BY <2>1, <2>4
    <3> QED
      BY <3>1, <2>4, <2>1
  <2> QED
    BY <2>1, <2>2, <2>3, <2>5, <2>6, <2>7
<1> HIDE DEF l
<1>3. Covered(t)
  BY <1>1, <1>2 DEF Covered
<1>4. x => WellPaired(t)
  <2>1. \A j \in 2..l : j \in 1..l /\ j > 1
    BY <1>1
  <2> QED
    BY <2>1, <1>1, <1>2, <1>3 DEF WellPaired
<1>5. Paired(t, x)
  BY <1>1, <1>2, <1>3, <1>4 DEF Paired
<1> QED
  BY <1>5 DEF t

LEMMA ConcatPaired ==
    ASSUME NEW x \in BOOLEAN, NEW s, NEW u, Paired(s, x), Paired(u, x)
    PROVE  Paired(s \o u, x)
<1> DEFINE t == s \o u
<1>a. /\ s \in Seq(Written) /\ Len(s) \in Nat /\ Covered(s) /\ (x => WellPaired(s))
      /\ u \in Seq(Written) /\ Len(u) \in Nat /\ Covered(u) /\ (x => WellPaired(u))
      /\ Len(u) > 0 => u[1].results = {}
      /\ Len(s) > 0 => s[Len(s)].uses = {}
  BY PairedEnds
<1>1. /\ t \in Seq(Written) /\ Len(t) = Len(s) + Len(u)
      /\ \A j \in 1..Len(s) : t[j] = s[j]
      /\ \A j \in 1..Len(u) : t[Len(s) + j] = u[j]
  BY <1>a
<1> HIDE DEF t
<1>2. ASSUME NEW j \in 1..Len(t)
      PROVE  /\ t[j].uses # {} =>
                  /\ j < Len(t) /\ t[j + 1].role = "user" /\ t[j].uses \subseteq t[j + 1].results
             /\ t[j].results # {} => j > 1 /\ t[j - 1].uses # {}
             /\ x /\ j > 1 => t[j].results \subseteq t[j - 1].uses
             /\ t[j].role = "assistant" => ~IsEffectivelyEmpty(t[j])
  <2>1. CASE j \in 1..Len(s)
    <3>1. /\ s[j].uses # {} =>
                /\ j < Len(s) /\ s[j + 1].role = "user" /\ s[j].uses \subseteq s[j + 1].results
          /\ s[j].results # {} => j > 1 /\ s[j - 1].uses # {}
          /\ x /\ j > 1 => s[j].results \subseteq s[j - 1].uses
          /\ s[j].role = "assistant" => ~IsEffectivelyEmpty(s[j])
      BY <2>1, <1>a DEF Paired, WellPaired, Covered
    <3>2. t[j] = s[j] /\ (j < Len(s) => t[j + 1] = s[j + 1]) /\ (j > 1 => t[j - 1] = s[j - 1])
          /\ (j < Len(s) => j < Len(t))
      <4>1. /\ j < Len(s) => j + 1 \in 1..Len(s) /\ j < Len(t)
            /\ j > 1 => j - 1 \in 1..Len(s)
        BY <2>1, <1>1, <1>a
      <4> QED
        BY <4>1, <2>1, <1>1
    <3> QED
      BY <3>1, <3>2
  <2>2. CASE j \notin 1..Len(s)
    <3> DEFINE k == j - Len(s)
    <3>1. k \in 1..Len(u) /\ j = Len(s) + k /\ t[j] = u[k] /\ j \in Int
      <4>1. k \in 1..Len(u) /\ j = Len(s) + k /\ j \in Int
        BY <2>2, <1>1, <1>a
      <4> QED
        BY <4>1, <1>1
    <3>2. k < Len(u) => t[j + 1] = u[k + 1] /\ j < Len(t)
      <4>1. k < Len(u) => k + 1 \in 1..Len(u) /\ Len(s) + (k + 1) = j + 1 /\ j < Len(t)
        BY <3>1, <1>1, <1>a
      <4> QED
        BY <4>1, <1>1
    <3>3. k > 1 => t[j - 1] = u[k - 1] /\ j > 1
      <4>1. k > 1 => k - 1 \in 1..Len(u) /\ Len(s) + (k - 1) = j - 1 /\ j > 1
        BY <3>1, <1>1, <1>a
      <4> QED
        BY <4>1, <1>1
    <3> HIDE DEF k
    <3>4. /\ u[k].uses # {} =>
                /\ k < Len(u) /\ u[k + 1].role = "user" /\ u[k].uses \subseteq u[k + 1].results
          /\ u[k].results # {} => k > 1 /\ u[k - 1].uses # {}
          /\ x /\ k > 1 => u[k].results \subseteq u[k - 1].uses
          /\ u[k].role = "assistant" => ~IsEffectivelyEmpty(u[k])
      BY <3>1, <1>a DEF Paired, WellPaired, Covered
    <3>5. k = 1 => u[k].results = {}
      BY <3>1, <1>a
    <3>6. k > 1 \/ k = 1
      BY <3>1, <1>a
    <3> QED
      BY <3>1, <3>2, <3>3, <3>4, <3>5, <3>6
  <2> QED
    BY <2>1, <2>2
<1>3. Covered(t)
  BY <1>2 DEF Covered
<1>4. x => WellPaired(t)
  BY <1>2, <1>3, <1>1, <1>a DEF WellPaired
<1>5. Paired(t, x)
  BY <1>1, <1>2, <1>3, <1>4 DEF Paired
<1> QED
  BY <1>5 DEF t

\* Where split_preserving_tool_pairs cuts: never between a call and its result.
LEMMA CutShape ==
    ASSUME NEW x \in BOOLEAN, NEW c, Paired(c, x), NEW keep \in Nat \ {0}
    PROVE  \E cut \in 0..Len(c) :
              /\ Split(c, keep).older = SubSeq(c, 1, cut)
              /\ Split(c, keep).newer = Sanitize(SubSeq(c, cut + 1, Len(c)))
              /\ cut # 0 => cut < Len(c) /\ ~BoundaryCrossesToolPair(c[cut], c[cut + 1])
<1> DEFINE Cuts == {s \in 0..Len(c) - keep :
                       s = 0 \/ ~BoundaryCrossesToolPair(c[s], c[s + 1])}
           cut == IF Len(c) <= keep THEN 0 ELSE Max(Cuts)
<1>a. c \in Seq(Written) /\ Len(c) \in Nat
  BY PairedEnds
<1>1. /\ cut \in Nat /\ cut <= Len(c)
      /\ cut # 0 => cut < Len(c) /\ ~BoundaryCrossesToolPair(c[cut], c[cut + 1])
  <2>1. CASE Len(c) <= keep
    BY <2>1, <1>a
  <2>2. CASE ~(Len(c) <= keep)
    <3>1. 0 \in Cuts /\ Cuts \subseteq 0..Len(c) /\ \A s \in Cuts : s \in Nat /\ s < Len(c)
      BY <2>2, <1>a
    <3>2. \A s \in Cuts : s # 0 => ~BoundaryCrossesToolPair(c[s], c[s + 1])
      OBVIOUS
    <3> HIDE DEF Cuts
    <3>3. Max(Cuts) \in Cuts
      BY <3>1, <1>a, GreatestNumber
    <3>4. cut = Max(Cuts)
      BY <2>2
    <3> HIDE DEF cut
    <3>5. cut \in Cuts
      BY <3>3, <3>4
    <3>6. cut \in Nat /\ cut < Len(c)
      BY <3>1, <3>5
    <3> QED
      BY <3>2, <3>5, <3>6, <1>a
  <2> QED
    BY <2>1, <2>2
<1>2. Split(c, keep).older = SubSeq(c, 1, cut)
      /\ Split(c, keep).newer = Sanitize(SubSeq(c, cut + 1, Len(c)))
  BY DEF Split
<1> HIDE DEF cut
<1> QED
  BY <1>1, <1>2, <1>a

\* Wherever split_preserving_tool_pairs cuts, both parts are paired.
LEMMA SplitPaired ==
    ASSUME NEW x \in BOOLEAN, NEW c, Paired(c, x), NEW keep \in Nat \ {0}
    PROVE  Paired(Split(c, keep).older, x) /\ Paired(Split(c, keep).newer, x)
<1>a. c \in Seq(Written) /\ Covered(c) /\ (x => Tidy(c)) /\ Len(c) \in Nat
  BY PairedEnds, PairedIsTidy
<1>2. PICK cut \in 0..Len(c) :
         /\ Split(c, keep).older = SubSeq(c, 1, cut)
         /\ Split(c, keep).newer = Sanitize(SubSeq(c, cut + 1, Len(c)))
         /\ cut # 0 => cut < Len(c) /\ ~BoundaryCrossesToolPair(c[cut], c[cut + 1])
  BY CutShape
<1>1. /\ cut \in Nat /\ cut <= Len(c)
      /\ cut # 0 => cut < Len(c) /\ ~BoundaryCrossesToolPair(c[cut], c[cut + 1])
  BY <1>2, <1>a
<1>3. Paired(SubSeq(c, 1, cut), x)
  <2>1. cut >= 1 => c[1].results = {}
    <3>1. Len(c) > 0 => c[1].results = {}
      BY PairedEnds
    <3> QED
      BY <3>1, <1>1, <1>a
  <2>2. cut >= 1 => c[cut].uses = {}
    <3> SUFFICES ASSUME cut >= 1, c[cut].uses # {} PROVE FALSE
      OBVIOUS
    <3>1. cut \in 1..Len(c)
      BY <1>1, <1>a
    <3>2. c[cut].role = "assistant"
      BY <3>1, <1>a, WrittenFields
    <3>3. c[cut + 1].role = "user" /\ c[cut].uses \subseteq c[cut + 1].results
      BY <3>1, <1>a DEF Covered
    <3> QED
      BY <1>1, <3>2, <3>3 DEF BoundaryCrossesToolPair
  <2>3. 1 \in 1..Len(c) + 1 /\ cut \in 1 - 1..Len(c)
    BY <1>1, <1>a
  <2> QED
    BY <2>1, <2>2, <2>3, PiecePaired
<1>4. SubSeq(c, cut + 1, Len(c)) \in Seq(Written) /\ (x => Tidy(SubSeq(c, cut + 1, Len(c))))
  <2> DEFINE t == SubSeq(c, cut + 1, Len(c))
             l == Len(c) - (cut + 1) + 1
  <2>1. cut + 1 \in 1..Len(c) + 1 /\ Len(c) \in (cut + 1) - 1..Len(c)
    BY <1>1, <1>a
  <2>2. /\ t \in Seq(Written) /\ Len(t) = l /\ l \in Nat
        /\ \A j \in 1..l : t[j] = c[cut + 1 + j - 1] /\ cut + 1 + j - 1 \in 1..Len(c)
    BY <2>1, <1>a, PieceShape
  <2> HIDE DEF t, l
  <2>3. ASSUME x, NEW j \in 1..l
        PROVE  /\ t[j].role = "assistant" => ~IsEffectivelyEmpty(t[j])
               /\ (j > 1 /\ t[j - 1].uses # {}) => t[j].results \subseteq t[j - 1].uses
    <3> DEFINE k == cut + 1 + j - 1
    <3>1. t[j] = c[k] /\ k \in 1..Len(c)
      BY <2>2
    <3>2. j > 1 => t[j - 1] = c[k - 1] /\ k > 1
      <4>1. j > 1 => j - 1 \in 1..l /\ cut + 1 + (j - 1) - 1 = k - 1 /\ k > 1
        BY <2>2, <1>1
      <4> QED
        BY <4>1, <2>2
    <3> HIDE DEF k
    <3> QED
      BY <2>3, <3>1, <3>2, <1>a DEF Tidy
  <2> QED
    BY <2>2, <2>3 DEF Tidy, t
<1> QED
  BY <1>2, <1>3, <1>4, SanitizePairs

LEMMA UserTextIsWritten ==
    /\ UserText \in Written /\ UserText.uses = {} /\ UserText.results = {}
    /\ UserText.role = "user"
BY DEF UserText, Written, Message

LEMMA UserTextPaired == ASSUME NEW x \in BOOLEAN PROVE Paired(<<UserText>>, x)
<1>1. Paired(Append(<<>>, UserText), x)
  BY PairedNil, PairedAppend, UserTextIsWritten
<1>2. Append(<<>>, UserText) = <<UserText>>
  BY UserTextIsWritten
<1> QED
  BY <1>1, <1>2

LEMMA CollapsePaired ==
    ASSUME NEW x \in BOOLEAN, NEW c, Paired(c, x), NEW keep \in Nat \ {0}
    PROVE  Paired(ContextCollapse(c, keep), x)
BY SplitPaired, ConcatPaired DEF ContextCollapse

LEMMA CondensePaired ==
    ASSUME NEW x \in BOOLEAN, NEW c, Paired(c, x), NEW keep \in Nat \ {0}
    PROVE  Paired(Condense(c, keep), x)
<1>1. Paired(<<UserText>> \o Split(c, keep).newer, x)
  BY SplitPaired, UserTextPaired, ConcatPaired
<1> QED
  BY <1>1, PairedEnds, PairedIsTidy, SanitizePairs DEF Condense

-----------------------------------------------------------------------------
(* Dropping the oldest rounds for a retry.                                 *)

\* In a finite set of numbers there is one with exactly d smaller ones.
LEMMA RankExists ==
    ASSUME NEW S, IsFiniteSet(S), S \subseteq Nat, NEW d \in Nat, d < Cardinality(S)
    PROVE  \E i \in S : Cardinality({j \in S : j < i}) = d
<1> DEFINE Below(i) == {j \in S : j < i}
           Bad == {e \in Nat : e < Cardinality(S) /\ ~ \E i \in S : Cardinality(Below(i)) = e}
<1> SUFFICES ASSUME Bad # {} PROVE FALSE
  OBVIOUS
<1>a. Cardinality(S) \in Nat
  BY FS_CardinalityType
<1>1. PICK e \in Bad : \A k \in Bad : e <= k
  <2>1. Bad \subseteq Nat
    OBVIOUS
  <2> HIDE DEF Bad
  <2> QED
    BY <2>1, LeastNumber
\* The least number above a proper part {j \in S : j <= v} of the set.
<1>2. ASSUME NEW P \in SUBSET S, P # S, Cardinality(P) = e,
             \A j \in P, k \in S \ P : j < k
      PROVE  FALSE
  <2>1. S \ P \subseteq Nat /\ S \ P # {}
    BY <1>2
  <2>2. PICK i \in S \ P : \A k \in S \ P : i <= k
    BY <2>1, LeastNumber
  <2>3. Below(i) = P
    <3>1. \A j \in S : j < i <=> j \in P
      BY <1>2, <2>2
    <3> QED
      BY <3>1
  <2> QED
    BY <1>1, <1>2, <2>2, <2>3
<1>3. CASE e = 0
  <2>1. S # {}
    BY <1>3, <1>1, FS_EmptySet
  <2>2. Cardinality({}) = 0
    BY FS_EmptySet
  <2> QED
    BY <1>2, <1>3, <2>1, <2>2
<1>4. CASE e # 0
  <2>1. e - 1 \in Nat /\ e - 1 < Cardinality(S) /\ e - 1 \notin Bad
    BY <1>1, <1>4, <1>a
  <2>2. PICK v \in S : Cardinality(Below(v)) = e - 1
    BY <2>1
  <2> DEFINE P == Below(v) \cup {v}
  <2>3. v \notin Below(v) /\ IsFiniteSet(Below(v))
    BY FS_Subset
  <2>4. Cardinality(P) = (e - 1) + 1
    BY <2>2, <2>3, FS_AddElement
  <2>5. Cardinality(P) = e /\ P # S /\ P \in SUBSET S
    <3>1. P \in SUBSET S
      OBVIOUS
    <3> HIDE DEF P
    <3>2. e \in Nat /\ e < Cardinality(S)
      BY <1>1
    <3>3. Cardinality(P) = e
      BY <2>4, <3>2
    <3> QED
      BY <3>1, <3>2, <3>3
  <2>6. \A j \in P, k \in S \ P : j < k
    OBVIOUS
  <2> QED
    BY <2>5, <2>6, <1>2
<1> QED
  BY <1>3, <1>4

LEMMA MinMaxOfTwo ==
    ASSUME NEW a \in Int, NEW b \in Int
    PROVE  Max({a, b}) = (IF a >= b THEN a ELSE b) /\ Min({a, b}) = IF a <= b THEN a ELSE b
<1>1. \E x \in {a, b} : \A y \in {a, b} : x >= y
  OBVIOUS
<1>2. Max({a, b}) \in {a, b} /\ \A y \in {a, b} : Max({a, b}) >= y
  BY <1>1 DEF Max
<1>3. \E x \in {a, b} : \A y \in {a, b} : x =< y
  OBVIOUS
<1>4. Min({a, b}) \in {a, b} /\ \A y \in {a, b} : Min({a, b}) =< y
  BY <1>3 DEF Min
<1> QED
  BY <1>2, <1>4

LEMMA TruncatePaired ==
    ASSUME NEW x \in BOOLEAN, NEW c, Paired(c, x)
    PROVE  Paired(TruncateHead(c), x)
<1> DEFINE R == RoundStarts(c)
           n == Cardinality(R)
           drop == Min({Max({n \div 5, 1}), n - 1})
           first == CHOOSE i \in R : Cardinality({j \in R : j < i}) = drop
           rest == SubSeq(c, first, Len(c))
<1>a. c \in Seq(Written) /\ Len(c) \in Nat /\ (Len(c) > 0 => c[1].results = {} /\ c[Len(c)].uses = {})
  BY PairedEnds
<1>1. R \subseteq 1..Len(c) /\ R \subseteq Nat /\ IsFiniteSet(R) /\ n \in Nat
  <2>1. R \subseteq 1..Len(c)
    BY DEF RoundStarts
  <2> HIDE DEF R
  <2> QED
    <3>1. IsFiniteSet(1..Len(c))
      BY <1>a, FS_Interval
    <3>2. IsFiniteSet(R)
      BY <2>1, <3>1, FS_Subset
    <3>3. R \subseteq Nat
      BY <2>1, <1>a
    <3> QED
      BY <2>1, <3>2, <3>3, FS_CardinalityType
<1>2. TruncateHead(c) = IF n < 2 THEN <<>>
                        ELSE IF rest[1].role = "assistant" THEN <<UserText>> \o rest ELSE rest
  BY DEF TruncateHead
<1>3. CASE n < 2
  BY <1>2, <1>3, PairedNil
<1>4. CASE ~(n < 2)
  <2>1. drop \in Nat /\ drop < n
    <3> HIDE DEF n
    <3>1. n \div 5 \in Int /\ n - 1 \in Int /\ 1 \in Int
      BY <1>1
    <3> DEFINE most == Max({n \div 5, 1})
    <3>2. most \in Int /\ most >= 1
      BY <3>1, MinMaxOfTwo
    <3> HIDE DEF most
    <3>3. drop = IF most <= n - 1 THEN most ELSE n - 1
      <4>1. drop = Min({most, n - 1})
        BY DEF most
      <4>2. most \in Int /\ n - 1 \in Int
        BY <3>1, <3>2
      <4> HIDE DEF drop
      <4> QED
        BY <4>1, <4>2, MinMaxOfTwo
    <3> HIDE DEF drop
    <3> QED
      BY <1>1, <1>4, <3>2, <3>3
  <2> HIDE DEF drop
  <2>2. \E i \in R : Cardinality({j \in R : j < i}) = drop
    <3> HIDE DEF R
    <3> QED
      BY <1>1, <2>1, RankExists
  <2>3. first \in R
    BY <2>2
  <2> HIDE DEF first
  <2>4. first \in 1..Len(c) /\ c[first].results = {}
    BY <2>3, <1>a DEF RoundStarts
  <2>5. Paired(rest, x)
    <3>1. first \in 1..Len(c) + 1 /\ Len(c) \in first - 1..Len(c) /\ Len(c) > 0
      BY <2>4, <1>a
    <3> QED
      BY <3>1, <2>4, <1>a, PiecePaired
  <2> HIDE DEF rest
  <2>6. Paired(<<UserText>> \o rest, x)
    BY <2>5, UserTextPaired, ConcatPaired
  <2> QED
    BY <1>2, <1>4, <2>5, <2>6
<1> QED
  BY <1>3, <1>4

-----------------------------------------------------------------------------
(* The scan returns what the rules say all at once.                        *)

\* A sequence that selects the places of P selects one place more, after them.
LEMMA SelectsMore ==
    ASSUME NEW c, NEW P, IsFiniteSet(P), P \subseteq Nat, NEW q \in Nat, \A i \in P : i < q,
           NEW S, NEW s \in Seq(S), Repaired(c, q) \in S, Selects(s, c, P)
    PROVE  Selects(Append(s, Repaired(c, q)), c, P \cup {q})
<1> DEFINE m == Repaired(c, q)
           t == Append(s, m)
           Q == P \cup {q}
<1>1. /\ t \in Seq(S) /\ Len(t) = Len(s) + 1 /\ Len(s) \in Nat /\ t[Len(s) + 1] = m
      /\ \A i \in 1..Len(s) : t[i] = s[i]
  <2> HIDE DEF m
  <2>1. m \in S
    BY DEF m
  <2> QED
    BY <2>1, AppendShape
<1>2. q \notin P
  <2> SUFFICES ASSUME q \in P PROVE FALSE
    OBVIOUS
  <2>1. q < q
    OBVIOUS
  <2> QED
    BY <2>1
<1>3. Cardinality(P) \in Nat /\ Cardinality(Q) = Cardinality(P) + 1 /\ Len(s) = Cardinality(P)
  BY <1>2, FS_AddElement, FS_CardinalityType DEF Selects
<1> HIDE DEF t, m
<1>4. ASSUME NEW i \in P
      PROVE  t[Cardinality({j \in Q : j <= i})] = Repaired(c, i)
  <2> DEFINE R == {j \in P : j <= i}
  <2>1. {j \in Q : j <= i} = R
    <3>1. i < q /\ i \in Nat
      OBVIOUS
    <3>2. ~(q <= i)
      BY <3>1
    <3> QED
      BY <3>2
  <2>2. R \subseteq P /\ i \in R
    <3>1. i <= i
      OBVIOUS
    <3> QED
      BY <3>1
  <2>3. s[Cardinality(R)] = Repaired(c, i)
    BY DEF Selects
  <2> HIDE DEF R
  <2>4. IsFiniteSet(R) /\ Cardinality(R) <= Cardinality(P)
    BY <2>2, FS_Subset
  <2>5. Cardinality(R) \in Nat /\ Cardinality(R) # 0
    BY <2>2, <2>4, FS_CardinalityType, FS_EmptySet
  <2>6. Cardinality(R) \in 1..Len(s)
    BY <1>3, <2>4, <2>5
  <2>7. t[Cardinality(R)] = s[Cardinality(R)]
    BY <1>1, <2>6
  <2> QED
    BY <2>1, <2>3, <2>7
<1>5. t[Cardinality({j \in Q : j <= q})] = Repaired(c, q)
  <2>1. {j \in Q : j <= q} = Q
    <3>1. \A j \in P : j <= q
      <4>1. \A j \in P : j \in Nat /\ j < q
        OBVIOUS
      <4> QED
        BY <4>1
    <3>2. q <= q
      OBVIOUS
    <3> QED
      BY <3>1, <3>2
  <2>2. t[Len(s) + 1] = Repaired(c, q)
    BY <1>1 DEF m
  <2> HIDE DEF Q
  <2> QED
    BY <2>1, <2>2, <1>3
<1> QED
  BY <1>1, <1>3, <1>4, <1>5 DEF Selects, t, m

\* How many texts of the user there are up to a place.
Said(m) == IF m.role = "user" /\ m.text THEN 1 ELSE 0

LEMMA TextsGrow ==
    ASSUME NEW c, NEW n \in Nat
    PROVE  TextsTo(c, n) \in Nat /\ TextsTo(c, n + 1) = TextsTo(c, n) + Said(c[n + 1])
<1> DEFINE A == {i \in 1..n : c[i].role = "user" /\ c[i].text}
           B == {i \in 1..n + 1 : c[i].role = "user" /\ c[i].text}
<1>1. IsFiniteSet(A) /\ n + 1 \notin A
  <2>1. A \subseteq 1..n
    OBVIOUS
  <2>2. IsFiniteSet(1..n) /\ n + 1 \notin 1..n
    BY FS_Interval
  <2> HIDE DEF A
  <2> QED
    BY <2>1, <2>2, FS_Subset
<1>2. B = IF c[n + 1].role = "user" /\ c[n + 1].text THEN A \cup {n + 1} ELSE A
  <2>1. \A i : i \in 1..n + 1 <=> i \in 1..n \/ i = n + 1
    OBVIOUS
  <2> QED
    BY <2>1
<1>3. TextsTo(c, n) = Cardinality(A) /\ TextsTo(c, n + 1) = Cardinality(B)
  BY DEF TextsTo
<1> HIDE DEF A, B
<1>4. Cardinality(A) \in Nat /\ Cardinality(A \cup {n + 1}) = Cardinality(A) + 1
  BY <1>1, FS_AddElement, FS_CardinalityType
<1>5. CASE c[n + 1].role = "user" /\ c[n + 1].text
  BY <1>2, <1>3, <1>4, <1>5 DEF Said
<1>6. CASE ~(c[n + 1].role = "user" /\ c[n + 1].text)
  BY <1>2, <1>3, <1>4, <1>6 DEF Said
<1> QED
  BY <1>5, <1>6

LEMMA TextsAppended ==
    ASSUME NEW s \in Seq(Written), NEW m \in Written
    PROVE  TextsTo(Append(s, m), Len(Append(s, m))) = TextsTo(s, Len(s)) + Said(m)
<1> DEFINE t == Append(s, m)
           n == Len(s)
<1>1. /\ Len(t) = n + 1 /\ n \in Nat /\ t[n + 1] = m
      /\ \A i \in 1..n : t[i] = s[i]
  BY AppendShape
<1> HIDE DEF t, n
<1>2. TextsTo(t, n + 1) = TextsTo(t, n) + Said(m)
  BY <1>1, TextsGrow
<1>3. TextsTo(t, n) = TextsTo(s, n)
  <2>1. {i \in 1..n : t[i].role = "user" /\ t[i].text} = {i \in 1..n : s[i].role = "user" /\ s[i].text}
    BY <1>1
  <2> QED
    BY <2>1 DEF TextsTo
<1> QED
  BY <1>1, <1>2, <1>3 DEF t, n

\* The last message up to k that counts.
LastCounts(c, p, k) == p \in 1..k /\ Counts(c, p) /\ \A i \in p + 1 .. k : ~Counts(c, i)

LEMMA LastIsOne ==
    ASSUME NEW c, NEW k \in Nat, NEW p, NEW q, LastCounts(c, p, k), LastCounts(c, q, k)
    PROVE  p = q
<1>1. p \in Nat /\ q \in Nat /\ p <= k /\ q <= k
  BY DEF LastCounts
<1>2. ~(p < q)
  <2> SUFFICES ASSUME p < q PROVE FALSE
    OBVIOUS
  <2>1. q \in p + 1 .. k
    BY <1>1
  <2> QED
    BY <2>1 DEF LastCounts
<1>3. ~(q < p)
  <2> SUFFICES ASSUME q < p PROVE FALSE
    OBVIOUS
  <2>1. p \in q + 1 .. k
    BY <1>1
  <2> QED
    BY <2>1 DEF LastCounts
<1> QED
  BY <1>1, <1>2, <1>3

LEMMA AnswersIsLast ==
    ASSUME NEW c, NEW k \in Nat, NEW i \in 1..k, Answers(c, i, k + 1)
    PROVE  LastCounts(c, i, k) /\ c[i].uses # {}
<1>1. (k + 1) - 1 = k
  OBVIOUS
<1>2. \A j \in i + 1 .. (k + 1) - 1 : ~Counts(c, j)
  BY DEF Answers
<1>3. \A j \in i + 1 .. k : ~Counts(c, j)
  BY <1>1, <1>2
<1> QED
  BY <1>3 DEF LastCounts, Answers

LEMMA StayPlaces ==
    ASSUME NEW c, NEW n \in Nat
    PROVE  /\ Stay(c, n) \subseteq 1..n /\ Stay(c, n) \subseteq Nat /\ IsFiniteSet(Stay(c, n))
           /\ \A i \in Stay(c, n) : i < n + 1 /\ Counts(c, i)
<1>1. Stay(c, n) \subseteq 1..n /\ \A i \in Stay(c, n) : Counts(c, i)
  BY DEF Stay
<1>2. IsFiniteSet(1..n)
  BY FS_Interval
<1>3. IsFiniteSet(Stay(c, n))
  BY <1>1, <1>2, FS_Subset
<1> DEFINE P == Stay(c, n)
<1> HIDE DEF P
<1>4. P \subseteq 1..n
  BY <1>1 DEF P
<1>5. P \subseteq Nat /\ \A i \in P : i < n + 1
  BY <1>4
<1> QED
  BY <1>1, <1>3, <1>5 DEF P

\* What one message more changes: its own place, and that of calls it answers.
LEMMA StayGrows ==
    ASSUME NEW c, NEW k \in Nat
    PROVE  /\ \A i \in 1..k : i \in Stay(c, k + 1) <=>
                 i \in Stay(c, k) \/ (c[i].role = "assistant" /\ Answers(c, i, k + 1))
           /\ k + 1 \in Stay(c, k + 1) <=>
                 /\ Counts(c, k + 1)
                 /\ IF c[k + 1].role = "assistant" THEN c[k + 1].uses = {}
                    ELSE c[k + 1].text \/ c[k + 1].results = {} \/ AnswersCalls(c, k + 1)
           /\ Stay(c, k + 1) \subseteq 1..k \cup {k + 1}
<1>1. ASSUME NEW i \in 1..k
      PROVE  i \in Stay(c, k + 1) <=>
                 i \in Stay(c, k) \/ (c[i].role = "assistant" /\ Answers(c, i, k + 1))
  <2>1. i \in 1..k + 1 /\ \A j : j \in i + 1 .. k + 1 <=> j \in i + 1 .. k \/ j = k + 1
    OBVIOUS
  <2>2. (\E j \in i + 1 .. k + 1 : Answers(c, i, j))
           <=> (\E j \in i + 1 .. k : Answers(c, i, j)) \/ Answers(c, i, k + 1)
    BY <2>1
  <2>3. Answers(c, i, k + 1) => Counts(c, i)
    BY DEF Answers
  <2> QED
    BY <2>1, <2>2, <2>3 DEF Stay
<1>2. k + 1 \in 1..k + 1 /\ (k + 1) + 1 .. k + 1 = {}
  OBVIOUS
<1>3. k + 1 \in Stay(c, k + 1) <=>
         /\ Counts(c, k + 1)
         /\ IF c[k + 1].role = "assistant" THEN c[k + 1].uses = {}
            ELSE c[k + 1].text \/ c[k + 1].results = {} \/ AnswersCalls(c, k + 1)
  BY <1>2 DEF Stay
<1>4. 1..k + 1 \subseteq 1..k \cup {k + 1}
  OBVIOUS
<1>5. Stay(c, k + 1) \subseteq 1..k + 1
  BY DEF Stay
<1> QED
  BY <1>1, <1>3, <1>4, <1>5

\* Three ways: nothing changes, the message stays, or it stays with the calls
\* that it answers.
LEMMA StayNext ==
    ASSUME NEW c, NEW k \in Nat
    PROVE  /\ k + 1 \notin Stay(c, k + 1) /\ (\A i \in 1..k : ~Answers(c, i, k + 1))
                 => Stay(c, k + 1) = Stay(c, k)
           /\ k + 1 \in Stay(c, k + 1) /\ (\A i \in 1..k : ~Answers(c, i, k + 1))
                 => Stay(c, k + 1) = Stay(c, k) \cup {k + 1}
           /\ \A p \in 1..k :
                 Answers(c, p, k + 1) /\ c[p].role = "assistant" /\ c[k + 1].role = "user"
                    => Stay(c, k + 1) = (Stay(c, k) \cup {p}) \cup {k + 1}
<1> DEFINE P == Stay(c, k)
           Q == Stay(c, k + 1)
<1>1. P \subseteq 1..k /\ Q \subseteq 1..k \cup {k + 1}
  BY StayPlaces, StayGrows
<1>2. \A i \in 1..k : i \in Q <=> i \in P \/ (c[i].role = "assistant" /\ Answers(c, i, k + 1))
  BY StayGrows
<1>3. ASSUME NEW p \in 1..k, Answers(c, p, k + 1), c[p].role = "assistant", c[k + 1].role = "user"
      PROVE  k + 1 \in Q /\ \A i \in 1..k : Answers(c, i, k + 1) => i = p
  <2>1. Counts(c, k + 1) /\ (k + 1) - 1 = k
    BY <1>3 DEF Answers
  <2>2. AnswersCalls(c, k + 1)
    BY <1>3, <2>1 DEF AnswersCalls
  <2>3. k + 1 \in Q
    BY <2>1, <2>2, <1>3, StayGrows
  <2>4. \A i \in 1..k : Answers(c, i, k + 1) => i = p
    BY <1>3, AnswersIsLast, LastIsOne
  <2> QED
    BY <2>3, <2>4
<1> HIDE DEF P, Q
<1>4. k + 1 \notin Q /\ (\A i \in 1..k : ~Answers(c, i, k + 1)) => Q = P
  BY <1>1, <1>2
<1>5. k + 1 \in Q /\ (\A i \in 1..k : ~Answers(c, i, k + 1)) => Q = P \cup {k + 1}
  BY <1>1, <1>2
<1>6. ASSUME NEW p \in 1..k, Answers(c, p, k + 1), c[p].role = "assistant", c[k + 1].role = "user"
      PROVE  Q = (P \cup {p}) \cup {k + 1}
  BY <1>1, <1>2, <1>3, <1>6
<1> QED
  BY <1>4, <1>5, <1>6 DEF P, Q

\* What was kept of the first k messages is what the rules keep of them.
FollowsRules(s, c, k) ==
    /\ s \in Seq(Written) /\ Selects(s, c, Stay(c, k))
    /\ TextsTo(s, Len(s)) = TextsTo(c, k)

LEMMA RulesSkip ==
    ASSUME NEW c, NEW k \in Nat, NEW s, FollowsRules(s, c, k),
           Stay(c, k + 1) = Stay(c, k), Said(c[k + 1]) = 0
    PROVE  FollowsRules(s, c, k + 1)
<1>1. TextsTo(c, k) \in Nat /\ TextsTo(c, k + 1) = TextsTo(c, k) + 0
  BY TextsGrow
<1>2. TextsTo(c, k + 1) = TextsTo(c, k)
  BY <1>1
<1> QED
  BY <1>2 DEF FollowsRules

LEMMA RepairedShape ==
    ASSUME NEW c, NEW i, c[i] \in Written
    PROVE  /\ Repaired(c, i) \in Written /\ Said(Repaired(c, i)) = Said(c[i])
           /\ c[i].results = {} => Repaired(c, i) = c[i]
<1> DEFINE m == c[i]
           r == [m EXCEPT !.results = {}]
<1>1. r \in Written /\ r.role = m.role /\ r.text = m.text
  <2> HIDE DEF m
  <2>1. m \in Written
    BY DEF m
  <2> QED
    BY <2>1 DEF Written, Message
<1>2. Repaired(c, i) = m \/ Repaired(c, i) = r
  BY DEF Repaired
<1>3. c[i].results = {} => Repaired(c, i) = c[i]
  BY DEF Repaired
<1> HIDE DEF m, r
<1>4. Said(r) = Said(m) /\ m \in Written
  BY <1>1 DEF Said, m
<1> QED
  BY <1>1, <1>2, <1>3, <1>4 DEF m

LEMMA RulesAppend ==
    ASSUME NEW c \in Seq(Written), NEW k \in 0..Len(c) - 1, NEW s, FollowsRules(s, c, k),
           Stay(c, k + 1) = Stay(c, k) \cup {k + 1}
    PROVE  FollowsRules(Append(s, Repaired(c, k + 1)), c, k + 1)
<1> DEFINE r == Repaired(c, k + 1)
<1>0. k \in Nat /\ k + 1 \in Nat /\ c[k + 1] \in Written /\ s \in Seq(Written)
  BY DEF FollowsRules
<1>1. r \in Written /\ Said(r) = Said(c[k + 1])
  BY <1>0, RepairedShape
<1>2. Selects(Append(s, r), c, Stay(c, k) \cup {k + 1})
  BY <1>0, <1>1, StayPlaces, SelectsMore DEF FollowsRules
<1> HIDE DEF r
<1>3. Append(s, r) \in Seq(Written)
  BY <1>0, <1>1
<1>4. TextsTo(Append(s, r), Len(Append(s, r))) = TextsTo(s, Len(s)) + Said(r)
  BY <1>0, <1>1, TextsAppended
<1>5. TextsTo(c, k + 1) = TextsTo(c, k) + Said(c[k + 1])
  BY <1>0, TextsGrow
<1>6. TextsTo(Append(s, r), Len(Append(s, r))) = TextsTo(c, k + 1)
  BY <1>1, <1>4, <1>5 DEF FollowsRules
<1> QED
  BY <1>2, <1>3, <1>6 DEF FollowsRules, r

LEMMA RulesAnswer ==
    ASSUME NEW c \in Seq(Written), NEW k \in 0..Len(c) - 1, NEW s, FollowsRules(s, c, k),
           NEW p \in 1..k, LastCounts(c, p, k), c[p].role = "assistant", c[p].uses # {},
           c[k + 1].role = "user", Answers(c, p, k + 1)
    PROVE  FollowsRules(Append(Append(s, c[p]), c[k + 1]), c, k + 1)
<1> DEFINE P == Stay(c, k)
<1>0. /\ k \in Nat /\ k + 1 \in Nat /\ c[k + 1] \in Written /\ c[p] \in Written /\ p \in Nat
      /\ p < k + 1 /\ s \in Seq(Written) /\ (k + 1) - 1 = k
  BY DEF FollowsRules
<1>1. /\ P \subseteq 1..k /\ P \subseteq Nat /\ IsFiniteSet(P)
      /\ \A i \in P : i < k + 1 /\ Counts(c, i)
  BY <1>0, StayPlaces
<1>2. p \notin P
  <2> SUFFICES ASSUME p \in P PROVE FALSE
    OBVIOUS
  <2>1. PICK j \in p + 1 .. k : Answers(c, p, j)
    BY DEF Stay
  <2>2. Counts(c, j)
    BY <2>1 DEF Answers
  <2> QED
    BY <2>1, <2>2 DEF LastCounts
<1> HIDE DEF P
<1>3. ASSUME NEW i \in P PROVE i < p
  <2>1. i \in 1..k /\ i # p /\ Counts(c, i)
    BY <1>1, <1>2
  <2>2. i \notin p + 1 .. k
    BY <2>1 DEF LastCounts
  <2> QED
    BY <2>1, <2>2, <1>0
<1>4. Repaired(c, p) = c[p] /\ Repaired(c, k + 1) = c[k + 1]
  <2>1. c[p].results = {}
    BY <1>0, WrittenFields
  <2>2. AnswersCalls(c, k + 1)
    BY <1>0 DEF AnswersCalls
  <2> QED
    BY <2>1, <2>2 DEF Repaired
<1>5. Selects(Append(s, c[p]), c, P \cup {p})
  <2>1. Selects(s, c, P)
    BY DEF FollowsRules, P
  <2> QED
    BY <2>1, <1>0, <1>1, <1>3, <1>4, SelectsMore
<1> DEFINE t == Append(s, c[p])
<1>6. t \in Seq(Written)
  BY <1>0
<1>7. TextsTo(t, Len(t)) = TextsTo(s, Len(s)) + 0
  <2>1. Said(c[p]) = 0
    BY DEF Said
  <2> QED
    BY <2>1, <1>0, TextsAppended
<1> HIDE DEF t
<1>8. Selects(Append(t, c[k + 1]), c, (P \cup {p}) \cup {k + 1})
  <2> DEFINE Q == P \cup {p}
  <2>1. IsFiniteSet(Q) /\ Q \subseteq Nat /\ \A i \in Q : i < k + 1
    BY <1>0, <1>1, FS_AddElement
  <2>2. Selects(t, c, Q)
    BY <1>5 DEF t
  <2> HIDE DEF Q
  <2>3. Selects(Append(t, c[k + 1]), c, Q \cup {k + 1})
    BY <2>1, <2>2, <1>0, <1>4, <1>6, SelectsMore
  <2> QED
    BY <2>3 DEF Q
<1>9. Stay(c, k + 1) = (P \cup {p}) \cup {k + 1}
  <2>1. \A q \in 1..k :
           Answers(c, q, k + 1) /\ c[q].role = "assistant" /\ c[k + 1].role = "user"
              => Stay(c, k + 1) = (Stay(c, k) \cup {q}) \cup {k + 1}
    BY <1>0, StayNext
  <2> QED
    BY ONLY <2>1, p \in 1..k, Answers(c, p, k + 1), c[p].role = "assistant",
            c[k + 1].role = "user" DEF P
<1> DEFINE u == Append(t, c[k + 1])
<1>10. u \in Seq(Written)
  BY <1>0, <1>6
<1>11. TextsTo(u, Len(u)) = TextsTo(t, Len(t)) + Said(c[k + 1])
  BY <1>0, <1>6, TextsAppended
<1>12. TextsTo(c, k) \in Nat /\ TextsTo(c, k + 1) = TextsTo(c, k) + Said(c[k + 1])
  BY <1>0, TextsGrow
<1> HIDE DEF u
<1>13. TextsTo(u, Len(u)) = TextsTo(c, k + 1)
  <2>1. TextsTo(s, Len(s)) = TextsTo(c, k)
    BY DEF FollowsRules
  <2>2. TextsTo(t, Len(t)) = TextsTo(c, k)
    BY <2>1, <1>7, <1>12
  <2> QED
    BY <2>2, <1>11, <1>12
<1>14. Selects(u, c, Stay(c, k + 1))
  BY <1>8, <1>9 DEF u
<1>15. FollowsRules(u, c, k + 1)
  BY <1>10, <1>13, <1>14 DEF FollowsRules
<1> QED
  BY <1>15 DEF t, u

\* The state of the scan of c after k messages.
RuleState(acc, k, c) ==
    \/ /\ acc.pending = {} /\ FollowsRules(acc.out, c, k)
       /\ \A p \in 1..k : LastCounts(c, p, k) => c[p].uses = {}
    \/ /\ acc.pending # {}
       /\ \E s : \E p \in 1..k :
             /\ LastCounts(c, p, k) /\ c[p].uses = acc.pending /\ FollowsRules(s, c, k)
             /\ acc.out = Append(s, c[p]) /\ acc.at = Len(s) + 1

\* A message that counts is the last one that does.
LEMMA NewIsLast ==
    ASSUME NEW c, NEW k \in Nat, Counts(c, k + 1)
    PROVE  LastCounts(c, k + 1, k + 1) /\ \A p \in 1..k + 1 : LastCounts(c, p, k + 1) => p = k + 1
<1>1. k + 1 \in 1..k + 1 /\ (k + 1) + 1 .. k + 1 = {}
  OBVIOUS
<1>2. LastCounts(c, k + 1, k + 1)
  BY <1>1 DEF LastCounts
<1> QED
  BY <1>2, LastIsOne

LEMMA RuleStateSkips ==
    ASSUME NEW c \in Seq(Written), NEW k \in 0..Len(c) - 1, NEW acc, RuleState(acc, k, c),
           ~Counts(c, k + 1)
    PROVE  RuleState(acc, k + 1, c)
<1>0. k \in Nat /\ c[k + 1] \in Written
  OBVIOUS
<1>1. Said(c[k + 1]) = 0
  BY <1>0, WrittenFields DEF Counts, Said
<1>2. k + 1 \notin Stay(c, k + 1) /\ \A i \in 1..k : ~Answers(c, i, k + 1)
  BY <1>0, StayGrows DEF Answers
<1>3. Stay(c, k + 1) = Stay(c, k)
  BY <1>0, <1>2, StayNext
<1>4. \A s : FollowsRules(s, c, k) => FollowsRules(s, c, k + 1)
  BY <1>0, <1>1, <1>3, RulesSkip
<1>5. ASSUME NEW p \in 1..k PROVE p \in 1..k + 1 /\ (LastCounts(c, p, k) <=> LastCounts(c, p, k + 1))
  <2>1. p \in 1..k + 1 /\ \A i : i \in p + 1 .. k + 1 <=> i \in p + 1 .. k \/ i = k + 1
    BY <1>0
  <2> QED
    BY <2>1 DEF LastCounts
<1>6. \A p \in 1..k + 1 : LastCounts(c, p, k + 1) => p \in 1..k
  <2>1. \A p \in 1..k + 1 : p \in 1..k \/ p = k + 1
    BY <1>0
  <2> QED
    BY <2>1 DEF LastCounts
<1>7. CASE acc.pending = {}
  BY <1>4, <1>5, <1>6, <1>7 DEF RuleState
<1>8. CASE acc.pending # {}
  <2>1. PICK s : \E p \in 1..k :
            /\ LastCounts(c, p, k) /\ c[p].uses = acc.pending /\ FollowsRules(s, c, k)
            /\ acc.out = Append(s, c[p]) /\ acc.at = Len(s) + 1
    BY <1>8 DEF RuleState
  <2>2. PICK p \in 1..k :
            /\ LastCounts(c, p, k) /\ c[p].uses = acc.pending /\ FollowsRules(s, c, k)
            /\ acc.out = Append(s, c[p]) /\ acc.at = Len(s) + 1
    BY <2>1
  <2>3. p \in 1..k + 1 /\ LastCounts(c, p, k + 1) /\ FollowsRules(s, c, k + 1)
    BY <2>2, <1>4, <1>5
  <2> QED
    BY <2>2, <2>3, <1>8 DEF RuleState
<1> QED
  BY <1>7, <1>8

LEMMA RuleStep ==
    ASSUME NEW c \in Seq(Written), NEW k \in 0..Len(c) - 1, NEW acc, RuleState(acc, k, c)
    PROVE  RuleState(SanitizeStep(acc, c[k + 1]), k + 1, c)
<1>0. k \in Nat /\ Len(c) \in Nat /\ k + 1 \in 1..Len(c) /\ k + 1 \in 1..k + 1 /\ (k + 1) - 1 = k
  OBVIOUS
<1> DEFINE m == c[k + 1]
<1>1. m \in Written
  BY <1>0
<1>2. Counts(c, k + 1) <=> ~(m.role = "assistant" /\ IsEffectivelyEmpty(m))
  BY <1>1, WrittenFields DEF Counts
<1>3. AnswersCalls(c, k + 1) <=> \E i \in 1..k : Answers(c, i, k + 1)
  BY <1>0 DEF AnswersCalls
<1> DEFINE covers == acc.pending # {} /\ m.role = "user" /\ acc.pending \subseteq m.results
           out == IF acc.pending # {} /\ ~covers THEN RemoveAt(acc.out, acc.at) ELSE acc.out
           orphaned == m.role = "user" /\ m.results # {} /\ ~covers
           kept == IF orphaned THEN [m EXCEPT !.results = {}] ELSE m
           stay == m.role = "assistant" /\ IsEffectivelyEmpty(m)
           gone == orphaned /\ IsEffectivelyEmpty(kept)
           new == [out |-> Append(out, kept),
                   pending |-> IF m.role = "assistant" THEN m.uses ELSE {},
                   at |-> Len(out) + 1]
<1>5. SanitizeStep(acc, m) = IF stay THEN acc
                             ELSE IF gone THEN [out |-> out, pending |-> {}, at |-> 0] ELSE new
  BY DEF SanitizeStep
<1>6. CASE stay
  BY <1>2, <1>5, <1>6, RuleStateSkips
<1>7. ~stay => /\ Counts(c, k + 1) /\ LastCounts(c, k + 1, k + 1)
               /\ \A p \in 1..k + 1 : LastCounts(c, p, k + 1) => p = k + 1
  BY <1>0, <1>2, NewIsLast
<1>m. /\ m.role \in {"user", "assistant"} /\ m.text \in BOOLEAN
      /\ (m.role = "assistant" => m.results = {}) /\ (m.role = "user" => m.uses = {})
  BY <1>1, WrittenFields
<1>8. ASSUME ~covers
      PROVE  FollowsRules(out, c, k) /\ \A i \in 1..k : ~Answers(c, i, k + 1)
  <2>1. CASE acc.pending = {}
    <3>1. out = acc.out
      BY <2>1
    <3>2. \A i \in 1..k : ~Answers(c, i, k + 1)
      BY <2>1, <1>0, AnswersIsLast DEF RuleState
    <3> QED
      BY <2>1, <3>1, <3>2 DEF RuleState
  <2>2. CASE acc.pending # {}
    <3>1. PICK s : \E p \in 1..k :
              /\ LastCounts(c, p, k) /\ c[p].uses = acc.pending /\ FollowsRules(s, c, k)
              /\ acc.out = Append(s, c[p]) /\ acc.at = Len(s) + 1
      BY <2>2 DEF RuleState
    <3>2. PICK p \in 1..k :
              /\ LastCounts(c, p, k) /\ c[p].uses = acc.pending /\ FollowsRules(s, c, k)
              /\ acc.out = Append(s, c[p]) /\ acc.at = Len(s) + 1
      BY <3>1
    <3>3. out = s
      <4>1. c[p] \in Written /\ s \in Seq(Written)
        BY <1>0, <3>2 DEF FollowsRules
      <4> QED
        BY <4>1, <2>2, <3>2, <1>8, TakenBack
    <3>4. ASSUME NEW i \in 1..k, Answers(c, i, k + 1) PROVE FALSE
      <4>1. i = p
        BY <3>2, <3>4, <1>0, AnswersIsLast, LastIsOne
      <4> QED
        BY <4>1, <3>2, <3>4, <2>2, <1>8 DEF Answers
    <3> QED
      BY <3>2, <3>3, <3>4
  <2> QED
    BY <2>1, <2>2
<1>9. CASE ~stay /\ covers
  <2>1. ~gone /\ out = acc.out /\ kept = m
    BY <1>9
  <2>2. new.out = Append(acc.out, m) /\ new.pending = {}
    BY <2>1, <1>9
  <2>3. PICK s : \E p \in 1..k :
            /\ LastCounts(c, p, k) /\ c[p].uses = acc.pending /\ FollowsRules(s, c, k)
            /\ acc.out = Append(s, c[p]) /\ acc.at = Len(s) + 1
    BY <1>9 DEF RuleState
  <2>4. PICK p \in 1..k :
            /\ LastCounts(c, p, k) /\ c[p].uses = acc.pending /\ FollowsRules(s, c, k)
            /\ acc.out = Append(s, c[p]) /\ acc.at = Len(s) + 1
    BY <2>3
  <2>5. c[p] \in Written /\ c[p].uses # {} /\ c[p].role = "assistant"
    <3>1. c[p] \in Written /\ c[p].uses # {}
      BY <1>0, <1>9, <2>4
    <3> QED
      BY <3>1, WrittenFields
  <2>6. Answers(c, p, k + 1)
    <3>1. p < k + 1 /\ Counts(c, p) /\ Counts(c, k + 1) /\ \A i \in p + 1 .. (k + 1) - 1 : ~Counts(c, i)
      BY <1>0, <1>7, <1>9, <2>4 DEF LastCounts
    <3> QED
      BY <3>1, <2>4, <2>5, <1>9 DEF Answers
  <2>7. FollowsRules(new.out, c, k + 1)
    BY <2>2, <2>4, <2>5, <2>6, <1>9, RulesAnswer
  <2>8. \A q \in 1..k + 1 : LastCounts(c, q, k + 1) => c[q].uses = {}
    BY <1>7, <1>9, <1>m
  <2> HIDE DEF new
  <2>9. RuleState(new, k + 1, c)
    BY <2>2, <2>7, <2>8 DEF RuleState
  <2> QED
    BY <1>5, <1>9, <2>1, <2>9
<1>10. CASE ~stay /\ ~covers /\ gone
  <2>1. m.role = "user" /\ m.results # {} /\ ~m.text
    <3>1. kept = [m EXCEPT !.results = {}]
      BY <1>10
    <3>2. kept.text = m.text
      BY <3>1, <1>1 DEF Written, Message
    <3> QED
      BY <3>2, <1>10 DEF IsEffectivelyEmpty
  <2>2. k + 1 \notin Stay(c, k + 1)
    BY <2>1, <1>0, <1>3, <1>8, <1>10, StayGrows
  <2>3. Stay(c, k + 1) = Stay(c, k)
    BY <2>2, <1>0, <1>8, <1>10, StayNext
  <2>4. Said(c[k + 1]) = 0
    BY <2>1 DEF Said
  <2>5. FollowsRules(out, c, k + 1)
    BY <2>3, <2>4, <1>0, <1>8, <1>10, RulesSkip
  <2>6. \A q \in 1..k + 1 : LastCounts(c, q, k + 1) => c[q].uses = {}
    BY <2>1, <1>7, <1>10, <1>m
  <2> HIDE DEF out
  <2>7. RuleState([out |-> out, pending |-> {}, at |-> 0], k + 1, c)
    BY <2>5, <2>6 DEF RuleState
  <2> QED
    BY <1>5, <1>10, <2>7
<1>11. CASE ~stay /\ ~covers /\ ~gone
  <2>1. ~AnswersCalls(c, k + 1) /\ FollowsRules(out, c, k)
    BY <1>3, <1>8, <1>11
  <2>2. kept = Repaired(c, k + 1)
    BY <2>1, <1>11, <1>m DEF Repaired
  <2>3. m.role = "user" => m.text \/ m.results = {}
    <3> SUFFICES ASSUME m.role = "user", ~m.text, m.results # {} PROVE FALSE
      BY <1>m
    <3>1. orphaned /\ kept = [m EXCEPT !.results = {}]
      BY <1>11
    <3>2. kept.text = m.text /\ kept.uses = {} /\ kept.results = {}
      BY <3>1, <1>1, <1>m DEF Written, Message
    <3> QED
      BY <3>1, <3>2, <1>11 DEF IsEffectivelyEmpty
  <2>4. new.out = Append(out, kept) /\ new.pending = m.uses /\ new.at = Len(out) + 1
    <3> HIDE DEF out, kept
    <3> QED
      BY <1>m
  <2>5. k + 1 \in Stay(c, k + 1) <=> m.uses = {}
    BY <2>1, <2>3, <1>0, <1>7, <1>11, <1>m, StayGrows
  <2>6. \A i \in 1..k : ~Answers(c, i, k + 1)
    BY <1>8, <1>11
  <2> HIDE DEF out, kept, new, covers, orphaned, gone
  <2>7. ASSUME m.uses = {} PROVE RuleState(new, k + 1, c)
    <3>1. Stay(c, k + 1) = Stay(c, k) \cup {k + 1}
      BY <2>5, <2>6, <2>7, <1>0, StayNext
    <3>2. FollowsRules(new.out, c, k + 1)
      BY <3>1, <2>1, <2>2, <2>4, RulesAppend
    <3>3. \A q \in 1..k + 1 : LastCounts(c, q, k + 1) => c[q].uses = {}
      BY <2>7, <1>7, <1>11
    <3> QED
      BY <3>2, <3>3, <2>4, <2>7 DEF RuleState
  <2>8. ASSUME m.uses # {} PROVE RuleState(new, k + 1, c)
    <3>1. m.role = "assistant" /\ m.results = {}
      BY <2>8, <1>m
    <3>2. Stay(c, k + 1) = Stay(c, k) /\ Said(c[k + 1]) = 0
      BY <3>1, <2>5, <2>6, <2>8, <1>0, StayNext DEF Said
    <3>3. FollowsRules(out, c, k + 1)
      BY <3>2, <2>1, <1>0, RulesSkip
    <3>4. kept = c[k + 1]
      BY <3>1, <2>2 DEF Repaired
    <3>5. LastCounts(c, k + 1, k + 1)
      BY <1>7, <1>11
    <3> QED
      BY <3>3, <3>4, <3>5, <2>4, <2>8, <1>0 DEF RuleState
  <2> QED
    BY <1>5, <1>11, <2>7, <2>8
<1> QED
  BY <1>6, <1>9, <1>10, <1>11

LEMMA RuleBegins ==
    ASSUME NEW c
    PROVE  RuleState(NothingYet, 0, c)
<1>1. 1..0 = {} /\ Stay(c, 0) = {} /\ {i \in 1..0 : c[i].role = "user" /\ c[i].text} = {}
  BY DEF Stay
<1>2. TextsTo(c, 0) = 0
  BY <1>1, FS_EmptySet DEF TextsTo
<1>3. TextsTo(<<>>, Len(<<>>)) = 0
  <2>1. Len(<<>>) = 0
    OBVIOUS
  <2>2. {i \in 1..Len(<<>>) : <<>>[i].role = "user" /\ <<>>[i].text} = {}
    BY <2>1
  <2> QED
    BY <2>2, FS_EmptySet DEF TextsTo
<1>4. Selects(<<>>, c, {})
  BY FS_EmptySet DEF Selects
<1>5. FollowsRules(<<>>, c, 0)
  BY <1>1, <1>2, <1>3, <1>4 DEF FollowsRules
<1> QED
  BY <1>1, <1>5 DEF RuleState, NothingYet

LEMMA RuleHolds ==
    ASSUME NEW c \in Seq(Written), NEW f, f[0] = NothingYet,
           \A k \in 0..Len(c) - 1 : f[k + 1] = SanitizeStep(f[k], c[k + 1])
    PROVE  RuleState(f[Len(c)], Len(c), c)
<1> DEFINE G == {k \in 0..Len(c) : RuleState(f[k], k, c)}
<1>a. Len(c) \in Nat /\ 0 \in 0..Len(c) /\ Len(c) \in 0..Len(c)
  OBVIOUS
<1>1. 0 \in G
  BY <1>a, RuleBegins
<1>2. ASSUME NEW k \in 0..Len(c) - 1, k \in G PROVE k + 1 \in G
  <2>1. RuleState(f[k], k, c)
    BY <1>2
  <2>2. RuleState(SanitizeStep(f[k], c[k + 1]), k + 1, c)
    BY <2>1, RuleStep
  <2>3. k + 1 \in 0..Len(c)
    BY <1>a
  <2> QED
    BY <2>2, <2>3
<1> HIDE DEF G
<1>3. Len(c) \in G
  BY <1>a, <1>1, <1>2, UpTo
<1> QED
  BY <1>3 DEF G

\* The scan that takes back what it kept returns what the rules say at once.
LEMMA SanitizeFollowsRules ==
    ASSUME NEW c \in Seq(Written)
    PROVE  FollowsRules(Sanitize(c), c, Len(c))
<1>1. PICK f : /\ f[0] = NothingYet
               /\ \A k \in 0..Len(c) - 1 : f[k + 1] = SanitizeStep(f[k], c[k + 1])
               /\ Sanitize(c) = Settle(f[Len(c)])
  BY WrittenMessages, SanitizeScans
<1>2. RuleState(f[Len(c)], Len(c), c)
  BY <1>1, RuleHolds
<1> DEFINE acc == f[Len(c)]
           n == Len(c)
<1>a. n \in Nat /\ \A p \in 1..n : c[p] \in Written
  OBVIOUS
<1>3. Sanitize(c) = Settle(acc) /\ RuleState(acc, n, c)
  BY <1>1, <1>2
<1> HIDE DEF acc, n
<1>4. CASE acc.pending = {}
  BY <1>3, <1>4 DEF RuleState, Settle, n
<1>5. CASE acc.pending # {}
  <2>1. PICK s : \E p \in 1..n :
            /\ LastCounts(c, p, n) /\ c[p].uses = acc.pending /\ FollowsRules(s, c, n)
            /\ acc.out = Append(s, c[p]) /\ acc.at = Len(s) + 1
    BY <1>3, <1>5 DEF RuleState
  <2>2. PICK p \in 1..n :
            FollowsRules(s, c, n) /\ acc.out = Append(s, c[p]) /\ acc.at = Len(s) + 1
    BY <2>1
  <2>3. s \in Seq(Written) /\ c[p] \in Written
    BY <2>2, <1>a DEF FollowsRules
  <2>4. RemoveAt(acc.out, acc.at) = s
    BY <2>2, <2>3, TakenBack
  <2> QED
    BY <2>2, <2>4, <1>3, <1>5 DEF Settle, n
<1> QED
  BY <1>4, <1>5

\* Every history of messages the kernel writes, in any order and of any length,
\* is restored (sanitize_conversation_messages) to what the rules of the doc
\* comment keep of it: paired, with every text of the user, unchanged by a
\* second repair, and left paired by each level of auto_compact_if_needed.
THEOREM HistoriesAreRepaired == HistorySpec => []TranscriptHolds
<1> DEFINE HistoryInv == history \in Seq(Written)
<1>1. HistoryInit => HistoryInv
  BY DEF HistoryInit
<1>2. HistoryInv /\ [HistoryNext]_history => HistoryInv'
  BY DEF HistoryNext
<1>3. ASSUME HistoryInv PROVE TranscriptHolds
  <2> DEFINE s == Sanitize(history)
  <2>0. history \in Seq(Written)
    BY <1>3
  <2>1. FollowsRules(s, history, Len(history))
    BY <2>0, SanitizeFollowsRules
  <2>2. Covered(s) /\ Sanitize(s) = s
    BY <2>0, SanitizeRepairsHistories
  <2>3. SanitizeRepairs
    BY <2>1, <2>2 DEF SanitizeRepairs, FollowsRules
  <2>4. Paired(s, FALSE)
    BY <2>0, SanitizePairs
  <2> HIDE DEF s
  <2>5. ASSUME NEW keep \in 1..MaxLength
        PROVE  /\ Covered(ContextCollapse(s, keep)) /\ Covered(Condense(s, keep))
               /\ Covered(Split(s, keep).older) /\ Covered(TruncateHead(Split(s, keep).older))
    <3>1. keep \in Nat \ {0}
      BY HistoryAssumption
    <3>2. Paired(ContextCollapse(s, keep), FALSE) /\ Paired(Condense(s, keep), FALSE)
      BY <2>4, <3>1, CollapsePaired, CondensePaired
    <3>3. Paired(Split(s, keep).older, FALSE)
      BY <2>4, <3>1, SplitPaired
    <3>4. Paired(TruncateHead(Split(s, keep).older), FALSE)
      BY <3>3, TruncatePaired
    <3> QED
      BY <3>2, <3>3, <3>4 DEF Paired
  <2>6. CompactionKeepsPairs
    BY <2>5 DEF CompactionKeepsPairs, s
  <2> QED
    BY <2>3, <2>6 DEF TranscriptHolds
<1> QED
  BY <1>1, <1>2, <1>3, PTL DEF HistorySpec

-----------------------------------------------------------------------------
(* The event loop.                                                         *)

SummaryRecord == [asked : Seq(Written), ptl : Nat, again : Nat]

\* Phases in which the conversation is, or is about to be, a request.
Asking == {"querying", "compacting", "summarizing", "opening", "streaming", "tail"}
\* Phases of a turn that was admitted under the limit.
InTurn == (Asking \ {"querying"}) \cup {"executing", "dispatching"}

LoopTyped ==
    /\ phase \in Phases /\ turn \in Nat /\ turn <= MaxTurns
    /\ conv \in Seq(Written) /\ Tidy(conv)
    /\ batch \in SUBSET ToolIds /\ summary \in SummaryRecord

\* The last message holds the calls that are being run.
BatchIsLast ==
    \E s : Paired(s, TRUE) /\ conv = Append(s, Answer(FALSE, batch))

OlderIsAsked == \E s : Paired(s, TRUE) /\ summary.asked = Append(s, UserText)

KernelInv ==
    /\ LoopTyped
    /\ phase \in Asking => Paired(conv, TRUE)
    /\ phase \in InTurn => turn < MaxTurns
    /\ phase \in {"executing", "dispatching"} => batch # {} /\ BatchIsLast
    /\ phase = "summarizing" => OlderIsAsked

LEMMA MessagesAreWritten ==
    /\ UserText \in Written
    /\ Answer(TRUE, {}) \in Written /\ Answer(TRUE, {}).role = "assistant"
    /\ Answer(TRUE, {}).uses = {} /\ Answer(TRUE, {}).results = {}
    /\ ~IsEffectivelyEmpty(Answer(TRUE, {}))
    /\ \A ids \in SUBSET ToolIds :
          /\ Answer(FALSE, ids) \in Written /\ Answer(FALSE, ids).role = "assistant"
          /\ Answer(FALSE, ids).uses = ids /\ Answer(FALSE, ids).results = {}
          /\ ids # {} => ~IsEffectivelyEmpty(Answer(FALSE, ids))
          /\ ToolResults(ids) \in Written /\ ToolResults(ids).role = "user"
          /\ ToolResults(ids).uses = {} /\ ToolResults(ids).results = ids
BY UserTextIsWritten DEF Answer, ToolResults, Written, Message, IsEffectivelyEmpty

\* Calls that are made leave a tidy history, and their results a paired one.
LEMMA CallsMade ==
    ASSUME NEW s, Paired(s, TRUE), NEW ids \in SUBSET ToolIds, ids # {}
    PROVE  /\ Append(s, Answer(FALSE, ids)) \in Seq(Written)
           /\ Tidy(Append(s, Answer(FALSE, ids)))
           /\ Paired(Append(Append(s, Answer(FALSE, ids)), ToolResults(ids)), TRUE)
<1> DEFINE m == Answer(FALSE, ids)
           t == Append(s, m)
<1>a. m \in Written /\ m.results = {} /\ ~IsEffectivelyEmpty(m) /\ m.uses = ids
  BY MessagesAreWritten
<1>b. s \in Seq(Written) /\ Tidy(s) /\ Len(s) \in Nat
  BY PairedIsTidy
<1> HIDE DEF m
<1>1. /\ t \in Seq(Written) /\ Len(t) = Len(s) + 1 /\ t[Len(s) + 1] = m
      /\ \A i \in 1..Len(s) : t[i] = s[i]
  BY <1>a, <1>b, AppendShape
<1> HIDE DEF t
<1>2. ASSUME NEW i \in 1..Len(t)
      PROVE  /\ t[i].role = "assistant" => ~IsEffectivelyEmpty(t[i])
             /\ (i > 1 /\ t[i - 1].uses # {}) => t[i].results \subseteq t[i - 1].uses
  <2>1. CASE i = Len(s) + 1
    BY <2>1, <1>1, <1>a
  <2>2. CASE i \in 1..Len(s)
    <3>1. t[i] = s[i] /\ (i > 1 => t[i - 1] = s[i - 1])
      BY <2>2, <1>1, <1>b
    <3> QED
      BY <2>2, <3>1, <1>b DEF Tidy
  <2> QED
    BY <2>1, <2>2, <1>1, <1>b
<1>3. Tidy(t)
  BY <1>2 DEF Tidy
<1>4. Paired(Append(Append(s, m), ToolResults(ids)), TRUE)
  <2> DEFINE n == ToolResults(ids)
  <2>1. n \in Written /\ n.role = "user" /\ n.results = ids
    BY MessagesAreWritten
  <2>2. m.uses # {} /\ m.uses \subseteq n.results /\ n.results \subseteq m.uses
    BY <2>1, <1>a
  <2> HIDE DEF n
  <2>3. Paired(Append(Append(s, m), n), TRUE)
    BY <2>1, <2>2, <1>a, PairedAnswer
  <2> QED
    BY <2>3 DEF n
<1> QED
  BY <1>1, <1>3, <1>4 DEF t, m

LEMMA KernelInitInv == KernelInit => KernelInv
<1> SUFFICES ASSUME KernelInit PROVE KernelInv
  OBVIOUS
<1>1. conv \in Seq(Written) /\ Tidy(conv)
  BY KernelAssumption DEF KernelInit
<1>2. MaxTurns \in Nat
  BY KernelAssumption
<1>3. <<>> \in Seq(Written)
  OBVIOUS
<1>4. summary \in SummaryRecord
  BY <1>3 DEF KernelInit, NoSummary, SummaryRecord
<1>5. LoopTyped
  BY <1>1, <1>2, <1>4 DEF KernelInit, LoopTyped, Phases
<1> QED
  BY <1>5 DEF KernelInit, KernelInv, Asking, InTurn

\* A step that leaves the conversation alone.
Moves ==
    \/ phase' = phase
    \/ phase' \in Phases \ (Asking \cup InTurn)
    \/ phase = "querying" /\ turn < MaxTurns /\ phase' \in {"opening", "compacting"}
    \/ phase \in {"compacting", "summarizing"} /\ phase' = "opening"
    \/ phase = "opening" /\ phase' = "streaming"
    \/ phase = "streaming" /\ phase' = "tail"
    \/ phase = "executing" /\ phase' = "dispatching"

LEMMA MovesKeep ==
    ASSUME KernelInv, Moves, UNCHANGED <<turn, conv, batch>>,
           summary' \in SummaryRecord,
           phase' = "summarizing" => summary'.asked = summary.asked
    PROVE  KernelInv'
<1>1. LoopTyped'
  BY DEF KernelInv, LoopTyped, Moves, Phases, Querying, Executing
<1>2. phase' \in Asking => Paired(conv, TRUE)
  BY DEF KernelInv, Moves, Asking, InTurn
<1>3. phase' \in InTurn => turn < MaxTurns
  BY DEF KernelInv, Moves, Asking, InTurn
<1>4. phase' \in {"executing", "dispatching"} => phase \in {"executing", "dispatching"}
  BY DEF Moves, Asking, InTurn
<1>5. phase' = "summarizing" => phase = "summarizing"
  BY DEF Moves, Asking, InTurn
<1>6. phase' \in {"executing", "dispatching"} => batch # {} /\ BatchIsLast
  BY <1>4 DEF KernelInv
<1>7. BatchIsLast => BatchIsLast'
  BY DEF BatchIsLast
<1>8. phase' = "summarizing" => OlderIsAsked'
  BY <1>5 DEF KernelInv, OlderIsAsked
<1> QED
  BY <1>1, <1>2, <1>3, <1>6, <1>7, <1>8 DEF KernelInv

Calm ==
    \/ Start
    \/ IdleReceive \/ IdleClosed \/ IdleTimeout \/ WaitingOver
    \/ ObserveSystem \/ ObserveBlocked
    \/ QueryInterrupted \/ QueryLimit \/ QueryTurn \/ CompactBlocked
    \/ OpenStream \/ OpenFails \/ StreamInterrupted
    \/ AnswerEmpty \/ AnswerInvalid \/ StopHookDone \/ BatchDispatch \/ HaltHookDone
    \/ StreamGivesUp \/ StreamEnds \/ StreamComplete
    \/ HostInterrupt \/ \E kind \in EventKinds : HostSend(kind)

LEMMA CalmKeeps == ASSUME KernelInv, Calm PROVE KernelInv'
<1> USE DEF Moves, Phases, Querying, Executing, Asking, InTurn, inner
<1>1. CASE Start \/ IdleReceive \/ IdleClosed \/ IdleTimeout \/ WaitingOver \/ ObserveSystem
           \/ ObserveBlocked
  <2>1. Moves /\ UNCHANGED <<turn, conv, batch, summary>>
    BY <1>1 DEF Start, IdleReceive, IdleClosed, IdleTimeout, WaitingOver, ObserveSystem,
                ObserveBlocked
  <2> QED
    BY <2>1, MovesKeep DEF KernelInv, LoopTyped
<1>2. CASE QueryInterrupted \/ QueryLimit \/ QueryTurn \/ CompactBlocked \/ OpenStream
           \/ OpenFails \/ StreamInterrupted
  <2>1. Moves /\ UNCHANGED <<turn, conv, batch, summary>>
    BY <1>2 DEF QueryInterrupted, QueryLimit, QueryTurn, CompactBlocked, OpenStream,
                OpenFails, StreamInterrupted
  <2> QED
    BY <2>1, MovesKeep DEF KernelInv, LoopTyped
<1>3. CASE AnswerEmpty \/ AnswerInvalid \/ StopHookDone \/ BatchDispatch \/ HaltHookDone
           \/ StreamGivesUp \/ StreamEnds \/ StreamComplete
  <2>1. Moves /\ UNCHANGED <<turn, conv, batch, summary>>
    BY <1>3 DEF AnswerEmpty, AnswerInvalid, StopHookDone, BatchDispatch, HaltHookDone,
                StreamGivesUp, StreamEnds, StreamComplete
  <2> QED
    BY <2>1, MovesKeep DEF KernelInv, LoopTyped
<1>4. CASE HostInterrupt \/ \E kind \in EventKinds : HostSend(kind)
  <2>1. Moves /\ UNCHANGED <<turn, conv, batch, summary>>
    BY <1>4 DEF HostInterrupt, HostSend
  <2> QED
    BY <2>1, MovesKeep DEF KernelInv, LoopTyped
<1> QED
  BY <1>1, <1>2, <1>3, <1>4 DEF Calm

\* A step to a phase in which the new conversation is a request, or rests.
LEMMA PairedKeeps ==
    ASSUME KernelInv, Paired(conv', TRUE), turn' \in Nat, turn' <= MaxTurns,
           phase' \in Phases \ {"executing", "dispatching", "summarizing"},
           phase' \in InTurn => turn' < MaxTurns,
           UNCHANGED batch, summary' \in SummaryRecord
    PROVE  KernelInv'
<1>1. conv' \in Seq(Written) /\ Tidy(conv')
  BY PairedIsTidy
<1>2. LoopTyped'
  BY <1>1 DEF KernelInv, LoopTyped
<1> QED
  BY <1>2 DEF KernelInv

LEMMA ObserveKeeps ==
    ASSUME KernelInv, PrepareContinuation \/ ObserveClear \/ ObservePrompt
    PROVE  KernelInv'
<1>a. /\ conv \in Seq(Written) /\ Tidy(conv) /\ turn \in Nat /\ turn <= MaxTurns
      /\ summary \in SummaryRecord /\ MaxTurns \in Nat
  BY KernelAssumption DEF KernelInv, LoopTyped
<1>b. Paired(Sanitize(conv), TRUE)
  BY <1>a, SanitizePairsTidy
<1>c. {"querying", "idle"} \subseteq Phases \ ({"executing", "dispatching", "summarizing"} \cup InTurn)
  BY DEF Phases, Querying, Executing, InTurn, Asking
<1>1. CASE PrepareContinuation
  <2>1. conv' = Sanitize(conv) /\ phase' \in {"querying", "idle"} /\ turn' = 0
        /\ UNCHANGED <<batch, summary>>
    BY <1>1 DEF PrepareContinuation
  <2> QED
    BY <2>1, <1>a, <1>b, <1>c, PairedKeeps
<1>2. CASE ObserveClear
  <2>1. conv' = <<>> /\ phase' = "idle" /\ UNCHANGED <<turn, batch, summary>>
    BY <1>2 DEF ObserveClear
  <2> QED
    BY <2>1, <1>a, <1>c, PairedNil, PairedKeeps
<1>3. CASE ObservePrompt
  <2>1. /\ conv' \in {Sanitize(conv), Append(Sanitize(conv), UserText)}
        /\ phase' \in {"querying", "idle"} /\ turn' = 0 /\ UNCHANGED <<batch, summary>>
    BY <1>3 DEF ObservePrompt
  <2>2. Paired(Append(Sanitize(conv), UserText), TRUE)
    BY <1>b, PairedAppend, UserTextIsWritten
  <2>3. Paired(conv', TRUE)
    BY <2>1, <2>2, <1>b
  <2> QED
    BY <2>1, <2>3, <1>a, <1>c, PairedKeeps
<1> QED
  BY <1>1, <1>2, <1>3

\* The first conjunct of CompactLocally and CompactBySummary.
LEMMA CollapsedPaired ==
    ASSUME NEW c \in Collapsed(conv), Paired(conv, TRUE)
    PROVE  Paired(c, TRUE)
<1>1. PreserveRecent \in Nat \ {0}
  BY KernelAssumption
<1>2. c = conv \/ c = ContextCollapse(conv, PreserveRecent)
  BY DEF Collapsed
<1> QED
  BY <1>1, <1>2, CollapsePaired

LEMMA CompactKeeps ==
    ASSUME KernelInv, CompactLocally \/ CompactBySummary \/ SummaryDone
    PROVE  KernelInv'
<1>a. /\ PreserveRecent \in Nat \ {0} /\ MemoryKeepRecent \in Nat \ {0}
      /\ turn \in Nat /\ turn <= MaxTurns /\ summary \in SummaryRecord
  BY KernelAssumption DEF KernelInv, LoopTyped
<1>b. phase \in {"compacting", "summarizing"} /\ Paired(conv, TRUE) /\ turn < MaxTurns
  BY DEF CompactLocally, CompactBySummary, SummaryDone, KernelInv, Asking, InTurn
<1>c. "opening" \in Phases \ {"executing", "dispatching", "summarizing"}
  BY DEF Phases, Querying
<1>d. NoSummary \in SummaryRecord
  <2>1. <<>> \in Seq(Written)
    OBVIOUS
  <2> QED
    BY <2>1 DEF NoSummary, SummaryRecord
<1>1. CASE CompactLocally
  <2> DEFINE keep == Max({PreserveRecent, MemoryKeepRecent})
  <2>1. keep \in Nat \ {0}
    BY <1>a, MinMaxOfTwo
  <2> HIDE DEF keep
  <2>2. PICK c \in Collapsed(conv) : conv' \in {c, Condense(c, keep)}
    BY <1>1 DEF CompactLocally, keep
  <2>3. Paired(c, TRUE)
    BY <1>b, CollapsedPaired
  <2>4. Paired(conv', TRUE)
    BY <2>1, <2>2, <2>3, CondensePaired
  <2>5. phase' = "opening" /\ UNCHANGED <<turn, batch, summary>>
    BY <1>1 DEF CompactLocally
  <2> QED
    BY <2>4, <2>5, <1>a, <1>b, <1>c, PairedKeeps
<1>2. CASE SummaryDone
  <2>1. conv' = Condense(conv, PreserveRecent) /\ phase' = "opening" /\ summary' = NoSummary
        /\ UNCHANGED <<turn, batch>>
    BY <1>2 DEF SummaryDone
  <2>2. Paired(conv', TRUE)
    BY <2>1, <1>a, <1>b, CondensePaired
  <2> QED
    BY <2>1, <2>2, <1>a, <1>b, <1>c, <1>d, PairedKeeps
<1>3. CASE CompactBySummary
  <2>1. PICK c \in Collapsed(conv) :
           /\ conv' = c
           /\ phase' = IF Split(c, PreserveRecent).older = <<>> THEN "opening" ELSE "summarizing"
           /\ summary' = IF Split(c, PreserveRecent).older = <<>> THEN NoSummary
                         ELSE [NoSummary EXCEPT
                                  !.asked = Append(Split(c, PreserveRecent).older, UserText)]
    BY <1>3 DEF CompactBySummary
  <2>2. UNCHANGED <<turn, batch>>
    BY <1>3 DEF CompactBySummary
  <2> DEFINE older == Split(c, PreserveRecent).older
  <2>3. Paired(c, TRUE) /\ Paired(older, TRUE)
    <3>1. Paired(c, TRUE)
      BY <1>b, CollapsedPaired
    <3> QED
      BY <3>1, <1>a, SplitPaired
  <2> HIDE DEF older
  <2>4. CASE older = <<>>
    BY <2>1, <2>2, <2>3, <2>4, <1>a, <1>b, <1>c, <1>d, PairedKeeps DEF older
  <2>5. CASE older # <<>>
    <3>1. phase' = "summarizing"
      BY <2>1, <2>5 DEF older
    <3>2. Append(older, UserText) \in Seq(Written)
      BY <2>3, UserTextIsWritten, AppendShape DEF Paired
    <3>3. summary' = [NoSummary EXCEPT !.asked = Append(older, UserText)]
      BY <2>1, <2>5 DEF older
    <3>4. summary' \in SummaryRecord /\ summary'.asked = Append(older, UserText)
      BY <3>2, <3>3 DEF NoSummary, SummaryRecord
    <3>5. OlderIsAsked'
      BY <3>4, <2>3 DEF OlderIsAsked
    <3>6. Paired(conv', TRUE)
      BY <2>1, <2>3
    <3>7. LoopTyped'
      BY <3>1, <3>4, <3>6, <2>2, PairedIsTidy DEF KernelInv, LoopTyped, Phases, Querying
    <3> QED
      BY <3>1, <3>5, <3>6, <3>7, <2>2, <1>b DEF KernelInv
  <2> QED
    BY <2>4, <2>5
<1> QED
  BY <1>1, <1>2, <1>3

LEMMA FrontOfAppend ==
    ASSUME NEW s \in Seq(Written), NEW m \in Written
    PROVE  Front(Append(s, m)) = s
BY DEF Front

LEMMA SummaryKeeps ==
    ASSUME KernelInv, SummaryRetryShorter \/ SummaryRetry \/ SummaryFails
    PROVE  KernelInv'
<1>a. phase = "summarizing" /\ summary \in SummaryRecord /\ OlderIsAsked
  BY DEF SummaryRetryShorter, SummaryRetry, SummaryFails, KernelInv, LoopTyped
<1>1. CASE SummaryRetryShorter
  <2>1. PICK s : Paired(s, TRUE) /\ summary.asked = Append(s, UserText)
    BY <1>a DEF OlderIsAsked
  <2>2. Front(summary.asked) = s
    BY <2>1, UserTextIsWritten, FrontOfAppend DEF Paired
  <2>3. Paired(TruncateHead(s), TRUE)
    BY <2>1, TruncatePaired
  <2> DEFINE asked == Append(TruncateHead(s), UserText)
  <2>4. asked \in Seq(Written)
    BY <2>3, UserTextIsWritten, AppendShape DEF Paired
  <2>5. summary' = [summary EXCEPT !.ptl = summary.ptl + 1, !.asked = asked]
        /\ UNCHANGED <<phase, turn, conv, batch>>
    BY <1>1, <2>2 DEF SummaryRetryShorter
  <2>6. summary' \in SummaryRecord /\ summary'.asked = asked
    <3> HIDE DEF asked
    <3>1. summary.ptl + 1 \in Nat
      BY <1>a DEF SummaryRecord
    <3> QED
      BY <3>1, <2>4, <2>5, <1>a DEF SummaryRecord
  <2>7. OlderIsAsked'
    BY <2>3, <2>6 DEF OlderIsAsked
  <2>8. LoopTyped'
    BY <2>5, <2>6 DEF KernelInv, LoopTyped
  <2> QED
    BY <2>5, <2>7, <2>8, <1>a DEF KernelInv
<1>2. CASE SummaryRetry
  <2>1. summary' = [summary EXCEPT !.again = summary.again + 1]
        /\ UNCHANGED <<phase, turn, conv, batch>>
    BY <1>2 DEF SummaryRetry
  <2>2. summary' \in SummaryRecord /\ summary'.asked = summary.asked
    BY <2>1, <1>a DEF SummaryRecord
  <2> QED
    BY <2>1, <2>2, MovesKeep DEF Moves
<1>3. CASE SummaryFails
  <2>1. <<>> \in Seq(Written)
    OBVIOUS
  <2>2. NoSummary \in SummaryRecord
    BY <2>1 DEF NoSummary, SummaryRecord
  <2>3. phase' = "opening" /\ summary' = NoSummary /\ UNCHANGED <<turn, conv, batch>>
    BY <1>3 DEF SummaryFails
  <2> QED
    BY <2>2, <2>3, <1>a, MovesKeep DEF Moves
<1> QED
  BY <1>1, <1>2, <1>3

LEMMA AnswerKeeps ==
    ASSUME KernelInv, AnswerFinal \/ AnswerWithTools \/ BatchInterrupted \/ BatchDone
    PROVE  KernelInv'
<1>a. turn \in Nat /\ turn <= MaxTurns /\ summary \in SummaryRecord /\ MaxTurns \in Nat
      /\ batch \in SUBSET ToolIds
  BY KernelAssumption DEF KernelInv, LoopTyped
<1>1. CASE AnswerFinal
  <2>1. Paired(conv, TRUE)
    BY <1>1 DEF AnswerFinal, KernelInv, Asking
  <2>2. Paired(Append(conv, Answer(TRUE, {})), TRUE)
    BY <2>1, MessagesAreWritten, PairedAppend
  <2>3. /\ conv' = Append(conv, Answer(TRUE, {})) /\ UNCHANGED <<turn, batch, summary>>
        /\ phase' \in Phases \ ({"executing", "dispatching", "summarizing"} \cup InTurn)
    BY <1>1 DEF AnswerFinal, inner, Phases, Querying, Executing, InTurn, Asking
  <2> QED
    BY <2>2, <2>3, <1>a, PairedKeeps
<1>2. CASE AnswerWithTools
  <2>1. Paired(conv, TRUE) /\ turn < MaxTurns
    BY <1>2 DEF AnswerWithTools, KernelInv, Asking, InTurn
  <2>2. PICK ids \in (SUBSET ToolIds) \ {{}} : batch' = ids /\ conv' = Append(conv, Answer(FALSE, ids))
    BY <1>2 DEF AnswerWithTools
  <2>3. phase' = "executing" /\ UNCHANGED <<turn, summary>>
    BY <1>2 DEF AnswerWithTools
  <2>4. conv' \in Seq(Written) /\ Tidy(conv')
    <3>1. ids \in SUBSET ToolIds /\ ids # {}
      OBVIOUS
    <3> QED
      BY <3>1, <2>1, <2>2, CallsMade
  <2>5. BatchIsLast' /\ batch' # {}
    <3>1. Paired(conv, TRUE) /\ conv' = Append(conv, Answer(FALSE, batch'))
      BY <2>1, <2>2
    <3> QED
      BY <3>1, <2>2 DEF BatchIsLast
  <2>6. LoopTyped'
    BY <2>2, <2>3, <2>4 DEF KernelInv, LoopTyped, Phases, Executing
  <2> QED
    BY <2>1, <2>3, <2>5, <2>6 DEF KernelInv, Asking
<1>3. CASE BatchInterrupted \/ BatchDone
  <2>1. phase \in {"executing", "dispatching"} /\ conv' = Append(conv, ToolResults(batch))
        /\ UNCHANGED <<batch, summary>>
    BY <1>3 DEF BatchInterrupted, BatchDone, inner
  <2>2. batch # {} /\ BatchIsLast /\ turn < MaxTurns
    BY <2>1 DEF KernelInv, InTurn
  <2>3. PICK s : Paired(s, TRUE) /\ conv = Append(s, Answer(FALSE, batch))
    BY <2>2 DEF BatchIsLast
  <2>4. Paired(conv', TRUE)
    BY <2>1, <2>2, <2>3, <1>a, CallsMade
  <2>5. /\ phase' \in Phases \ ({"executing", "dispatching", "summarizing"} \cup InTurn)
        /\ turn' \in {turn, turn + 1}
    BY <1>3 DEF BatchInterrupted, BatchDone, inner, Phases, Querying, Executing, InTurn, Asking
  <2> QED
    BY <2>1, <2>2, <2>4, <2>5, <1>a, PairedKeeps
<1> QED
  BY <1>1, <1>2, <1>3

LEMMA KernelNextInv == KernelInv /\ [KernelNext]_kernelVars => KernelInv'
<1> SUFFICES ASSUME KernelInv, [KernelNext]_kernelVars PROVE KernelInv'
  OBVIOUS
<1>1. CASE UNCHANGED kernelVars
  <2>1. UNCHANGED <<phase, turn, conv, batch, summary>>
    BY <1>1 DEF kernelVars, inner
  <2> QED
    BY <2>1, MovesKeep DEF Moves, KernelInv, LoopTyped
<1>2. CASE KernelNext
  BY <1>2, CalmKeeps, ObserveKeeps, CompactKeeps, SummaryKeeps, AnswerKeeps
     DEF KernelNext, KernelRuns, ModelSpeaks, Calm
<1> QED
  BY <1>1, <1>2

\* Every request to the model, for a turn or for a summary, has each tool call
\* answered by the next message and no other results, and no query goes over
\* max_turns: for any tool ids, any history the kernel or a snapshot of it can
\* hold, and any limits (AgentKernel::run, run_compaction).
THEOREM RequestsAreWellPaired == KernelSpec => []RequestWellPaired
<1>1. KernelInv => RequestWellPaired
  <2> SUFFICES ASSUME KernelInv PROVE RequestWellPaired
    OBVIOUS
  <2>1. turn <= MaxTurns
    BY DEF KernelInv, LoopTyped
  <2>2. phase \in {"opening", "streaming"} => WellPaired(conv)
    BY DEF KernelInv, Asking, Paired
  <2>3. phase = "summarizing" => WellPaired(summary.asked)
    <3> SUFFICES ASSUME phase = "summarizing" PROVE WellPaired(summary.asked)
      OBVIOUS
    <3>1. PICK s : Paired(s, TRUE) /\ summary.asked = Append(s, UserText)
      BY DEF KernelInv, OlderIsAsked
    <3>2. Paired(Append(s, UserText), TRUE)
      BY <3>1, UserTextIsWritten, PairedAppend
    <3> QED
      BY <3>1, <3>2 DEF Paired
  <2> QED
    BY <2>1, <2>2, <2>3 DEF RequestWellPaired
<1> QED
  BY <1>1, KernelInitInv, KernelNextInv, PTL DEF KernelSpec

\* run() changes its state only along the table of fsm.rs, whatever the host,
\* the model and the tools do.
THEOREM StateTableIsKept == KernelSpec => StateChangesValid
<1> DEFINE Valid == LET from == StateKind(phase)  to == StateKind(phase')
                    IN  (phase # "created" /\ from # to) => IsValidTransition(from, to)
<1>1. KernelNext => Valid
  <2> SUFFICES ASSUME KernelNext, phase # "created", StateKind(phase) # StateKind(phase')
               PROVE  IsValidTransition(StateKind(phase), StateKind(phase'))
    OBVIOUS
  <2> USE DEF IsValidTransition, StateKind, Querying, Executing
  <2>1. CASE IdleReceive \/ IdleClosed \/ IdleTimeout \/ WaitingOver \/ ObserveSystem
             \/ ObserveClear \/ ObserveBlocked \/ ObservePrompt
    BY <2>1 DEF IdleReceive, IdleClosed, IdleTimeout, WaitingOver, ObserveSystem,
                ObserveClear, ObserveBlocked, ObservePrompt
  <2>2. CASE QueryInterrupted \/ QueryLimit \/ QueryTurn \/ CompactBlocked \/ CompactLocally
             \/ CompactBySummary \/ SummaryDone \/ SummaryRetryShorter \/ SummaryRetry
             \/ SummaryFails
    BY <2>2 DEF QueryInterrupted, QueryLimit, QueryTurn, CompactBlocked, CompactLocally,
                CompactBySummary, SummaryDone, SummaryRetryShorter, SummaryRetry, SummaryFails
  <2>3. CASE OpenStream \/ OpenFails \/ StreamInterrupted \/ StreamGivesUp \/ StreamEnds
             \/ StreamComplete \/ AnswerEmpty \/ AnswerInvalid \/ AnswerFinal
             \/ AnswerWithTools \/ StopHookDone
    BY <2>3 DEF OpenStream, OpenFails, StreamInterrupted, StreamGivesUp, StreamEnds,
                StreamComplete, AnswerEmpty, AnswerInvalid, AnswerFinal, AnswerWithTools,
                StopHookDone
  <2>4. CASE BatchInterrupted \/ BatchDispatch \/ BatchDone \/ HaltHookDone
    BY <2>4 DEF BatchInterrupted, BatchDispatch, BatchDone, HaltHookDone
  <2>5. CASE HostInterrupt \/ \E kind \in EventKinds : HostSend(kind)
    <3>1. phase' = phase
      BY <2>5 DEF HostInterrupt, HostSend
    <3> QED
      BY <3>1
  <2>6. ~PrepareContinuation /\ ~Start
    BY DEF PrepareContinuation, Start
  <2> QED
    BY <2>1, <2>2, <2>3, <2>4, <2>5, <2>6 DEF KernelNext, KernelRuns, ModelSpeaks
<1> QED
  BY <1>1, PTL DEF KernelSpec, StateChangesValid

-----------------------------------------------------------------------------
(* A batch of tool calls: the lists of the metadata.                       *)

\* Without repetition, and not above the cap.
Capped(l) == IsInjective(l) /\ Len(l) <= ListCap

\* What a push makes of l: v is last, f says where the others were, and only the
\* first of a full list is missing.
Moved(l, v, m, f) ==
    /\ Len(m) > 0 /\ Len(m) <= ListCap /\ m[Len(m)] = v
    /\ \A i \in 1..Len(m) - 1 : f[i] \in 1..Len(l) /\ m[i] = l[f[i]] /\ m[i] # v
    /\ \A i, j \in 1..Len(m) - 1 : i < j => f[i] < f[j]
    /\ \A k \in 1..Len(l) :
          \/ l[k] = v
          \/ \E i \in 1..Len(m) - 1 : f[i] = k
          \/ k = 1 /\ Len(l) = ListCap /\ \A i \in 1..Len(l) : l[i] # v

LEMMA PartShape ==
    ASSUME NEW S, NEW s \in Seq(S), NEW i \in Nat, NEW n \in Nat, 1 <= i, i <= n + 1, n <= Len(s)
    PROVE  /\ SubSeq(s, i, n) \in Seq(S) /\ Len(SubSeq(s, i, n)) = n - i + 1
           /\ \A j \in 1..n - i + 1 : SubSeq(s, i, n)[j] = s[i + j - 1]
<1>1. i..n \subseteq 1..Len(s)
  OBVIOUS
<1>2. SubSeq(s, i, n) \in Seq(S)
  BY <1>1
<1>3. Len(SubSeq(s, i, n)) = n - i + 1
  OBVIOUS
<1>4. \A j \in 1..n - i + 1 : SubSeq(s, i, n)[j] = s[i + j - 1]
  BY <1>1
<1> QED
  BY <1>2, <1>3, <1>4

LEMMA WholeShape ==
    ASSUME NEW S, NEW s \in Seq(S)
    PROVE  SubSeq(s, 1, Len(s)) = s
OBVIOUS

LEMMA JoinShape ==
    ASSUME NEW S, NEW s \in Seq(S), NEW t \in Seq(S)
    PROVE  /\ s \o t \in Seq(S) /\ Len(s \o t) = Len(s) + Len(t)
           /\ Len(s) \in Nat /\ Len(t) \in Nat
           /\ \A i \in 1..Len(s) : (s \o t)[i] = s[i]
           /\ \A i \in 1..Len(t) : (s \o t)[Len(s) + i] = t[i]
OBVIOUS

LEMMA RemoveFirstShape ==
    ASSUME NEW S, NEW l \in Seq(S), IsInjective(l), NEW v
    PROVE  /\ \A at \in 1..Len(l) : l[at] = v =>
                 /\ RemoveFirst(l, v) \in Seq(S) /\ Len(RemoveFirst(l, v)) = Len(l) - 1
                 /\ \A i \in 1..Len(l) - 1 :
                       RemoveFirst(l, v)[i] = IF i < at THEN l[i] ELSE l[i + 1]
           /\ (\A i \in 1..Len(l) : l[i] # v) => RemoveFirst(l, v) = l
<1>a. Len(l) \in Nat /\ DOMAIN l = 1..Len(l)
  OBVIOUS
<1>1. ASSUME \A i \in 1..Len(l) : l[i] # v PROVE RemoveFirst(l, v) = l
  BY <1>1 DEF RemoveFirst
<1>2. ASSUME NEW at \in 1..Len(l), l[at] = v
      PROVE  /\ RemoveFirst(l, v) \in Seq(S) /\ Len(RemoveFirst(l, v)) = Len(l) - 1
             /\ \A i \in 1..Len(l) - 1 :
                   RemoveFirst(l, v)[i] = IF i < at THEN l[i] ELSE l[i + 1]
  <2>1. {i \in 1..Len(l) : l[i] = v} = {at}
    BY <1>2, <1>a DEF IsInjective
  <2>2. Min({at}) = at
    BY <1>a DEF Min
  <2>3. SelectInSeq(l, LAMBDA x : x = v) = at
    BY <2>1, <2>2 DEF SelectInSeq
  <2>4. RemoveFirst(l, v) = RemoveAt(l, at)
    BY <2>3, <1>2 DEF RemoveFirst
  <2>5. at \in Nat /\ at >= 1 /\ at <= Len(l)
    BY <1>a
  <2> DEFINE p == SubSeq(l, 1, at - 1)
             q == SubSeq(l, at + 1, Len(l))
  <2>6. p \in Seq(S) /\ Len(p) = at - 1 /\ \A i \in 1..at - 1 : p[i] = l[i]
    BY <2>5, <1>a, PartShape
  <2>7. q \in Seq(S) /\ Len(q) = Len(l) - at /\ \A i \in 1..Len(l) - at : q[i] = l[at + i]
    <3> DEFINE k == at + 1
    <3>1. k \in Nat /\ 1 <= k /\ k <= Len(l) + 1 /\ Len(l) - k + 1 = Len(l) - at
      BY <2>5, <1>a
    <3>2. \A i \in 1..Len(l) - at : k + i - 1 = at + i
      BY <2>5, <1>a
    <3> HIDE DEF k
    <3>3. /\ SubSeq(l, k, Len(l)) \in Seq(S) /\ Len(SubSeq(l, k, Len(l))) = Len(l) - k + 1
          /\ \A i \in 1..Len(l) - k + 1 : SubSeq(l, k, Len(l))[i] = l[k + i - 1]
      <4>1. k \in Nat /\ Len(l) \in Nat /\ 1 <= k /\ k <= Len(l) + 1 /\ Len(l) <= Len(l)
        BY <3>1, <1>a
      <4> QED
        BY <4>1, PartShape
    <3>4. q = SubSeq(l, k, Len(l))
      BY DEF k
    <3> HIDE DEF q
    <3> QED
      BY <3>1, <3>2, <3>3, <3>4
  <2>8. RemoveFirst(l, v) = p \o q
    BY <2>4 DEF RemoveAt
  <2> HIDE DEF p, q
  <2>9. /\ p \o q \in Seq(S) /\ Len(p \o q) = Len(p) + Len(q)
        /\ \A i \in 1..Len(p) : (p \o q)[i] = p[i]
        /\ \A i \in 1..Len(q) : (p \o q)[Len(p) + i] = q[i]
    <3>1. p \in Seq(S) /\ q \in Seq(S)
      BY <2>6, <2>7
    <3> QED
      BY <3>1, JoinShape
  <2>10. ASSUME NEW i \in 1..Len(l) - 1
         PROVE  (p \o q)[i] = IF i < at THEN l[i] ELSE l[i + 1]
    <3>1. CASE i < at
      <4>1. i \in 1..at - 1
        BY <3>1, <2>5, <1>a
      <4> QED
        BY <4>1, <3>1, <2>6, <2>9
    <3>2. CASE ~(i < at)
      <4> DEFINE j == i - (at - 1)
      <4>1. j \in 1..Len(l) - at /\ at + j = i + 1 /\ (at - 1) + j = i
        BY <3>2, <2>5, <1>a
      <4> HIDE DEF j
      <4>2. Len(p) + j = i /\ j \in 1..Len(q)
        BY <4>1, <2>6, <2>7
      <4>3. (p \o q)[i] = q[j]
        BY <4>2, <2>9
      <4>4. q[j] = l[i + 1]
        BY <4>1, <2>7
      <4> QED
        BY <4>3, <4>4, <3>2
    <3> QED
      BY <3>1, <3>2
  <2>11. Len(p) + Len(q) = Len(l) - 1
    BY <2>5, <2>6, <2>7, <1>a
  <2> QED
    BY <2>8, <2>9, <2>10, <2>11
<1> QED
  BY <1>1, <1>2

LEMMA PushShape ==
    ASSUME NEW S, NEW l \in Seq(S), Capped(l), NEW v \in S
    PROVE  /\ push_capped_unique(l, v) \in Seq(S)
           /\ \E f : Moved(l, v, push_capped_unique(l, v), f)
<1> DEFINE r == RemoveFirst(l, v)
           t == Append(r, v)
           over == IF Len(t) > ListCap THEN Len(t) - ListCap ELSE 0
           m == SubSeq(t, over + 1, Len(t))
<1>a. Len(l) \in Nat /\ ListCap \in Nat /\ ListCap > 0 /\ Len(l) <= ListCap /\ IsInjective(l)
  BY RuntimeAssumption DEF Capped
<1>b. \A i, j \in 1..Len(l) : l[i] = l[j] => i = j
  BY <1>a DEF IsInjective
<1>m. push_capped_unique(l, v) = m
  BY DEF push_capped_unique
<1>1. ASSUME NEW at \in 1..Len(l), l[at] = v
      PROVE  m \in Seq(S) /\ \E f : Moved(l, v, m, f)
  <2>1. /\ r \in Seq(S) /\ Len(r) = Len(l) - 1
        /\ \A i \in 1..Len(l) - 1 : r[i] = IF i < at THEN l[i] ELSE l[i + 1]
    BY <1>1, <1>a, RemoveFirstShape
  <2> HIDE DEF r
  <2>2. /\ t \in Seq(S) /\ Len(t) = Len(l) /\ t[Len(l)] = v
        /\ \A i \in 1..Len(l) - 1 : t[i] = r[i]
    BY <2>1, <1>a
  <2> HIDE DEF t
  <2>3. over = 0
    BY <2>2, <1>a
  <2>4. m = t
    BY <2>2, <2>3, WholeShape
  <2> HIDE DEF m
  <2> DEFINE f == [i \in 1..Len(l) - 1 |-> IF i < at THEN i ELSE i + 1]
  <2>5. Len(l) > 0 /\ at \in Int /\ 1 <= at /\ at <= Len(l)
    BY <1>a
  <2>6. \A i \in 1..Len(l) - 1 : f[i] \in 1..Len(l) /\ f[i] # at
    BY <2>5, <1>a
  <2>7. \A i, j \in 1..Len(l) - 1 : i < j => f[i] < f[j]
    BY <2>5, <1>a
  <2>8. \A k \in 1..Len(l) : k # at => \E i \in 1..Len(l) - 1 : f[i] = k
    <3> SUFFICES ASSUME NEW k \in 1..Len(l), k # at PROVE \E i \in 1..Len(l) - 1 : f[i] = k
      OBVIOUS
    <3>1. CASE k < at
      <4>1. k \in 1..Len(l) - 1 /\ f[k] = k
        BY <3>1, <2>5, <1>a
      <4> QED
        BY <4>1
    <3>2. CASE k > at
      <4>1. k - 1 \in 1..Len(l) - 1 /\ f[k - 1] = k
        BY <3>2, <2>5, <1>a
      <4> QED
        BY <4>1
    <3> QED
      BY <3>1, <3>2, <2>5, <1>a
  <2>9. \A i \in 1..Len(l) - 1 : r[i] = l[f[i]]
    BY <2>1
  <2> HIDE DEF f
  <2>10. \A i \in 1..Len(l) - 1 : m[i] = l[f[i]] /\ m[i] # v
    BY <2>2, <2>4, <2>6, <2>9, <1>1, <1>b
  <2>11. Moved(l, v, m, f)
    BY <2>2, <2>4, <2>5, <2>6, <2>7, <2>8, <2>10, <1>1, <1>a DEF Moved
  <2> QED
    BY <2>2, <2>4, <2>11
<1>2. ASSUME \A i \in 1..Len(l) : l[i] # v
      PROVE  m \in Seq(S) /\ \E f : Moved(l, v, m, f)
  <2>1. r = l
    BY <1>2, <1>a, RemoveFirstShape
  <2> HIDE DEF r
  <2>2. /\ t \in Seq(S) /\ Len(t) = Len(l) + 1 /\ t[Len(l) + 1] = v
        /\ \A i \in 1..Len(l) : t[i] = l[i]
    BY <2>1, <1>a
  <2> HIDE DEF t
  <2>3. CASE Len(l) < ListCap
    <3>1. over = 0
      BY <2>2, <2>3, <1>a
    <3>2. m = t
      BY <2>2, <3>1, WholeShape
    <3> HIDE DEF m
    <3> DEFINE f == [i \in 1..Len(l) |-> i]
    <3>3. \A i \in 1..Len(l) : f[i] = i
      OBVIOUS
    <3> HIDE DEF f
    <3>4. Len(m) = Len(l) + 1 /\ Len(m) - 1 = Len(l) /\ Len(m) > 0 /\ Len(m) <= ListCap
      BY <3>2, <2>2, <2>3, <1>a
    <3>5. Moved(l, v, m, f)
      BY <3>2, <3>3, <3>4, <2>2, <1>2 DEF Moved
    <3> QED
      BY <3>2, <3>5, <2>2
  <2>4. CASE Len(l) = ListCap
    <3>1. over = 1 /\ m = SubSeq(t, 2, Len(t))
      BY <2>2, <2>4, <1>a
    <3> HIDE DEF m
    <3>2. /\ m \in Seq(S) /\ Len(m) = Len(l) /\ m[Len(l)] = v
          /\ \A i \in 1..Len(l) - 1 : m[i] = l[i + 1]
      BY <3>1, <2>2, <2>4, <1>a
    <3> DEFINE f == [i \in 1..Len(l) - 1 |-> i + 1]
    <3>3. \A i \in 1..Len(l) - 1 : f[i] = i + 1 /\ i + 1 \in 1..Len(l)
      BY <1>a
    <3>4. \A i, j \in 1..Len(l) - 1 : i < j => f[i] < f[j]
      BY <1>a
    <3>5. \A k \in 1..Len(l) : k # 1 => \E i \in 1..Len(l) - 1 : f[i] = k
      <4> SUFFICES ASSUME NEW k \in 1..Len(l), k # 1 PROVE \E i \in 1..Len(l) - 1 : f[i] = k
        OBVIOUS
      <4>1. k - 1 \in 1..Len(l) - 1 /\ f[k - 1] = k
        BY <1>a
      <4> QED
        BY <4>1
    <3> HIDE DEF f
    <3>6. \A i \in 1..Len(l) - 1 : f[i] \in 1..Len(l) /\ m[i] = l[f[i]] /\ m[i] # v
      BY <3>2, <3>3, <1>2
    <3>7. Moved(l, v, m, f)
      BY <3>2, <3>4, <3>5, <3>6, <2>4, <1>2, <1>a DEF Moved
    <3> QED
      BY <3>2, <3>7
  <2> QED
    BY <2>3, <2>4, <1>a
<1> QED
  <2> HIDE DEF m
  <2> QED
    BY <1>1, <1>2, <1>m

\* P has been pushed since, and nothing that was not.
Recent(l, P) ==
    /\ \A x \in P : \E i \in 1..Len(l) : l[i] = x
    /\ \A i, j \in 1..Len(l) : i < j /\ l[i] \in P => l[j] \in P

LEMMA PushKeeps ==
    ASSUME NEW S, NEW l \in Seq(S), Capped(l), NEW v \in S
    PROVE  push_capped_unique(l, v) \in Seq(S) /\ Capped(push_capped_unique(l, v))
<1> DEFINE m == push_capped_unique(l, v)
<1>1. m \in Seq(S)
  BY PushShape
<1>2. PICK f : Moved(l, v, m, f)
  BY PushShape
<1> HIDE DEF m
<1>3. Len(l) \in Nat /\ Len(m) \in Nat /\ DOMAIN l = 1..Len(l) /\ DOMAIN m = 1..Len(m)
  BY <1>1
<1>4. /\ Len(m) > 0 /\ Len(m) <= ListCap /\ m[Len(m)] = v
      /\ \A i \in 1..Len(m) - 1 : f[i] \in 1..Len(l) /\ m[i] = l[f[i]] /\ m[i] # v
      /\ \A i, j \in 1..Len(m) - 1 : i < j => f[i] < f[j]
  BY <1>2 DEF Moved
<1>5. \A i, j \in 1..Len(l) : l[i] = l[j] => i = j
  BY <1>3 DEF Capped, IsInjective
<1>6. ASSUME NEW i \in 1..Len(m), NEW j \in 1..Len(m), i < j PROVE m[i] # m[j]
  <2>a. Len(m) \in Nat /\ i \in Int /\ j \in Int /\ 1 <= i /\ i < j /\ j <= Len(m)
    BY <1>6, <1>3
  <2>1. i \in 1..Len(m) - 1 /\ (j = Len(m) \/ j \in 1..Len(m) - 1)
    BY ONLY <2>a
  <2>2. CASE j = Len(m)
    BY <2>1, <2>2, <1>4
  <2>3. CASE j \in 1..Len(m) - 1
    <3>1. f[i] < f[j] /\ f[i] \in 1..Len(l) /\ f[j] \in 1..Len(l) /\ m[i] = l[f[i]] /\ m[j] = l[f[j]]
      BY <2>1, <2>3, <1>4, <1>6
    <3>2. f[i] # f[j]
      BY <3>1, <1>3
    <3> QED
      BY <3>1, <3>2, <1>5
  <2> QED
    BY <2>1, <2>2, <2>3
<1>7. \A i, j \in 1..Len(m) : i = j \/ i < j \/ j < i
  BY <1>3
<1>8. Capped(m)
  BY <1>3, <1>4, <1>6, <1>7 DEF Capped, IsInjective
<1> QED
  BY <1>1, <1>8 DEF m

\* A list without repetition whose elements are all in P is no longer than P.
LEMMA NoMoreThan ==
    ASSUME NEW S, NEW l \in Seq(S), IsInjective(l), NEW P, IsFiniteSet(P),
           \A i \in 1..Len(l) : l[i] \in P
    PROVE  Len(l) <= Cardinality(P)
<1>1. Len(l) \in Nat /\ DOMAIN l = 1..Len(l)
  OBVIOUS
<1>2. l \in Injection(1..Len(l), P)
  <2>1. l \in [1..Len(l) -> P]
    BY <1>1
  <2>2. \A i, j \in 1..Len(l) : l[i] = l[j] => i = j
    BY <1>1 DEF IsInjective
  <2>3. \A i, j \in DOMAIN l : l[i] = l[j] => i = j
    BY <2>2, <1>1
  <2> QED
    BY <2>1, <2>3, Zenon DEF Injection, IsInjective
<1>3. Cardinality(1..Len(l)) <= Cardinality(P)
  BY <1>2, FS_Injection
<1>4. Cardinality(1..Len(l)) = Len(l)
  <2>1. 1 \in Int /\ Len(l) \in Int
    BY <1>1
  <2>2. Cardinality(1..Len(l)) = IF 1 > Len(l) THEN 0 ELSE Len(l) - 1 + 1
    BY <2>1, FS_Interval
  <2> QED
    BY <2>2, <1>1
<1> QED
  BY <1>3, <1>4

\* As long as all of P has room, a push drops none of it.
LEMMA PushRecent ==
    ASSUME NEW S, NEW l \in Seq(S), Capped(l), NEW v \in S, NEW P, Recent(l, P),
           IsFiniteSet(P \cup {v}), Cardinality(P \cup {v}) <= ListCap
    PROVE  Recent(push_capped_unique(l, v), P \cup {v})
<1> DEFINE m == push_capped_unique(l, v)
           Q == P \cup {v}
<1>1. m \in Seq(S) /\ Capped(m)
  BY PushKeeps
<1>2. PICK f : Moved(l, v, m, f)
  BY PushShape
<1> HIDE DEF m
<1>3. Len(l) \in Nat /\ Len(m) \in Nat /\ ListCap \in Nat
  BY <1>1, RuntimeAssumption
<1>4. /\ Len(m) > 0 /\ m[Len(m)] = v
      /\ \A i \in 1..Len(m) - 1 : f[i] \in 1..Len(l) /\ m[i] = l[f[i]] /\ m[i] # v
      /\ \A i, j \in 1..Len(m) - 1 : i < j => f[i] < f[j]
  BY <1>2 DEF Moved
<1>5. \A k \in 1..Len(l) :
          \/ l[k] = v
          \/ \E i \in 1..Len(m) - 1 : f[i] = k
          \/ k = 1 /\ Len(l) = ListCap /\ \A i \in 1..Len(l) : l[i] # v
  BY <1>2 DEF Moved
<1>9. ASSUME NEW i \in 1..Len(m), NEW j \in 1..Len(m), i < j, m[i] \in Q PROVE m[j] \in Q
  <2>1. CASE j = Len(m)
    BY <2>1, <1>4
  <2>2. CASE j # Len(m)
    <3>1. i \in 1..Len(m) - 1 /\ j \in 1..Len(m) - 1
      BY <2>2, <1>9, <1>3
    <3>2. /\ m[i] = l[f[i]] /\ m[j] = l[f[j]] /\ f[i] < f[j] /\ m[i] # v
          /\ f[i] \in 1..Len(l) /\ f[j] \in 1..Len(l)
      BY <3>1, <1>9, <1>4
    <3>3. l[f[i]] \in P
      BY <3>2, <1>9
    <3>4. l[f[j]] \in P
      BY <3>2, <3>3 DEF Recent
    <3> QED
      BY <3>2, <3>4
  <2> QED
    BY <2>1, <2>2
<1>10. ASSUME NEW x \in Q PROVE \E i \in 1..Len(m) : m[i] = x
  <2>1. CASE x = v
    <3>1. Len(m) \in 1..Len(m)
      BY <1>3, <1>4
    <3> QED
      BY <2>1, <3>1, <1>4
  <2>2. CASE x # v
    <3>0. x \in P
      BY <2>2, <1>10
    <3>1. PICK k \in 1..Len(l) : l[k] = x
      BY <3>0 DEF Recent
    <3>2. ASSUME k = 1, Len(l) = ListCap, \A i \in 1..Len(l) : l[i] # v PROVE FALSE
      <4>1. \A i \in 1..Len(l) : l[i] \in P
        <5> SUFFICES ASSUME NEW i \in 1..Len(l) PROVE l[i] \in P
          OBVIOUS
        <5>1. l[1] \in P /\ 1 \in 1..Len(l)
          BY <3>0, <3>1, <3>2
        <5>2. i = 1 \/ 1 < i
          BY <1>3
        <5> QED
          BY <5>1, <5>2 DEF Recent
      <4>2. v \notin P
        BY <3>2 DEF Recent
      <4>3. IsFiniteSet(P)
        <5>1. P \in SUBSET Q
          OBVIOUS
        <5> QED
          BY <5>1, FS_Subset
      <4>4. Cardinality(P) \in Nat /\ Cardinality(Q) = Cardinality(P) + 1
        BY <4>2, <4>3, FS_AddElement, FS_CardinalityType
      <4>5. Len(l) <= Cardinality(P)
        BY <4>1, <4>3, NoMoreThan DEF Capped
      <4>6. Cardinality(Q) <= ListCap
        OBVIOUS
      <4> HIDE DEF Q
      <4> QED
        BY <4>4, <4>5, <4>6, <3>2, <1>3
    <3>3. PICK i \in 1..Len(m) - 1 : f[i] = k
      BY <3>1, <3>2, <2>2, <1>5
    <3>4. m[i] = x /\ i \in 1..Len(m)
      BY <3>1, <3>3, <1>3, <1>4
    <3> QED
      BY <3>4
  <2> QED
    BY <2>1, <2>2
<1> QED
  BY <1>9, <1>10 DEF m, Recent

-----------------------------------------------------------------------------
(* A batch of tool calls: what is replayed of a snapshot.                  *)

\* g[s] is what pushing the values of c at the places s makes of t.
Pushes(g, c, t) ==
    g = [s \in SUBSET DOMAIN c |->
            IF s = {} THEN t ELSE push_capped_unique(g[s \ {Max(s)}], c[Max(s)])]

LEMMA PushNone ==
    ASSUME NEW c, DOMAIN c = {}, NEW t
    PROVE  FoldLeft(push_capped_unique, t, c) = t
<1> DEFINE g == CHOOSE h : Pushes(h, c, t)
           h0 == [s \in SUBSET DOMAIN c |-> t]
<1>1. FoldLeft(push_capped_unique, t, c) = g[DOMAIN c]
  BY DEF FoldLeft, MapThenFoldSet, Pushes
<1>2. Pushes(h0, c, t)
  <2>1. \A s \in SUBSET DOMAIN c : s = {}
    OBVIOUS
  <2> QED
    BY <2>1 DEF Pushes
<1>3. Pushes(g, c, t)
  <2> HIDE DEF h0
  <2> QED
    BY <1>2
<1> HIDE DEF g
<1>4. g[{}] = t
  BY <1>3 DEF Pushes
<1> QED
  BY <1>1, <1>4

LEMMA PushOne ==
    ASSUME NEW c, DOMAIN c = {1}, NEW t
    PROVE  FoldLeft(push_capped_unique, t, c) = push_capped_unique(t, c[1])
<1> DEFINE g == CHOOSE h : Pushes(h, c, t)
           h0 == [s \in SUBSET DOMAIN c |-> IF s = {} THEN t ELSE push_capped_unique(t, c[1])]
<1>1. FoldLeft(push_capped_unique, t, c) = g[DOMAIN c]
  BY DEF FoldLeft, MapThenFoldSet, Pushes
<1>a. Max({1}) = 1
  BY DEF Max
<1>b. \A s \in SUBSET DOMAIN c : s = {} \/ s = {1}
  OBVIOUS
<1>c. h0[{}] = t /\ {1} \ {1} = {}
  OBVIOUS
<1>2. Pushes(h0, c, t)
  <2>1. ASSUME NEW s \in SUBSET DOMAIN c
        PROVE  h0[s] = IF s = {} THEN t ELSE push_capped_unique(h0[s \ {Max(s)}], c[Max(s)])
    <3>1. CASE s = {}
      BY <3>1
    <3>2. CASE s = {1}
      <4>1. s \ {Max(s)} = {} /\ Max(s) = 1
        BY <3>2, <1>a
      <4>2. h0[s] = push_capped_unique(t, c[1])
        BY <3>2
      <4> HIDE DEF h0
      <4> QED
        BY <4>1, <4>2, <3>2, <1>c
    <3> QED
      BY <3>1, <3>2, <1>b
  <2>2. h0 = [s \in SUBSET DOMAIN c |-> h0[s]]
    OBVIOUS
  <2> HIDE DEF h0
  <2> QED
    BY <2>1, <2>2 DEF Pushes
<1>3. Pushes(g, c, t)
  <2> HIDE DEF h0
  <2> QED
    BY <1>2
<1> HIDE DEF g, h0
<1>4. g[{}] = t
  BY <1>3 DEF Pushes
<1>5. g[{1}] = push_capped_unique(g[{1} \ {Max({1})}], c[Max({1})])
  BY <1>3 DEF Pushes
<1>6. g[{1}] = push_capped_unique(t, c[1])
  BY <1>4, <1>5, <1>a, <1>c
<1> QED
  BY <1>1, <1>6

\* n is the length of the longest prefix that was there before.
LEMMA ReplayFrom ==
    ASSUME NEW l, NEW now, NEW t, NEW n \in 0..Len(now), Len(now) \in Nat,
           Subsequence(SubSeq(now, 1, n), l),
           \A k \in 0..Len(now) : Subsequence(SubSeq(now, 1, k), l) => k <= n
    PROVE  replay_list_delta(l, now, t)
              = FoldLeft(push_capped_unique, t, SubSeq(now, n + 1, Len(now)))
<1> DEFINE common == {k \in 0..Len(now) : Subsequence(SubSeq(now, 1, k), l)}
           kept == CHOOSE k \in common : \A j \in common : j <= k
<1>1. n \in common /\ \A j \in common : j <= n
  OBVIOUS
<1>2. common \subseteq Nat
  OBVIOUS
<1> HIDE DEF common
<1>3. kept \in common /\ \A j \in common : j <= kept
  BY <1>1
<1>4. kept = n
  <2>1. kept <= n /\ n <= kept /\ kept \in Nat /\ n \in Nat
    BY <1>1, <1>2, <1>3
  <2> HIDE DEF kept
  <2> QED
    BY <2>1
<1>5. replay_list_delta(l, now, t)
         = FoldLeft(push_capped_unique, t, SubSeq(now, kept + 1, Len(now)))
  BY Zenon DEF replay_list_delta, common, kept
<1> QED
  BY <1>4, <1>5

\* A call that has not run has nothing to add.
LEMMA ReplayNothing ==
    ASSUME NEW S, NEW l \in Seq(S), NEW t
    PROVE  replay_list_delta(l, l, t) = t
<1>1. Len(l) \in Nat /\ DOMAIN l = 1..Len(l) /\ SubSeq(l, 1, Len(l)) = l
  BY WholeShape
<1>2. Subsequence(l, l)
  <2> DEFINE f == [i \in DOMAIN l |-> i]
  <2>1. f \in [DOMAIN l -> DOMAIN l] /\ \A i \in DOMAIN l : f[i] = i
    OBVIOUS
  <2> HIDE DEF f
  <2> QED
    BY <2>1 DEF Subsequence
<1>3. replay_list_delta(l, l, t)
         = FoldLeft(push_capped_unique, t, SubSeq(l, Len(l) + 1, Len(l)))
  <2>1. Len(l) \in 0..Len(l) /\ \A k \in 0..Len(l) : k <= Len(l)
    BY <1>1
  <2>2. Subsequence(SubSeq(l, 1, Len(l)), l)
    BY <1>1, <1>2, Zenon
  <2> QED
    BY <2>1, <2>2, <1>1, ReplayFrom
<1>4. DOMAIN SubSeq(l, Len(l) + 1, Len(l)) = {}
  BY <1>1
<1> DEFINE c == SubSeq(l, Len(l) + 1, Len(l))
<1> HIDE DEF c
<1>5. DOMAIN c = {}
  BY <1>4 DEF c
<1>6. FoldLeft(push_capped_unique, t, c) = t
  BY <1>5, PushNone
<1> QED
  BY <1>3, <1>6, Zenon DEF c

\* Of a call that has run its note is replayed, unless it was the last already.
LEMMA ReplayPushed ==
    ASSUME NEW S, NEW l \in Seq(S), Capped(l), NEW v \in S, NEW t
    PROVE  \/ replay_list_delta(l, push_capped_unique(l, v), t) = push_capped_unique(t, v)
           \/ /\ replay_list_delta(l, push_capped_unique(l, v), t) = t
              /\ Len(l) > 0 /\ l[Len(l)] = v
<1> DEFINE m == push_capped_unique(l, v)
<1>1. m \in Seq(S)
  BY PushShape
<1>2. PICK f : Moved(l, v, m, f)
  BY PushShape
<1> HIDE DEF m
<1>3. Len(l) \in Nat /\ Len(m) \in Nat /\ DOMAIN l = 1..Len(l) /\ DOMAIN m = 1..Len(m)
  BY <1>1
<1>4. /\ Len(m) > 0 /\ m[Len(m)] = v
      /\ \A i \in 1..Len(m) - 1 : f[i] \in 1..Len(l) /\ m[i] = l[f[i]] /\ m[i] # v
      /\ \A i, j \in 1..Len(m) - 1 : i < j => f[i] < f[j]
  BY <1>2 DEF Moved
<1>5. \A k \in 1..Len(l) :
          \/ l[k] = v
          \/ \E i \in 1..Len(m) - 1 : f[i] = k
          \/ k = 1 /\ Len(l) = ListCap /\ \A i \in 1..Len(l) : l[i] # v
  BY <1>2 DEF Moved
<1>6. \A i, j \in 1..Len(l) : l[i] = l[j] => i = j
  BY <1>3 DEF Capped, IsInjective
<1>7. CASE Subsequence(m, l)
  <2>1. replay_list_delta(l, m, t)
           = FoldLeft(push_capped_unique, t, SubSeq(m, Len(m) + 1, Len(m)))
    <3>1. Len(m) \in 0..Len(m) /\ \A k \in 0..Len(m) : k <= Len(m)
      BY <1>3
    <3>2. SubSeq(m, 1, Len(m)) = m
      BY <1>1, WholeShape
    <3>3. Subsequence(SubSeq(m, 1, Len(m)), l)
      BY <3>2, <1>7, Zenon
    <3> QED
      BY <3>1, <3>3, <1>3, ReplayFrom
  <2> DEFINE c == SubSeq(m, Len(m) + 1, Len(m))
  <2>2. DOMAIN c = {}
    BY <1>1, <1>3
  <2> HIDE DEF c
  <2>3. FoldLeft(push_capped_unique, t, c) = t
    BY <2>2, PushNone
  <2>4. replay_list_delta(l, m, t) = t
    BY <2>1, <2>3, Zenon DEF c
  <2>5. PICK g \in [DOMAIN m -> DOMAIN l] :
           /\ \A i, j \in DOMAIN m : i < j => g[i] < g[j]
           /\ \A i \in DOMAIN m : m[i] = l[g[i]]
    BY <1>7 DEF Subsequence
  <2>6. Len(m) \in 1..Len(m) /\ g[Len(m)] \in 1..Len(l) /\ l[g[Len(m)]] = v
    <3>1. Len(m) \in 1..Len(m)
      BY <1>3, <1>4
    <3> QED
      BY <3>1, <2>5, <1>3, <1>4
  <2>7. Len(l) > 0 /\ Len(l) \in 1..Len(l)
    BY <2>6, <1>3
  <2>8. ASSUME NEW i \in 1..Len(m) - 1, f[i] = Len(l) PROVE FALSE
    <3>1. i \in 1..Len(m) /\ i < Len(m)
      BY <1>3
    <3>2. g[i] \in 1..Len(l) /\ l[g[i]] = l[Len(l)]
      BY <3>1, <2>5, <2>8, <1>3, <1>4
    <3>3. g[i] = Len(l)
      BY <3>2, <2>7, <1>6
    <3>4. g[i] < g[Len(m)]
      BY <3>1, <2>5, <2>6, <1>3
    <3> QED
      BY <3>3, <3>4, <2>6, <1>3
  <2>9. l[Len(l)] = v
    BY <2>6, <2>7, <2>8, <1>5
  <2> QED
    BY <2>4, <2>7, <2>9 DEF m
<1>8. CASE ~Subsequence(m, l)
  <2> DEFINE n == Len(m) - 1
             p == SubSeq(m, 1, n)
  <2>0. n \in Nat /\ n \in 0..Len(m) /\ n + 1 = Len(m) /\ n < Len(m)
    BY <1>3, <1>4
  <2> HIDE DEF n
  <2>1. p \in Seq(S) /\ Len(p) = n /\ \A i \in 1..n : p[i] = m[i]
    <3>1. 1 \in Nat /\ 1 <= n + 1 /\ n <= Len(m) /\ n - 1 + 1 = n
      BY <2>0, <1>3
    <3>2. /\ p \in Seq(S) /\ Len(p) = n - 1 + 1
          /\ \A i \in 1..n - 1 + 1 : p[i] = m[1 + i - 1]
      BY <3>1, <2>0, <1>1, PartShape
    <3>3. \A i \in 1..n : 1 + i - 1 = i
      BY <2>0
    <3> HIDE DEF p
    <3> QED
      BY <3>1, <3>2, <3>3
  <2> HIDE DEF p
  <2>2. Subsequence(p, l)
    <3> DEFINE g == [i \in 1..n |-> f[i]]
    <3>1. DOMAIN p = 1..n
      BY <2>1
    <3>2. \A i \in 1..n : f[i] \in 1..Len(l) /\ m[i] = l[f[i]]
      BY <1>4 DEF n
    <3>3. \A i, j \in 1..n : i < j => f[i] < f[j]
      BY <1>4 DEF n
    <3>4. g \in [1..n -> 1..Len(l)] /\ \A i \in 1..n : g[i] = f[i]
      BY <3>2
    <3> HIDE DEF g
    <3>5. /\ g \in [DOMAIN p -> DOMAIN l]
          /\ \A i, j \in DOMAIN p : i < j => g[i] < g[j]
          /\ \A i \in DOMAIN p : p[i] = l[g[i]]
      BY <3>1, <3>2, <3>3, <3>4, <2>1, <1>3
    <3> QED
      BY <3>5, Zenon DEF Subsequence
  <2>3. ASSUME NEW k \in 0..Len(m), Subsequence(SubSeq(m, 1, k), l) PROVE k <= n
    <3>1. k # Len(m)
      <4>1. SubSeq(m, 1, Len(m)) = m
        BY <1>1, WholeShape
      <4> QED
        BY <4>1, <2>3, <1>8, Zenon
    <3> QED
      BY <3>1, <2>0, <1>3
  <2>4. replay_list_delta(l, m, t) = FoldLeft(push_capped_unique, t, SubSeq(m, n + 1, Len(m)))
    <3>1. Subsequence(SubSeq(m, 1, n), l)
      BY <2>2 DEF p
    <3> QED
      BY <3>1, <2>0, <2>3, <1>3, ReplayFrom
  <2> DEFINE c == SubSeq(m, n + 1, Len(m))
  <2>5. DOMAIN c = {1} /\ c[1] = v
    <3>1. c = SubSeq(m, Len(m), Len(m))
      BY <2>0
    <3>2. /\ SubSeq(m, Len(m), Len(m)) \in Seq(S)
          /\ Len(SubSeq(m, Len(m), Len(m))) = Len(m) - Len(m) + 1
          /\ \A j \in 1..Len(m) - Len(m) + 1 : SubSeq(m, Len(m), Len(m))[j] = m[Len(m) + j - 1]
      <4>1. Len(m) \in Nat /\ 1 <= Len(m) /\ Len(m) <= Len(m) + 1 /\ Len(m) <= Len(m)
        BY <1>3, <1>4
      <4> QED
        BY <4>1, <1>1, PartShape
    <3>3. Len(m) - Len(m) + 1 = 1 /\ 1 \in 1..1 /\ Len(m) + 1 - 1 = Len(m) /\ 1..1 = {1}
      BY <1>3
    <3> HIDE DEF c
    <3>4. c \in Seq(S) /\ Len(c) = 1 /\ c[1] = m[Len(m)]
      BY <3>1, <3>2, <3>3
    <3> QED
      BY <3>3, <3>4, <1>4
  <2> HIDE DEF c
  <2>6. FoldLeft(push_capped_unique, t, c) = push_capped_unique(t, c[1])
    BY <2>5, PushOne
  <2>7. FoldLeft(push_capped_unique, t, c) = push_capped_unique(t, v)
    BY <2>5, <2>6
  <2>8. replay_list_delta(l, m, t) = push_capped_unique(t, v)
    BY <2>4, <2>7, Zenon DEF c
  <2> QED
    BY <2>8 DEF m
<1> QED
  BY <1>7, <1>8

-----------------------------------------------------------------------------
(* A batch of tool calls: the snapshots are merged one by one.             *)

\* merge_metadata_delta, for the documents of dk.
MergeIn(dk, st, now, t) ==
    [list |-> replay_list_delta(st.list, now.list, t.list),
     doc |-> [k \in dk |-> IF now.doc[k] # st.doc[k] THEN now.doc[k] ELSE t.doc[k]]]

\* g[s] is what merging the snapshots of c at the places s makes of b.
Merges(g, dk, st, c, b, A) ==
    g = [s \in SUBSET A |->
            IF s = {} THEN b ELSE MergeIn(dk, st, c[Max(s)], g[s \ {Max(s)}])]

LEMMA SomePlaces ==
    ASSUME NEW n \in Nat, NEW s, s \subseteq 1..n
    PROVE  /\ IsFiniteSet(s)
           /\ s # {} => Max(s) \in s /\ \A u \in s : u <= Max(s)
<1>1. IsFiniteSet(1..n)
  BY FS_Interval
<1>2. IsFiniteSet(s)
  BY <1>1, FS_Subset
<1>3. s \subseteq 0..n
  OBVIOUS
<1> QED
  BY <1>2, <1>3, GreatestNumber

\* A finite set of places has a last one.
Places(A) == IsFiniteSet(A) /\ \A s \in SUBSET A : s # {} => Max(s) \in s

LEMMA MergesAgree ==
    ASSUME NEW A, NEW B, Places(A), NEW dk, NEW st, NEW c, NEW b, NEW g, NEW h,
           Merges(g, dk, st, c, b, A), Merges(h, dk, st, c, b, B), NEW s, s \subseteq A, s \subseteq B
    PROVE  g[s] = h[s]
<1> DEFINE Bad == {t \in SUBSET A : t \subseteq B /\ g[t] # h[t]}
<1> SUFFICES ASSUME Bad # {} PROVE FALSE
  OBVIOUS
<1>1. PICK t \in Bad : \A u \in Bad : u \subseteq t => u = t
  <2>1. Bad \in SUBSET SUBSET A /\ IsFiniteSet(A)
    BY DEF Places
  <2>2. Bad # {}
    OBVIOUS
  <2> HIDE DEF Bad
  <2> QED
    BY ONLY <2>1, <2>2, LeastSubset
<1>2. g[t] = IF t = {} THEN b ELSE MergeIn(dk, st, c[Max(t)], g[t \ {Max(t)}])
  BY DEF Merges
<1>3. h[t] = IF t = {} THEN b ELSE MergeIn(dk, st, c[Max(t)], h[t \ {Max(t)}])
  BY DEF Merges
<1>4. t # {}
  BY <1>2, <1>3
<1>5. Max(t) \in t
  BY <1>4 DEF Places
<1>6. g[t \ {Max(t)}] = h[t \ {Max(t)}]
  BY <1>1, <1>5
<1> QED
  BY <1>2, <1>3, <1>6

LEMMA MergesExist ==
    ASSUME NEW D, Places(D), NEW dk, NEW st, NEW c, NEW b
    PROVE  \E g : Merges(g, dk, st, c, b, D)
<1> DEFINE Bad == {T \in SUBSET D : ~ \E g : Merges(g, dk, st, c, b, T)}
           G(T) == CHOOSE g : Merges(g, dk, st, c, b, T)
<1> SUFFICES ASSUME Bad # {} PROVE FALSE
  OBVIOUS
<1>1. PICK T \in Bad : \A U \in Bad : U \subseteq T => U = T
  <2>1. Bad \in SUBSET SUBSET D /\ IsFiniteSet(D)
    BY DEF Places
  <2>2. Bad # {}
    OBVIOUS
  <2> HIDE DEF Bad
  <2> QED
    BY ONLY <2>1, <2>2, LeastSubset
<1>2. \A U \in SUBSET T : U # T => Merges(G(U), dk, st, c, b, U)
  BY <1>1
<1>a. T \subseteq D
  BY <1>1
<1>b. \A s \in SUBSET D : Places(s)
  BY FS_Subset DEF Places
<1> DEFINE h == [s \in SUBSET T |->
                    IF s # T THEN G(s)[s]
                    ELSE IF T = {} THEN b
                    ELSE MergeIn(dk, st, c[Max(T)], G(T \ {Max(T)})[T \ {Max(T)}])]
<1> HIDE DEF G
<1>3. ASSUME NEW s \in SUBSET T
      PROVE  h[s] = IF s = {} THEN b ELSE MergeIn(dk, st, c[Max(s)], h[s \ {Max(s)}])
  <2>1. CASE s = {} /\ s # T
    <3>1. G(s)[s] = b
      BY <1>2, <2>1 DEF Merges
    <3> QED
      BY <2>1, <3>1
  <2>2. CASE s = {} /\ s = T
    BY <2>2
  <2>3. CASE s # {} /\ s = T
    <3>1. Max(s) \in s
      BY <2>3, <1>a DEF Places
    <3> QED
      BY <2>3, <3>1
  <2>4. CASE s # {} /\ s # T
    <3> DEFINE r == s \ {Max(s)}
    <3>1. Max(s) \in s
      BY <2>4, <1>a DEF Places
    <3>2. r \in SUBSET T /\ r # T /\ r \subseteq s
      BY <3>1
    <3>3. G(s)[s] = MergeIn(dk, st, c[Max(s)], G(s)[r])
      BY <1>2, <2>4 DEF Merges
    <3>4. G(s)[r] = G(r)[r]
      <4>1. /\ Merges(G(s), dk, st, c, b, s) /\ Merges(G(r), dk, st, c, b, r) /\ Places(s)
            /\ r \subseteq s /\ r \subseteq r
        BY <1>2, <1>a, <1>b, <2>4, <3>2
      <4> HIDE DEF h, r, Bad
      <4> QED
        BY ONLY <4>1, MergesAgree
    <3>5. h[s] = G(s)[s] /\ h[r] = G(r)[r]
      BY <2>4, <3>2
    <3> HIDE DEF h, r
    <3>6. h[s] = MergeIn(dk, st, c[Max(s)], h[r])
      BY <3>3, <3>4, <3>5
    <3> QED
      BY <2>4, <3>6 DEF r
  <2> QED
    BY <2>1, <2>2, <2>3, <2>4
<1>4. Merges(h, dk, st, c, b, T)
  <2>1. h = [s \in SUBSET T |-> h[s]]
    OBVIOUS
  <2> HIDE DEF h
  <2> QED
    BY <1>3, <2>1 DEF Merges
<1> QED
  BY <1>1, <1>4

Merged(dk, st, c, b) == (CHOOSE g : Merges(g, dk, st, c, b, DOMAIN c))[DOMAIN c]

\* Snapshot by snapshot, as the loop of dispatch_many runs.
MergeScan(f, n, dk, st, c, b) ==
    /\ f[0] = b
    /\ \A k \in 0..n - 1 : f[k + 1] = MergeIn(dk, st, c[k + 1], f[k])
    /\ Merged(dk, st, c, b) = f[n]

LEMMA MergeScans ==
    ASSUME NEW n \in Nat, NEW dk, NEW st, NEW c, DOMAIN c = 1..n, NEW b
    PROVE  \E f : MergeScan(f, n, dk, st, c, b)
<1> DEFINE g == CHOOSE h : Merges(h, dk, st, c, b, DOMAIN c)
           f == [k \in 0..n |-> g[1..k]]
<1>1. Merges(g, dk, st, c, b, 1..n)
  <2>1. \E h : Merges(h, dk, st, c, b, DOMAIN c)
    <3>1. \A s \in SUBSET (1..n) : IsFiniteSet(s) /\ (s # {} => Max(s) \in s)
      BY SomePlaces
    <3>2. Places(DOMAIN c)
      BY <3>1 DEF Places
    <3> QED
      BY <3>2, MergesExist
  <2>2. Merges(g, dk, st, c, b, DOMAIN c)
    BY <2>1
  <2> HIDE DEF g
  <2> QED
    BY <2>2
<1>2. Merged(dk, st, c, b) = g[DOMAIN c]
  BY DEF Merged
<1> HIDE DEF g
<1>3. f[0] = b
  <2>1. 1..0 = {} /\ 0 \in 0..n
    OBVIOUS
  <2>2. g[{}] = b
    BY <1>1 DEF Merges
  <2> QED
    BY <2>1, <2>2
<1>4. ASSUME NEW k \in 0..n - 1
      PROVE  f[k + 1] = MergeIn(dk, st, c[k + 1], f[k])
  <2> DEFINE s == 1..(k + 1)
  <2>0. k \in Nat /\ k + 1 <= n
    OBVIOUS
  <2>1. s \in SUBSET (1..n) /\ s # {} /\ k + 1 \in s /\ k + 1 \in Nat
    <3>1. s \subseteq 1..n /\ k + 1 \in s
      BY <2>0
    <3> HIDE DEF s
    <3> QED
      BY <3>1, <2>0
  <2>2. Max(s) \in s /\ \A u \in s : u <= Max(s)
    BY <2>1, SomePlaces
  <2>3. Max(s) = k + 1
    BY <2>1, <2>2
  <2>4. s \ {k + 1} = 1..k
    <3>1. \A u : u \in 1..(k + 1) /\ u # k + 1 <=> u \in 1..k
      BY <2>0
    <3> QED
      BY <3>1
  <2>5. g[s] = MergeIn(dk, st, c[Max(s)], g[s \ {Max(s)}])
    BY <1>1, <2>1 DEF Merges
  <2>6. f[k + 1] = g[s] /\ f[k] = g[1..k]
    BY <2>0
  <2> HIDE DEF s, f
  <2> QED
    BY <2>3, <2>4, <2>5, <2>6
<1>5. f[n] = g[DOMAIN c]
  OBVIOUS
<1> HIDE DEF f
<1> QED
  BY <1>2, <1>3, <1>4, <1>5 DEF MergeScan

LEMMA MergedIsFold ==
    ASSUME NEW st, NEW c, NEW b
    PROVE  FoldLeft(LAMBDA m, l : merge_metadata_delta(st, l, m), b, c) = Merged(DocKeys, st, c, b)
BY Zenon DEF FoldLeft, MapThenFoldSet, Merged, Merges, merge_metadata_delta, MergeIn

-----------------------------------------------------------------------------
(* A batch of tool calls: nothing is lost.                                 *)

Notes(I) == {calls[i].note : i \in I}
NoteValues == ToSet(OldList) \cup Notes(CallIds)
AtFirst == [list |-> OldList, doc |-> [k \in DocKeys |-> {}]]

\* The notes are those of the last calls, unless there are too many.
Noted(l, I) ==
    /\ l \in Seq(NoteValues) /\ Capped(l)
    /\ Cardinality(Notes(I)) <= ListCap => Recent(l, Notes(I))

\* The call has left its change in its document.
Wrote(doc, i) == calls[i].key # NoKey => i \in doc[calls[i].key]

LEMMA OldListShape == OldList \in Seq(NoteValues) /\ Capped(OldList)
<1>1. OldList \in Seq(ToSet(OldList)) /\ Capped(OldList)
  BY RuntimeAssumption DEF Capped
<1>2. ToSet(OldList) \subseteq NoteValues
  BY DEF NoteValues
<1> DEFINE T == ToSet(OldList)
<1> HIDE DEF T
<1>3. OldList \in Seq(T) /\ T \subseteq NoteValues
  BY <1>1, <1>2 DEF T
<1>4. OldList \in Seq(NoteValues)
  BY <1>3
<1> QED
  BY <1>1, <1>4

LEMMA BatchShape ==
    ASSUME calls \in Batches
    PROVE  /\ Len(calls) \in Nat /\ CallIds = 1..Len(calls) /\ IsFiniteSet(CallIds)
           /\ \A i \in CallIds : calls[i].note \in NoteValues
           /\ \A i \in CallIds : calls[i].key # NoKey => calls[i].key \in DocKeys
<1>1. calls \in Seq(ToSet(calls))
  BY RuntimeAssumption
<1> DEFINE T == ToSet(calls)
<1> HIDE DEF T
<1>2. calls \in Seq(T)
  BY <1>1 DEF T
<1>3. Len(calls) \in Nat /\ CallIds = 1..Len(calls)
  BY <1>2 DEF CallIds
<1>4. IsFiniteSet(CallIds)
  BY <1>3, FS_Interval
<1>5. \A i \in CallIds : calls[i].note \in NoteValues
  BY DEF NoteValues, Notes
<1>6. \A i \in CallIds : calls[i].key # NoKey => calls[i].key \in DocKeys
  BY DEF DocKeys
<1> QED
  BY <1>3, <1>4, <1>5, <1>6

LEMMA NotesFinite ==
    ASSUME calls \in Batches, NEW I, I \subseteq CallIds
    PROVE  IsFiniteSet(Notes(I)) /\ Cardinality(Notes(I)) \in Nat
<1>1. IsFiniteSet(I)
  BY BatchShape, FS_Subset
<1> DEFINE f == [i \in I |-> calls[i].note]
<1>2. f \in Surjection(I, Notes(I))
  BY Zenon DEF Surjection, Notes
<1>3. IsFiniteSet(Notes(I))
  BY <1>1, <1>2, FS_Surjection
<1> QED
  BY <1>3, FS_CardinalityType

LEMMA FewerNotes ==
    ASSUME calls \in Batches, NEW I, I \subseteq CallIds, NEW P, P \subseteq Notes(I),
           Cardinality(Notes(I)) <= ListCap
    PROVE  IsFiniteSet(P) /\ Cardinality(P) <= ListCap
<1>1. IsFiniteSet(Notes(I)) /\ Cardinality(Notes(I)) \in Nat
  BY NotesFinite
<1>2. IsFiniteSet(P) /\ Cardinality(P) <= Cardinality(Notes(I))
  BY <1>1, FS_Subset
<1>3. Cardinality(P) \in Nat /\ ListCap \in Nat
  BY <1>2, FS_CardinalityType, RuntimeAssumption
<1> QED
  BY <1>1, <1>2, <1>3

\* In order: one call more.
LEMMA NotedMore ==
    ASSUME calls \in Batches, NEW I, I \subseteq CallIds, NEW x \in CallIds, NEW l, Noted(l, I)
    PROVE  Noted(push_capped_unique(l, calls[x].note), I \cup {x})
<1> DEFINE v == calls[x].note
           m == push_capped_unique(l, v)
<1>1. v \in NoteValues
  BY BatchShape
<1>2. l \in Seq(NoteValues) /\ Capped(l)
  BY DEF Noted
<1>3. m \in Seq(NoteValues) /\ Capped(m)
  BY <1>1, <1>2, PushKeeps
<1>4. Notes(I \cup {x}) = Notes(I) \cup {v}
  BY DEF Notes
<1> HIDE DEF v, m
<1>5. ASSUME Cardinality(Notes(I \cup {x})) <= ListCap
      PROVE  Recent(m, Notes(I \cup {x}))
  <2>1. I \cup {x} \subseteq CallIds
    OBVIOUS
  <2>2. Notes(I) \subseteq Notes(I \cup {x}) /\ Notes(I \cup {x}) \subseteq Notes(I \cup {x})
    BY <1>4
  <2>3. /\ Cardinality(Notes(I)) <= ListCap
        /\ IsFiniteSet(Notes(I \cup {x}))
    BY <2>1, <2>2, <1>5, FewerNotes
  <2>4. Recent(l, Notes(I))
    BY <2>3 DEF Noted
  <2>5. IsFiniteSet(Notes(I) \cup {v}) /\ Cardinality(Notes(I) \cup {v}) <= ListCap
    BY <2>3, <1>4, <1>5
  <2>6. Recent(m, Notes(I) \cup {v})
    BY <2>4, <2>5, <1>1, <1>2, PushRecent DEF m
  <2> QED
    BY <2>6, <1>4
<1> QED
  BY <1>3, <1>5 DEF Noted, m, v

\* At once: the notes of the calls merged so far, and the last old one, if a
\* call that ran has noted it again.
LastNoted(I) ==
    {x \in Notes(I) : Len(OldList) > 0 /\ OldList[Len(OldList)] = x}

MergedNotes(I, k) == Notes({i \in I : i <= k}) \cup LastNoted(I)

LEMMA LastIsRecent ==
    ASSUME NEW I
    PROVE  Recent(OldList, LastNoted(I))
<1> DEFINE n == Len(OldList)
<1>1. OldList \in Seq(NoteValues) /\ IsInjective(OldList)
  BY OldListShape DEF Capped
<1>2. n \in Nat /\ DOMAIN OldList = 1..n
  BY <1>1
<1>3. \A i, j \in 1..n : OldList[i] = OldList[j] => i = j
  BY <1>1, <1>2 DEF IsInjective
<1>4. \A x \in LastNoted(I) : n > 0 /\ OldList[n] = x
  BY DEF LastNoted
<1> HIDE DEF n
<1>5. ASSUME NEW x \in LastNoted(I) PROVE \E i \in 1..n : OldList[i] = x
  <2>1. n \in 1..n /\ OldList[n] = x
    BY <1>2, <1>4
  <2> QED
    BY <2>1
<1>6. ASSUME NEW i \in 1..n, NEW j \in 1..n, i < j, OldList[i] \in LastNoted(I)
      PROVE  FALSE
  <2>1. n \in 1..n /\ OldList[n] = OldList[i]
    BY <1>2, <1>4, <1>6
  <2>2. i = n
    BY <2>1, <1>3
  <2> QED
    BY <2>2, <1>2, <1>6
<1> QED
  BY <1>5, <1>6 DEF Recent, n

\* One snapshot more.
LEMMA NotesMerged ==
    ASSUME calls \in Batches, NEW I, I \subseteq CallIds, NEW k \in 0..Len(calls) - 1, NEW now, NEW l,
           now = IF k + 1 \in I THEN push_capped_unique(OldList, calls[k + 1].note) ELSE OldList,
           l \in Seq(NoteValues), Capped(l),
           Cardinality(Notes(I)) <= ListCap => Recent(l, MergedNotes(I, k))
    PROVE  LET m == replay_list_delta(OldList, now, l)
           IN  /\ m \in Seq(NoteValues) /\ Capped(m)
               /\ Cardinality(Notes(I)) <= ListCap => Recent(m, MergedNotes(I, k + 1))
<1> DEFINE m == replay_list_delta(OldList, now, l)
           x == k + 1
           v == calls[x].note
<1>1. Len(calls) \in Nat /\ CallIds = 1..Len(calls)
  BY BatchShape
<1>2. x \in CallIds /\ \A i \in CallIds : i <= x <=> i <= k \/ i = x
  BY <1>1
<1>3. v \in NoteValues
  BY <1>2, BatchShape
<1>o. OldList \in Seq(NoteValues) /\ Capped(OldList)
  BY OldListShape
<1>4. CASE x \notin I
  <2>1. m = l
    BY <1>4, <1>o, ReplayNothing
  <2>2. {i \in I : i <= x} = {i \in I : i <= k}
    BY <1>2, <1>4
  <2>3. MergedNotes(I, x) = MergedNotes(I, k)
    BY <2>2 DEF MergedNotes
  <2> HIDE DEF m, x
  <2>4. Cardinality(Notes(I)) <= ListCap => Recent(m, MergedNotes(I, x))
    BY <2>1, <2>3
  <2> QED
    BY <2>1, <2>4 DEF m, x
<1>5. CASE x \in I
  <2>1. now = push_capped_unique(OldList, v)
    BY <1>5
  <2>2. {i \in I : i <= x} = {i \in I : i <= k} \cup {x}
    BY <1>2, <1>5
  <2>3. Notes({i \in I : i <= k} \cup {x}) = Notes({i \in I : i <= k}) \cup {v}
    BY DEF Notes
  <2>4. MergedNotes(I, x) = MergedNotes(I, k) \cup {v}
    BY <2>2, <2>3 DEF MergedNotes
  <2>5. MergedNotes(I, x) \subseteq Notes(I) /\ v \in Notes(I)
    BY <1>5 DEF MergedNotes, Notes, LastNoted
  <2>6. \/ m = push_capped_unique(l, v)
        \/ m = l /\ Len(OldList) > 0 /\ OldList[Len(OldList)] = v
    BY <2>1, <1>3, <1>o, ReplayPushed
  <2> HIDE DEF m, x, v
  <2>7. CASE m = push_capped_unique(l, v)
    <3>1. m \in Seq(NoteValues) /\ Capped(m)
      BY <2>7, <1>3, PushKeeps
    <3>2. ASSUME Cardinality(Notes(I)) <= ListCap PROVE Recent(m, MergedNotes(I, x))
      <4>1. /\ IsFiniteSet(MergedNotes(I, k) \cup {v})
            /\ Cardinality(MergedNotes(I, k) \cup {v}) <= ListCap
        BY <3>2, <2>4, <2>5, FewerNotes
      <4>2. Recent(l, MergedNotes(I, k))
        BY <3>2
      <4>3. Recent(push_capped_unique(l, v), MergedNotes(I, k) \cup {v})
        BY <4>1, <4>2, <1>3, PushRecent
      <4> QED
        BY <4>3, <2>4, <2>7
    <3> QED
      BY <3>1, <3>2 DEF m, x
  <2>8. CASE m = l /\ Len(OldList) > 0 /\ OldList[Len(OldList)] = v
    <3>1. v \in LastNoted(I)
      BY <2>5, <2>8 DEF LastNoted
    <3>2. MergedNotes(I, x) = MergedNotes(I, k)
      BY <3>1, <2>4 DEF MergedNotes
    <3>3. Cardinality(Notes(I)) <= ListCap => Recent(m, MergedNotes(I, x))
      BY <3>2, <2>8
    <3> QED
      BY <3>3, <2>8 DEF m, x
  <2> QED
    BY <2>6, <2>7, <2>8
<1> QED
  BY <1>4, <1>5

\* Every call that ran is in its document after the merge, and its note in the
\* list: with no two calls for one resource, no snapshot undoes another.
LEMMA MergeKeepsAll ==
    ASSUME calls \in Batches, ~HasConflict, NEW I, I \subseteq CallIds, NEW L, DOMAIN L = CallIds,
           \A i \in CallIds : L[i] = IF i \in I THEN Executed(i, AtFirst) ELSE AtFirst
    PROVE  LET M == Merged(DocKeys, AtFirst, L, AtFirst)
           IN  \A i \in I : /\ Wrote(M.doc, i)
                            /\ Cardinality(Notes(I)) <= ListCap => calls[i].note \in ToSet(M.list)
<1> DEFINE n == Len(calls)
<1>1. /\ n \in Nat /\ CallIds = 1..n
      /\ \A i \in CallIds : calls[i].key # NoKey => calls[i].key \in DocKeys
  BY BatchShape
<1>2. PICK dk : dk = DocKeys
  OBVIOUS
<1>3. PICK st : st = AtFirst
  OBVIOUS
<1>s. st.list = OldList /\ \A k \in dk : st.doc[k] = {}
  BY <1>2, <1>3 DEF AtFirst
<1>m. \E f : MergeScan(f, n, dk, st, L, st)
  <2>1. n \in Nat /\ DOMAIN L = 1..n
    BY <1>1
  <2> HIDE DEF n
  <2> QED
    BY ONLY <2>1, MergeScans
<1>4. PICK f : /\ f[0] = st
               /\ \A k \in 0..n - 1 : f[k + 1] = MergeIn(dk, st, L[k + 1], f[k])
               /\ Merged(dk, st, L, st) = f[n]
  BY <1>m DEF MergeScan
<1>5. \A i \in CallIds : /\ L[i].list = IF i \in I THEN push_capped_unique(OldList, calls[i].note) ELSE OldList
                         /\ \A k \in dk : L[i].doc[k] = IF i \in I /\ k = calls[i].key THEN {i} ELSE {}
  <2> SUFFICES ASSUME NEW i \in CallIds
               PROVE  /\ L[i].list = IF i \in I THEN push_capped_unique(OldList, calls[i].note) ELSE OldList
                      /\ \A k \in dk : L[i].doc[k] = IF i \in I /\ k = calls[i].key THEN {i} ELSE {}
    OBVIOUS
  <2>1. CASE i \in I
    <3>1. L[i] = Executed(i, st)
      BY <2>1, <1>3
    <3>2. /\ L[i].list = push_capped_unique(st.list, calls[i].note)
          /\ L[i].doc = [k \in dk |-> IF k = calls[i].key THEN st.doc[k] \cup {i} ELSE st.doc[k]]
      BY <3>1, <1>2 DEF Executed
    <3>3. \A k \in dk : L[i].doc[k] = IF k = calls[i].key THEN st.doc[k] \cup {i} ELSE st.doc[k]
      BY <3>2
    <3>4. \A k \in dk : L[i].doc[k] = IF k = calls[i].key THEN {i} ELSE {}
      BY <3>3, <1>s
    <3> QED
      BY <3>2, <3>4, <2>1, <1>s
  <2>2. CASE i \notin I
    <3>1. L[i] = st
      BY <2>2, <1>3
    <3> QED
      BY <3>1, <2>2, <1>s
  <2> QED
    BY <2>1, <2>2
<1> DEFINE G == {k \in 0..n :
                    /\ f[k].list \in Seq(NoteValues) /\ Capped(f[k].list)
                    /\ Cardinality(Notes(I)) <= ListCap => Recent(f[k].list, MergedNotes(I, k))
                    /\ \A i \in I : i <= k => Wrote(f[k].doc, i)}
<1>6. 0 \in G
  <2>1. f[0].list = OldList /\ 0 \in 0..n
    BY <1>1, <1>4, <1>s
  <2>2. \A i \in I : ~(i <= 0)
    BY <1>1
  <2>3. MergedNotes(I, 0) = LastNoted(I)
    BY <2>2 DEF MergedNotes, Notes
  <2>4. Recent(OldList, MergedNotes(I, 0))
    BY <2>3, LastIsRecent
  <2> QED
    BY <2>1, <2>2, <2>4, OldListShape
<1>7. ASSUME NEW k \in 0..n - 1, k \in G PROVE k + 1 \in G
  <2> DEFINE x == k + 1
  <2>1. /\ x \in CallIds /\ x \in 0..n /\ k \in 0..Len(calls) - 1
        /\ \A i \in CallIds : i <= x <=> i <= k \/ i = x
    BY <1>1
  <2>2. f[x] = MergeIn(dk, st, L[x], f[k])
    BY <1>4
  <2>3. /\ f[x].list = replay_list_delta(OldList, L[x].list, f[k].list)
        /\ \A w \in dk : f[x].doc[w] = IF L[x].doc[w] # {} THEN L[x].doc[w] ELSE f[k].doc[w]
    <3>1. /\ f[x].list = replay_list_delta(st.list, L[x].list, f[k].list)
          /\ f[x].doc = [w \in dk |-> IF L[x].doc[w] # st.doc[w] THEN L[x].doc[w] ELSE f[k].doc[w]]
      BY <2>2 DEF MergeIn
    <3>2. \A w \in dk : f[x].doc[w] = IF L[x].doc[w] # st.doc[w] THEN L[x].doc[w] ELSE f[k].doc[w]
      BY <3>1
    <3> QED
      BY <3>1, <3>2, <1>s
  <2>4. /\ f[x].list \in Seq(NoteValues) /\ Capped(f[x].list)
        /\ Cardinality(Notes(I)) <= ListCap => Recent(f[x].list, MergedNotes(I, x))
    <3>1. L[x].list = IF x \in I THEN push_capped_unique(OldList, calls[x].note) ELSE OldList
      BY <2>1, <1>5
    <3>2. /\ f[k].list \in Seq(NoteValues) /\ Capped(f[k].list)
          /\ Cardinality(Notes(I)) <= ListCap => Recent(f[k].list, MergedNotes(I, k))
      BY <1>7
    <3> HIDE DEF G
    <3> DEFINE m == replay_list_delta(OldList, L[x].list, f[k].list)
    <3>3. /\ m \in Seq(NoteValues) /\ Capped(m)
          /\ Cardinality(Notes(I)) <= ListCap => Recent(m, MergedNotes(I, x))
      BY <3>1, <3>2, <2>1, NotesMerged
    <3>4. f[x].list = m
      BY <2>3
    <3> HIDE DEF m, x
    <3> QED
      BY <3>3, <3>4
  <2>5. ASSUME NEW i \in I, i <= x, calls[i].key # NoKey PROVE i \in f[x].doc[calls[i].key]
    <3>1. calls[i].key \in dk /\ i \in CallIds
      BY <2>5, <1>1, <1>2
    <3>2. CASE i = x
      <4>1. L[x].doc[calls[i].key] = {i}
        BY <3>1, <3>2, <1>5
      <4> QED
        BY <4>1, <3>1, <2>3
    <3>3. CASE i # x
      <4>1. i <= k
        BY <3>1, <3>3, <2>1, <2>5
      <4>2. i \in f[k].doc[calls[i].key]
        BY <4>1, <2>5, <1>7 DEF Wrote
      <4>3. calls[x].key # calls[i].key
        BY <3>1, <3>3, <2>1, <2>5 DEF HasConflict
      <4>4. L[x].doc[calls[i].key] = {}
        BY <4>3, <3>1, <2>1, <1>5
      <4> QED
        BY <4>2, <4>4, <3>1, <2>3
    <3> QED
      BY <3>2, <3>3
  <2> QED
    BY <2>1, <2>4, <2>5 DEF Wrote
<1>8. n \in G
  <2> HIDE DEF G
  <2>1. \A k \in 0..n : k \in G
    BY <1>1, <1>6, <1>7, UpTo
  <2> QED
    BY <2>1, <1>1
<1>9. ASSUME NEW i \in I
      PROVE  /\ Wrote(f[n].doc, i)
             /\ Cardinality(Notes(I)) <= ListCap => calls[i].note \in ToSet(f[n].list)
  <2>1. i <= n
    BY <1>1
  <2>2. Wrote(f[n].doc, i)
    BY <1>8, <2>1
  <2>3. ASSUME Cardinality(Notes(I)) <= ListCap PROVE calls[i].note \in ToSet(f[n].list)
    <3>1. Recent(f[n].list, MergedNotes(I, n)) /\ f[n].list \in Seq(NoteValues)
      BY <1>8, <2>3
    <3>2. calls[i].note \in MergedNotes(I, n)
      BY <2>1 DEF MergedNotes, Notes
    <3>3. PICK j \in 1..Len(f[n].list) : f[n].list[j] = calls[i].note
      BY <3>1, <3>2 DEF Recent
    <3>4. j \in DOMAIN f[n].list
      BY <3>1
    <3> QED
      BY <3>3, <3>4 DEF ToSet
  <2> QED
    BY <2>2, <2>3
<1> QED
  BY <1>2, <1>3, <1>4, <1>9

\* Where a dispatch may be, and what is known of the batch in between: in order,
\* the shared metadata have all that was written; at once, each snapshot is the
\* first state with the change of its own call, and nothing is shared before
\* the end.
DispatchAt ==
    CallOutcomes \cup {"waiting", "pre_hook", "notify", "prompt", "executing", "post_hook"}

BatchTyped ==
    /\ calls \in Batches /\ stopFlag \in BOOLEAN /\ batchAt \in {"running", "over"}
    /\ hist \in [done : SUBSET CallIds, late : BOOLEAN]
    /\ dcall \in [CallIds -> DispatchAt]
    /\ \A i \in hist.done : dcall[i] \in {"post_hook", "executed"}
    /\ batchAt = "over" => \A i \in CallIds : dcall[i] \in CallOutcomes

SharedKept ==
    /\ InOrder => Noted(meta.list, hist.done) /\ \A i \in hist.done : Wrote(meta.doc, i)
    /\ ~InOrder /\ batchAt = "running" => meta = AtFirst

SnapshotsKept ==
    ~InOrder => /\ DOMAIN local = CallIds
                /\ \A i \in CallIds :
                      local[i] = IF i \in hist.done THEN Executed(i, AtFirst) ELSE AtFirst

BatchInv == BatchTyped /\ SharedKept /\ SnapshotsKept /\ BatchHolds

LEMMA BatchInitInv == RuntimeInit => BatchInv
<1> SUFFICES ASSUME RuntimeInit PROVE BatchInv
  OBVIOUS
<1>1. /\ calls \in Batches /\ meta = AtFirst /\ hist.done = {} /\ hist.late = FALSE /\ batchAt = "running"
      /\ local = [i \in CallIds |-> AtFirst] /\ dcall = [i \in CallIds |-> "waiting"] /\ stopFlag = FALSE
      /\ hist \in [done : SUBSET CallIds, late : BOOLEAN]
  BY DEF RuntimeInit, AtFirst
<1>2. BatchTyped
  BY <1>1 DEF BatchTyped, DispatchAt
<1>3. Noted(meta.list, hist.done)
  <2>1. meta.list = OldList /\ Notes({}) = {}
    BY <1>1 DEF AtFirst, Notes
  <2>2. Recent(OldList, {})
    BY DEF Recent
  <2> QED
    BY <2>1, <2>2, <1>1, OldListShape DEF Noted
<1>4. SharedKept
  BY <1>1, <1>3 DEF SharedKept
<1>5. SnapshotsKept
  BY <1>1 DEF SnapshotsKept
<1>6. BatchHolds
  BY <1>1 DEF BatchHolds, StopIsFinal, BatchLosesNothing
<1> QED
  BY <1>2, <1>4, <1>5, <1>6 DEF BatchInv

LEMMA SameBatch ==
    ASSUME calls' = calls
    PROVE  /\ CallIds' = CallIds /\ DocKeys' = DocKeys /\ AtFirst' = AtFirst
           /\ NoteValues' = NoteValues /\ InOrder' = InOrder
BY DEF CallIds, DocKeys, AtFirst, NoteValues, Notes, InOrder, HasConflict

\* A call moves on; nothing is written.
LEMMA BatchMoves ==
    ASSUME BatchInv, calls' = calls, meta' = meta, local' = local, batchAt' = batchAt,
           stopFlag' \in BOOLEAN, hist' \in [done : SUBSET CallIds, late : BOOLEAN],
           hist'.done = hist.done, ~hist'.late, dcall' \in [CallIds -> DispatchAt],
           \A i \in CallIds : dcall'[i] = dcall[i] \/ ~(dcall[i] \in CallOutcomes),
           \A i \in hist.done : dcall'[i] \in {"post_hook", "executed"}
    PROVE  BatchInv'
<1>1. /\ CallIds' = CallIds /\ DocKeys' = DocKeys /\ AtFirst' = AtFirst
      /\ NoteValues' = NoteValues /\ InOrder' = InOrder
  BY SameBatch
<1>2. BatchTyped'
  BY <1>1 DEF BatchInv, BatchTyped, CallOutcomes, DispatchAt
<1>3. SharedKept'
  BY <1>1 DEF BatchInv, SharedKept, Noted, Notes, Wrote
<1>4. SnapshotsKept'
  BY <1>1 DEF BatchInv, SnapshotsKept, Executed
<1>5. BatchHolds'
  BY DEF BatchInv, BatchHolds, StopIsFinal, BatchLosesNothing
<1> QED
  BY <1>2, <1>3, <1>4, <1>5 DEF BatchInv

\* Before the tool runs, or after; the flag is looked at last.
LEMMA CallMoves ==
    ASSUME BatchInv, NEW i \in CallIds, Enter(i) \/ PreHookReturns(i) \/ Prompts(i) \/ Answered(i) \/ PostHookReturns(i)
    PROVE  BatchInv'
<1>0. /\ UNCHANGED <<calls, stopFlag, meta, local, batchAt>>
      /\ ~(dcall[i] \in CallOutcomes) /\ (dcall[i] = "post_hook" \/ i \notin hist.done)
  BY DEF Enter, PreHookReturns, Prompts, Answered, PostHookReturns, CallOutcomes, BatchInv, BatchTyped
<1>t. /\ hist \in [done : SUBSET CallIds, late : BOOLEAN] /\ dcall \in [CallIds -> DispatchAt]
      /\ stopFlag \in BOOLEAN /\ ~hist.late
      /\ \A j \in hist.done : dcall[j] \in {"post_hook", "executed"}
  BY DEF BatchInv, BatchTyped, BatchHolds, StopIsFinal
<1>1. \E p \in DispatchAt : /\ dcall' = [dcall EXCEPT ![i] = p]
                            /\ dcall[i] = "post_hook" => p = "executed"
                            /\ \/ UNCHANGED hist
                               \/ \E z : hist' = [hist EXCEPT !.late = hist.late \/ z] /\ ~z
  <2>1. CASE Enter(i)
    <3> DEFINE p == IF query_is_cancelled THEN "interrupted"
                    ELSE IF calls[i].tool \in offTools THEN "refused" ELSE "pre_hook"
               z == dcall'[i] = "pre_hook" /\ stopFlag
    <3>1. /\ dcall' = [dcall EXCEPT ![i] = p] /\ dcall[i] = "waiting"
          /\ hist' = [hist EXCEPT !.late = hist.late \/ z]
      BY <2>1 DEF Enter, At
    <3>2. p \in DispatchAt /\ (p = "pre_hook" => ~stopFlag)
      BY DEF DispatchAt, CallOutcomes, query_is_cancelled
    <3> HIDE DEF p
    <3>3. dcall'[i] = p
      BY <3>1, <1>t
    <3>4. ~z
      BY <3>2, <3>3
    <3> HIDE DEF z
    <3> QED
      BY <3>1, <3>2, <3>4
  <2>2. CASE PreHookReturns(i)
    <3>1. CASE UNCHANGED hist /\ (At(i, "refused") \/ At(i, "notify"))
      BY <3>1, <2>2 DEF PreHookReturns, At, DispatchAt, CallOutcomes
    <3>2. CASE Starts(i)
      <4> DEFINE p == IF query_is_cancelled THEN "interrupted" ELSE "executing"
                 z == dcall'[i] = "executing" /\ stopFlag
      <4>1. /\ dcall' = [dcall EXCEPT ![i] = p] /\ dcall[i] = "pre_hook"
            /\ hist' = [hist EXCEPT !.late = hist.late \/ z]
        BY <2>2, <3>2 DEF PreHookReturns, Starts, At
      <4>2. p \in DispatchAt /\ (p = "executing" => ~stopFlag)
        BY DEF DispatchAt, CallOutcomes, query_is_cancelled
      <4> HIDE DEF p
      <4>3. dcall'[i] = p
        BY <4>1, <1>t
      <4>4. ~z
        BY <4>2, <4>3
      <4> HIDE DEF z
      <4> QED
        BY <4>1, <4>2, <4>4
    <3> QED
      BY <2>2, <3>1, <3>2 DEF PreHookReturns
  <2>3. CASE Prompts(i)
    BY <2>3 DEF Prompts, At, DispatchAt
  <2>4. CASE Answered(i)
    <3>1. CASE UNCHANGED hist /\ (At(i, "refused") \/ At(i, "interrupted"))
      BY <3>1, <2>4 DEF Answered, At, DispatchAt, CallOutcomes
    <3>2. CASE /\ ~stopFlag /\ At(i, IF query_is_cancelled THEN "interrupted" ELSE "executing")
               /\ hist' = [hist EXCEPT !.late = hist.late \/ (stopFlag /\ (allowed' # allowed \/ dcall'[i] = "executing"))]
      <4> DEFINE p == IF query_is_cancelled THEN "interrupted" ELSE "executing"
                 z == stopFlag /\ (allowed' # allowed \/ dcall'[i] = "executing")
      <4>1. dcall' = [dcall EXCEPT ![i] = p] /\ p \in DispatchAt /\ dcall[i] = "prompt"
        BY <2>4, <3>2 DEF Answered, At, DispatchAt, CallOutcomes
      <4>2. hist' = [hist EXCEPT !.late = hist.late \/ z] /\ ~z
        BY <3>2
      <4> HIDE DEF z, p
      <4> QED
        BY <4>1, <4>2
    <3>3. \E reply \in {"allow", "always", "deny"} :
             \/ At(i, IF reply = "deny" THEN "refused" ELSE "interrupted") /\ UNCHANGED hist
             \/ /\ ~stopFlag /\ At(i, IF query_is_cancelled THEN "interrupted" ELSE "executing")
                /\ hist' = [hist EXCEPT !.late = hist.late \/ (stopFlag /\ (allowed' # allowed \/ dcall'[i] = "executing"))]
      BY <2>4 DEF Answered, AnswerCounts, query_is_cancelled
    <3> QED
      BY <3>1, <3>2, <3>3
  <2>5. CASE PostHookReturns(i)
    BY <2>5 DEF PostHookReturns, At, DispatchAt, CallOutcomes
  <2> QED
    BY <2>1, <2>2, <2>3, <2>4, <2>5
<1>2. PICK p \in DispatchAt : /\ dcall' = [dcall EXCEPT ![i] = p]
                              /\ dcall[i] = "post_hook" => p = "executed"
                              /\ \/ UNCHANGED hist
                                 \/ \E z : hist' = [hist EXCEPT !.late = hist.late \/ z] /\ ~z
  BY <1>1
<1>3. hist' \in [done : SUBSET CallIds, late : BOOLEAN] /\ hist'.done = hist.done /\ ~hist'.late
  <2>1. CASE UNCHANGED hist
    BY <2>1, <1>t
  <2>2. ASSUME NEW z, hist' = [hist EXCEPT !.late = hist.late \/ z], ~z
        PROVE  hist' \in [done : SUBSET CallIds, late : BOOLEAN] /\ hist'.done = hist.done /\ ~hist'.late
    <3>1. (hist.late \/ z) = FALSE
      BY <2>2, <1>t
    <3>2. hist' = [hist EXCEPT !.late = FALSE]
      BY <2>2, <3>1
    <3> QED
      BY <3>2, <1>t
  <2> QED
    BY <1>2, <2>1, <2>2
<1>4. /\ dcall' \in [CallIds -> DispatchAt]
      /\ \A j \in CallIds : dcall'[j] = dcall[j] \/ ~(dcall[j] \in CallOutcomes)
      /\ \A j \in hist.done : dcall'[j] \in {"post_hook", "executed"}
  BY <1>0, <1>2, <1>t
<1> QED
  BY <1>0, <1>3, <1>4, <1>t, BatchMoves

\* The tool has run: its change is in the shared metadata or in its snapshot.
LEMMA CallRuns ==
    ASSUME BatchInv, NEW i \in CallIds, ToolReturns(i)
    PROVE  BatchInv'
<1>0. /\ UNCHANGED <<calls, stopFlag, batchAt>> /\ dcall[i] = "executing"
      /\ dcall' = [dcall EXCEPT ![i] = "post_hook"]
  BY DEF ToolReturns, At
<1>t. /\ calls \in Batches /\ hist \in [done : SUBSET CallIds, late : BOOLEAN]
      /\ dcall \in [CallIds -> DispatchAt] /\ stopFlag \in BOOLEAN /\ ~hist.late
      /\ \A j \in hist.done : dcall[j] \in {"post_hook", "executed"}
      /\ batchAt \in {"running", "over"} /\ (batchAt = "over" => \A j \in CallIds : dcall[j] \in CallOutcomes)
  BY DEF BatchInv, BatchTyped, BatchHolds, StopIsFinal
<1>1. i \notin hist.done /\ batchAt = "running"
  BY <1>0, <1>t DEF CallOutcomes
<1>2. /\ dcall' \in [CallIds -> DispatchAt] /\ dcall'[i] = "post_hook"
      /\ \A j \in CallIds : j # i => dcall'[j] = dcall[j]
  BY <1>0, <1>t DEF DispatchAt
<1>s. /\ CallIds' = CallIds /\ DocKeys' = DocKeys /\ AtFirst' = AtFirst
      /\ NoteValues' = NoteValues /\ InOrder' = InOrder
  BY <1>0, SameBatch
<1>3. CASE UNCHANGED <<meta, local, hist>>
  <2>1. \A j \in CallIds : dcall'[j] = dcall[j] \/ ~(dcall[j] \in CallOutcomes)
    BY <1>0, <1>2 DEF CallOutcomes
  <2>2. \A j \in hist.done : dcall'[j] \in {"post_hook", "executed"}
    BY <1>t, <1>2
  <2> QED
    BY <1>3, <2>1, <2>2, <1>0, <1>2, <1>t, BatchMoves
<1>4. CASE /\ IF InOrder THEN meta' = Executed(i, meta) /\ UNCHANGED local
                         ELSE local' = [local EXCEPT ![i] = Executed(i, local[i])] /\ UNCHANGED meta
           /\ hist' = [hist EXCEPT !.done = hist.done \cup {i}]
  <2>1. /\ hist' \in [done : SUBSET CallIds, late : BOOLEAN] /\ hist'.done = hist.done \cup {i}
        /\ ~hist'.late
    BY <1>4, <1>t
  <2>2. BatchTyped'
    BY <2>1, <1>0, <1>1, <1>2, <1>s, <1>t DEF BatchTyped
  <2>3. BatchHolds'
    BY <2>1, <1>0, <1>1 DEF BatchHolds, StopIsFinal, BatchLosesNothing
  <2>4. SharedKept'
    <3>1. CASE InOrder
      <4>1. Noted(meta.list, hist.done) /\ \A j \in hist.done : Wrote(meta.doc, j)
        BY <3>1 DEF BatchInv, SharedKept
      <4>2. /\ meta'.list = push_capped_unique(meta.list, calls[i].note)
            /\ meta'.doc = [k \in DocKeys |-> IF k = calls[i].key THEN meta.doc[k] \cup {i} ELSE meta.doc[k]]
        BY <3>1, <1>4 DEF Executed
      <4>3. Noted(meta'.list, hist.done \cup {i})
        <5>1. hist.done \subseteq CallIds
          BY <1>t
        <5>2. Noted(push_capped_unique(meta.list, calls[i].note), hist.done \cup {i})
          BY <5>1, <4>1, <1>t, NotedMore
        <5> QED
          BY <5>2, <4>2
      <4>4. Noted(meta.list, hist.done)'
        <5>1. PICK l, I : l = meta'.list /\ I = hist.done \cup {i}
          OBVIOUS
        <5>2. Noted(l, I)
          BY <5>1, <4>3
        <5>3. Noted(l, I)'
          BY <5>2, <1>0, <1>s DEF Noted, Notes
        <5>4. l = meta'.list /\ I = hist'.done
          BY <5>1, <2>1
        <5> QED
          BY <5>3, <5>4 DEF Noted, Notes
      <4>5. ASSUME NEW j \in hist'.done, calls[j].key # NoKey PROVE j \in meta'.doc[calls[j].key]
        <5>1. j \in CallIds /\ calls[j].key \in DocKeys
          BY <4>5, <2>1, <1>t, BatchShape
        <5>2. meta'.doc[calls[j].key]
                 = IF calls[j].key = calls[i].key THEN meta.doc[calls[j].key] \cup {i} ELSE meta.doc[calls[j].key]
          BY <5>1, <4>2
        <5>3. CASE j = i
          BY <5>2, <5>3
        <5>4. CASE j \in hist.done
          BY <5>2, <5>4, <4>1, <4>5 DEF Wrote
        <5> QED
          BY <5>3, <5>4, <4>5, <2>1
      <4> QED
        BY <4>4, <4>5, <3>1, <1>0, <1>s DEF SharedKept, Wrote
    <3>2. CASE ~InOrder
      <4>1. meta' = meta /\ meta = AtFirst
        BY <3>2, <1>1, <1>4 DEF BatchInv, SharedKept
      <4> QED
        BY <4>1, <3>2, <1>s DEF SharedKept
    <3> QED
      BY <3>1, <3>2
  <2>5. SnapshotsKept'
    <3>1. CASE InOrder
      BY <3>1, <1>s DEF SnapshotsKept
    <3>2. CASE ~InOrder
      <4>1. /\ DOMAIN local = CallIds
            /\ \A j \in CallIds : local[j] = IF j \in hist.done THEN Executed(j, AtFirst) ELSE AtFirst
        BY <3>2 DEF BatchInv, SnapshotsKept
      <4>2. local' = [local EXCEPT ![i] = Executed(i, local[i])]
        BY <3>2, <1>4
      <4>3. local[i] = AtFirst
        BY <4>1, <1>1
      <4>4. DOMAIN local' = CallIds /\ local'[i] = Executed(i, AtFirst)
            /\ \A j \in CallIds : j # i => local'[j] = local[j]
        BY <4>1, <4>2, <4>3
      <4>5. \A j \in CallIds : local'[j] = IF j \in hist'.done THEN Executed(j, AtFirst) ELSE AtFirst
        BY <4>1, <4>4, <2>1
      <4>6. \A j \in CallIds : Executed(j, AtFirst)' = Executed(j, AtFirst)
        BY <1>0, <1>s DEF Executed
      <4> QED
        BY <4>4, <4>5, <4>6, <1>s DEF SnapshotsKept
    <3> QED
      BY <3>1, <3>2
  <2> QED
    BY <2>2, <2>3, <2>4, <2>5 DEF BatchInv
<1> QED
  BY <1>3, <1>4 DEF ToolReturns

\* The batch is over, and the snapshots merged.
LEMMA BatchCloses ==
    ASSUME BatchInv, BatchEnds
    PROVE  BatchInv'
<1>0. /\ UNCHANGED <<calls, stopFlag, local, dcall, hist>> /\ batchAt = "running" /\ batchAt' = "over"
      /\ \A i \in CallIds : dcall[i] \in CallOutcomes
      /\ InOrder => meta' = meta
  BY DEF BatchEnds
<1>t. calls \in Batches /\ hist.done \subseteq CallIds /\ ~hist.late
  BY DEF BatchInv, BatchTyped, BatchHolds, StopIsFinal
<1>s. /\ CallIds' = CallIds /\ DocKeys' = DocKeys /\ AtFirst' = AtFirst
      /\ NoteValues' = NoteValues /\ InOrder' = InOrder
  BY <1>0, SameBatch
<1>1. BatchTyped'
  BY <1>0, <1>s DEF BatchInv, BatchTyped
<1>2. SnapshotsKept'
  BY <1>0, <1>s DEF BatchInv, SnapshotsKept, Executed
<1>3. SharedKept'
  BY <1>0, <1>s DEF BatchInv, SharedKept, Noted, Notes, Wrote
<1>4. \A i \in hist.done :
         /\ Wrote(meta'.doc, i)
         /\ Cardinality(Notes(hist.done)) <= ListCap => calls[i].note \in ToSet(meta'.list)
  <2>1. CASE InOrder
    <3>1. meta' = meta /\ Noted(meta.list, hist.done) /\ \A i \in hist.done : Wrote(meta.doc, i)
      BY <2>1, <1>0 DEF BatchInv, SharedKept
    <3>2. ASSUME NEW i \in hist.done, Cardinality(Notes(hist.done)) <= ListCap
          PROVE  calls[i].note \in ToSet(meta.list)
      <4>1. Recent(meta.list, Notes(hist.done)) /\ meta.list \in Seq(NoteValues)
        BY <3>1, <3>2 DEF Noted
      <4>2. calls[i].note \in Notes(hist.done)
        BY DEF Notes
      <4>3. PICK j \in 1..Len(meta.list) : meta.list[j] = calls[i].note
        BY <4>1, <4>2 DEF Recent
      <4>4. j \in DOMAIN meta.list
        BY <4>1
      <4> QED
        BY <4>3, <4>4 DEF ToSet
    <3> QED
      BY <3>1, <3>2
  <2>2. CASE ~InOrder
    <3>1. ~HasConflict /\ meta = AtFirst
      BY <2>2, <1>0 DEF InOrder, BatchInv, SharedKept
    <3>2. /\ DOMAIN local = CallIds
          /\ \A i \in CallIds : local[i] = IF i \in hist.done THEN Executed(i, AtFirst) ELSE AtFirst
      BY <2>2 DEF BatchInv, SnapshotsKept
    <3>3. meta' = FoldLeft(LAMBDA m, l : merge_metadata_delta(AtFirst, l, m), AtFirst, local)
      BY <2>2, <3>1 DEF BatchEnds, AtFirst
    <3>4. meta' = Merged(DocKeys, AtFirst, local, AtFirst)
      BY <3>3, MergedIsFold
    <3> QED
      BY <3>1, <3>2, <3>4, <1>t, MergeKeepsAll
  <2> QED
    BY <2>1, <2>2
<1>5. BatchHolds'
  BY <1>0, <1>4, <1>t DEF BatchHolds, StopIsFinal, BatchLosesNothing, Wrote, Notes
<1> QED
  BY <1>1, <1>2, <1>3, <1>5 DEF BatchInv

\* The user's steps write nothing; they only set what the calls look at.
LEMMA UserMoves ==
    ASSUME BatchInv, stopFlag' \in BOOLEAN, UNCHANGED <<calls, meta, local, dcall, batchAt, hist>>
    PROVE  BatchInv'
<1>1. /\ hist \in [done : SUBSET CallIds, late : BOOLEAN] /\ ~hist.late /\ dcall \in [CallIds -> DispatchAt]
      /\ \A i \in hist.done : dcall[i] \in {"post_hook", "executed"}
  BY DEF BatchInv, BatchTyped, BatchHolds, StopIsFinal
<1> QED
  BY <1>1, BatchMoves

LEMMA BatchStep == BatchInv /\ [RuntimeNext]_runtimeVars => BatchInv'
<1> SUFFICES ASSUME BatchInv, [RuntimeNext]_runtimeVars PROVE BatchInv'
  OBVIOUS
<1>t. stopFlag \in BOOLEAN
  BY DEF BatchInv, BatchTyped
<1>1. ASSUME NEW i \in CallIds, DispatchStep(i) PROVE BatchInv'
  BY <1>1, CallMoves, CallRuns DEF DispatchStep
<1>2. CASE BatchEnds
  BY <1>2, BatchCloses
<1>3. CASE UserStep
  <2>1. CASE PressStop
    BY <2>1, UserMoves DEF PressStop
  <2>2. ASSUME NEW t \in RunTools, SwitchOff(t) PROVE BatchInv'
    BY <2>2, <1>t, UserMoves DEF SwitchOff
  <2>3. ASSUME NEW m \in {"default", "plan", "full_auto"}, SetMode(m) PROVE BatchInv'
    BY <2>3, <1>t, UserMoves DEF SetMode
  <2> QED
    BY <1>3, <2>1, <2>2, <2>3 DEF UserStep
<1>4. CASE UNCHANGED runtimeVars
  BY <1>4, <1>t, UserMoves DEF runtimeVars
<1> QED
  BY <1>1, <1>2, <1>3, <1>4 DEF RuntimeNext

\* However the calls of a batch interleave with each other, with the prompts
\* and with Stop, no tool begins and nothing is allowed for the session once
\* Stop is pressed; and when dispatch_many is over, every call that ran has its
\* change in the document of its resource and, while the batch's own notes fit
\* the cap, its note in the list: run in order on the shared metadata or at
\* once on snapshots, merge_metadata_delta loses none of them.  This holds for
\* every batch, cap and first list.
THEOREM BatchesLoseNothing == RuntimeSpec => []BatchHolds
<1>1. RuntimeInit => BatchInv
  BY BatchInitInv
<1>2. BatchInv /\ [RuntimeNext]_runtimeVars => BatchInv'
  BY BatchStep
<1>3. BatchInv => BatchHolds
  BY DEF BatchInv
<1> QED
  BY <1>1, <1>2, <1>3, PTL DEF RuntimeSpec

=============================================================================
