---------------------------- MODULE DomainProofs ----------------------------
(***************************************************************************)
(* Lock-free lookups of a symbol domain read the right symbol however the  *)
(* domain grows meanwhile: for any number of readers and of symbols.       *)
(***************************************************************************)
EXTENDS Domain, SequenceTheorems, TLAPS

\* The values of the variables.
Lookups == [pc : {"idle", "array", "slot", "fill", "done", "lut"},
            pos : Nat, arr : Nat, got : Int]
Growths == [pc : {"free", "grow", "slot", "swap", "count", "lut"},
            to : Nat, arr : Nat]
Shapes ==
    /\ arrays \in Seq(Seq(Int)) /\ syms \in Seq(Int) /\ lut \in Seq(Int)
    /\ atoms \in 1 .. Len(arrays) /\ freed = {}
    /\ count \in Nat /\ known \in Nat /\ base \in Nat /\ file \in Nat
    /\ w \in Growths /\ (w.pc = "free" => w = Free)
    /\ rd \in [Readers -> Lookups]

\* Symbol i is at position i, and no slot of any array holds anything else.
Named ==
    /\ \A i \in 1 .. Len(syms) : syms[i] = i
    /\ \A a \in 1 .. Len(arrays) : \A i \in 1 .. Len(arrays[a]) :
           arrays[a][i] = Nil \/ arrays[a][i] = i

\* The published array has room for the published count, and every symbol the
\* mapping does not have is in it.
Published ==
    /\ count <= Len(arrays[atoms]) /\ count <= Len(syms) /\ known <= count
    /\ file <= Len(syms)
    /\ \A i \in base + 1 .. count : arrays[atoms][i] # Nil

\* What the thread with the lock has prepared at each of its steps.
Prepared ==
    /\ w.pc = "grow" =>
         /\ w.arr \in 1 .. Len(arrays) /\ w.to = count + 1
         /\ w.to <= Len(arrays[w.arr]) /\ w.to <= Len(syms)
         /\ \A i \in 1 .. count : arrays[w.arr][i] # Nil
    /\ w.pc = "slot" =>
         /\ w.arr = atoms /\ w.to = count + 1
         /\ w.to <= Len(arrays[atoms]) /\ w.to <= Len(syms)
    /\ w.pc = "swap" =>
         /\ w.arr \in 1 .. Len(arrays) /\ w.to > count
         /\ w.to <= Len(arrays[w.arr]) /\ w.to <= Len(syms)
    /\ w.pc = "count" =>
         /\ w.to > count /\ w.to <= Len(arrays[atoms]) /\ w.to <= Len(syms)
         /\ \A i \in base + 1 .. w.to : arrays[atoms][i] # Nil

\* The published translation covers the positions that were handed out.
Translated ==
    lut # <<>> => /\ known <= Len(lut)
                  /\ \A i \in 1 .. Len(lut) : lut[i] = Id(i)

\* What a reader knows at each of its steps.
Looked ==
    \A r \in Readers :
        /\ rd[r].pc # "idle" => rd[r].pos \in 1 .. count
        /\ rd[r].pc = "slot" => rd[r].arr \in 1 .. Len(arrays)
        /\ rd[r].pc = "done" => rd[r].got = rd[r].pos
        /\ rd[r].pc = "lut" => rd[r].got = Id(rd[r].pos)

\* The inductive invariant behind DomainRight.
DomInv == Shapes /\ Named /\ Published /\ Prepared /\ Translated /\ Looked

-----------------------------------------------------------------------------
(* Sequences.                                                              *)

LEMMA FunSeq ==
    ASSUME NEW S, NEW n \in Nat, NEW f \in [1 .. n -> S]
    PROVE  f \in Seq(S) /\ Len(f) = n
OBVIOUS

LEMMA AppendFacts ==
    ASSUME NEW S, NEW s \in Seq(S), NEW e \in S
    PROVE  /\ Append(s, e) \in Seq(S) /\ Len(Append(s, e)) = Len(s) + 1
           /\ \A k \in 1 .. Len(s) : Append(s, e)[k] = s[k]
           /\ Append(s, e)[Len(s) + 1] = e
OBVIOUS

-----------------------------------------------------------------------------
(* How the arrays may change: none goes, none changes its size, and a slot *)
(* that was filled stays filled.                                           *)

RightSlots(s) == \A k \in 1 .. Len(s) : s[k] = Nil \/ s[k] = k
Evolves(A, B) ==
    /\ B \in Seq(Seq(Int)) /\ Len(A) <= Len(B)
    /\ \A a \in 1 .. Len(A) :
           /\ Len(B[a]) = Len(A[a])
           /\ \A k \in 1 .. Len(A[a]) : A[a][k] # Nil => B[a][k] # Nil
    /\ \A a \in 1 .. Len(B) : RightSlots(B[a])

LEMMA EvolvesRefl ==
    ASSUME Shapes, Named
    PROVE  Evolves(arrays, arrays)
BY DEF Shapes, Named, Evolves, RightSlots

LEMMA EvolvesUpdate ==
    ASSUME NEW A \in Seq(Seq(Int)), Evolves(A, A), NEW a \in 1 .. Len(A), NEW s \in Seq(Int),
           Len(s) = Len(A[a]), RightSlots(s),
           \A k \in 1 .. Len(s) : A[a][k] # Nil => s[k] # Nil
    PROVE  Evolves(A, [A EXCEPT ![a] = s])
<1> DEFINE B == [A EXCEPT ![a] = s]
<1>1. B \in Seq(Seq(Int)) /\ Len(B) = Len(A) /\ \A b \in 1 .. Len(A) : B[b] = IF b = a THEN s ELSE A[b]
  BY ExceptSeq
<1> HIDE DEF B
<1>2. Evolves(A, B)
  BY <1>1 DEF Evolves
<1> QED BY <1>2 DEF B

LEMMA EvolvesAppend ==
    ASSUME NEW A \in Seq(Seq(Int)), NEW B \in Seq(Seq(Int)), Evolves(A, B), NEW s \in Seq(Int),
           RightSlots(s)
    PROVE  Evolves(A, Append(B, s))
<1> DEFINE C == Append(B, s)
<1>1. /\ C \in Seq(Seq(Int)) /\ Len(C) = Len(B) + 1 /\ C[Len(B) + 1] = s
      /\ \A b \in 1 .. Len(B) : C[b] = B[b]
  BY AppendFacts
<1>2. Len(A) \in Nat /\ Len(B) \in Nat
  OBVIOUS
<1> HIDE DEF C
<1>3. \A b \in 1 .. Len(C) : b = Len(B) + 1 \/ b \in 1 .. Len(B)
  BY <1>1, <1>2
<1>4. \A b \in 1 .. Len(A) : b \in 1 .. Len(B)
  BY <1>2 DEF Evolves
<1>5. Len(A) <= Len(C)
  BY <1>1, <1>2 DEF Evolves
<1>6. \A b \in 1 .. Len(C) : RightSlots(C[b])
  BY <1>1, <1>3 DEF Evolves
<1>7. \A b \in 1 .. Len(A) :
           /\ Len(C[b]) = Len(A[b])
           /\ \A k \in 1 .. Len(A[b]) : A[b][k] # Nil => C[b][k] # Nil
  BY <1>1, <1>4 DEF Evolves
<1>8. Evolves(A, C)
  BY <1>1, <1>5, <1>6, <1>7 DEF Evolves
<1> QED BY <1>8 DEF C

\* dom_build_index_locked fills every slot below the count.
LEMMA FilledFacts ==
    ASSUME Shapes, Named, Published
    PROVE  /\ Filled \in Seq(Seq(Int)) /\ Len(Filled) = Len(arrays)
           /\ Evolves(arrays, Filled)
           /\ \A k \in 1 .. count : Filled[atoms][k] # Nil
<1> DEFINE n == Len(arrays[atoms])
           s == [k \in 1 .. n |-> IF k <= count THEN syms[k] ELSE arrays[atoms][k]]
<1>1. arrays[atoms] \in Seq(Int) /\ n \in Nat /\ DOMAIN arrays[atoms] = 1 .. n /\ DOMAIN arrays = 1 .. Len(arrays)
  BY DEF Shapes
<1>2. s \in [1 .. n -> Int]
  <2> SUFFICES ASSUME NEW k \in 1 .. n PROVE (IF k <= count THEN syms[k] ELSE arrays[atoms][k]) \in Int
    OBVIOUS
  <2>1. CASE k <= count
    BY <2>1, <1>1 DEF Shapes, Published
  <2>2. CASE ~(k <= count)
    BY <2>2, <1>1
  <2> QED BY <2>1, <2>2
<1>3. s \in Seq(Int) /\ Len(s) = n
  BY <1>1, <1>2, FunSeq
<1>4. \A k \in 1 .. n : s[k] = IF k <= count THEN syms[k] ELSE arrays[atoms][k]
  OBVIOUS
<1>5. Filled = [arrays EXCEPT ![atoms] = s]
  BY <1>1 DEF Filled, Shapes
<1> HIDE DEF s
<1>6. \A k \in 1 .. n : k <= count => syms[k] = k /\ k # Nil
  BY <1>1 DEF Shapes, Named, Published, Nil
<1>7. RightSlots(s) /\ \A k \in 1 .. n : arrays[atoms][k] # Nil => s[k] # Nil
  BY <1>1, <1>3, <1>4, <1>6 DEF Shapes, Named, RightSlots
<1>8. Evolves(arrays, Filled)
  BY <1>3, <1>5, <1>7, EvolvesRefl, EvolvesUpdate DEF Shapes
<1>9. Filled \in Seq(Seq(Int)) /\ Len(Filled) = Len(arrays) /\ Filled[atoms] = s
  BY <1>3, <1>5, ExceptSeq DEF Shapes
<1>10. \A k \in 1 .. count : k \in 1 .. n
  BY <1>1 DEF Shapes, Published
<1>11. \A k \in 1 .. count : s[k] # Nil
  <2> TAKE k \in 1 .. count
  <2>1. k \in 1 .. n /\ k <= count
    BY <1>10 DEF Shapes
  <2> QED BY <2>1, <1>4, <1>6
<1> QED BY <1>8, <1>9, <1>11

\* The frame of every step that leaves the published state alone.
LEMMA PublishedFrame ==
    ASSUME Shapes, Published, Evolves(arrays, arrays'), atoms' = atoms, count' = count,
           known' = known, base' = base, file' \in Nat, file' <= Len(syms'),
           syms' \in Seq(Int), Len(syms) <= Len(syms')
    PROVE  Published'
<1>1. /\ arrays[atoms] \in Seq(Int) /\ Len(arrays[atoms]) \in Nat /\ Len(syms) \in Nat
      /\ base \in Nat /\ count \in Nat /\ known \in Nat
  BY DEF Shapes
<1>0. Len(syms') \in Nat
  OBVIOUS
<1>5. count <= Len(arrays[atoms]) /\ count <= Len(syms)
  BY DEF Published
<1>2. Len(arrays'[atoms]) = Len(arrays[atoms])
  BY DEF Evolves, Shapes
<1>3. \A k \in base + 1 .. count : k \in 1 .. Len(arrays[atoms])
  BY <1>1, <1>5
<1>4. \A k \in base + 1 .. count : arrays'[atoms][k] # Nil
  BY <1>3 DEF Evolves, Shapes, Published
<1>6. count <= Len(syms')
  BY <1>0, <1>1, <1>5
<1> QED BY <1>2, <1>4, <1>5, <1>6 DEF Published

LEMMA NamedFrame ==
    ASSUME Evolves(arrays, arrays'), \A k \in 1 .. Len(syms') : syms'[k] = k
    PROVE  Named'
BY DEF Evolves, RightSlots, Named

LEMMA RoomKept ==
    ASSUME NEW A \in Seq(Seq(Int)), NEW B, Evolves(A, B), NEW a \in 1 .. Len(A),
           NEW n \in Nat, n <= Len(A[a])
    PROVE  a \in 1 .. Len(B) /\ n <= Len(B[a])
<1>1. B \in Seq(Seq(Int)) /\ Len(A) <= Len(B) /\ Len(B[a]) = Len(A[a])
  BY DEF Evolves
<1>2. Len(A) \in Nat /\ Len(B) \in Nat
  BY <1>1
<1> QED BY <1>1, <1>2

LEMMA FilledKept ==
    ASSUME NEW A \in Seq(Seq(Int)), NEW B, Evolves(A, B), NEW a \in 1 .. Len(A),
           NEW i \in Nat, NEW n \in Nat, n <= Len(A[a]),
           \A k \in i + 1 .. n : A[a][k] # Nil
    PROVE  \A k \in i + 1 .. n : B[a][k] # Nil
<1> TAKE k \in i + 1 .. n
<1>1. A[a] \in Seq(Int)
  OBVIOUS
<1>2. Len(A[a]) \in Nat
  BY <1>1
<1>3. k \in 1 .. Len(A[a])
  BY <1>2
<1>4. A[a][k] # Nil
  OBVIOUS
<1> QED BY <1>3, <1>4 DEF Evolves

LEMMA PreparedFrame ==
    ASSUME Shapes, Prepared, Evolves(arrays, arrays'), w' = w, atoms' = atoms, count' = count,
           base' = base, syms' \in Seq(Int), Len(syms) <= Len(syms')
    PROVE  Prepared'
<1>1. /\ arrays \in Seq(Seq(Int)) /\ syms \in Seq(Int) /\ w.to \in Nat
      /\ count \in Nat /\ base \in Nat /\ atoms \in 1 .. Len(arrays)
  BY DEF Shapes, Growths
<1>2. \A n \in Nat : n <= Len(syms) => n <= Len(syms')
  <2>1. Len(syms) \in Nat /\ Len(syms') \in Nat
    BY <1>1
  <2> QED BY <2>1
<1>4. ASSUME w.pc = "grow"
      PROVE  /\ w.arr \in 1 .. Len(arrays') /\ w.to <= Len(arrays'[w.arr]) /\ w.to <= Len(syms')
             /\ \A k \in 1 .. count : arrays'[w.arr][k] # Nil
  <2>1. /\ w.arr \in 1 .. Len(arrays) /\ w.to = count + 1 /\ w.to <= Len(arrays[w.arr])
        /\ w.to <= Len(syms) /\ \A k \in 1 .. count : arrays[w.arr][k] # Nil
    BY <1>4 DEF Prepared
  <2>2. w.arr \in 1 .. Len(arrays') /\ w.to <= Len(arrays'[w.arr])
    BY <1>1, <2>1, RoomKept
  <2>3. arrays[w.arr] \in Seq(Int)
    BY <1>1, <2>1
  <2>4. Len(arrays[w.arr]) \in Nat
    BY <2>3
  <2>5. count <= Len(arrays[w.arr])
    BY <1>1, <2>1, <2>4
  <2>6. 0 \in Nat /\ 0 + 1 = 1
    OBVIOUS
  <2>7. \A k \in 0 + 1 .. count : arrays'[w.arr][k] # Nil
    BY <1>1, <2>1, <2>5, <2>6, FilledKept
  <2> QED BY <1>1, <1>2, <2>1, <2>2, <2>6, <2>7
<1>5. ASSUME w.pc = "slot" PROVE w.to <= Len(arrays'[atoms]) /\ w.to <= Len(syms')
  <2>1. w.to <= Len(arrays[atoms]) /\ w.to <= Len(syms)
    BY <1>5 DEF Prepared
  <2> QED BY <1>1, <1>2, <2>1, RoomKept
<1>6. ASSUME w.pc = "swap"
      PROVE  w.arr \in 1 .. Len(arrays') /\ w.to <= Len(arrays'[w.arr]) /\ w.to <= Len(syms')
  <2>1. /\ w.arr \in 1 .. Len(arrays) /\ w.to <= Len(arrays[w.arr]) /\ w.to <= Len(syms)
    BY <1>6 DEF Prepared
  <2> QED BY <1>1, <1>2, <2>1, RoomKept
<1>7. ASSUME w.pc = "count"
      PROVE  /\ w.to <= Len(arrays'[atoms]) /\ w.to <= Len(syms')
             /\ \A k \in base + 1 .. w.to : arrays'[atoms][k] # Nil
  <2>1. /\ w.to <= Len(arrays[atoms]) /\ w.to <= Len(syms)
        /\ \A k \in base + 1 .. w.to : arrays[atoms][k] # Nil
    BY <1>7 DEF Prepared
  <2>2. w.to <= Len(arrays'[atoms])
    BY <1>1, <2>1, RoomKept
  <2>3. \A k \in base + 1 .. w.to : arrays'[atoms][k] # Nil
    BY <1>1, <2>1, FilledKept
  <2> QED BY <1>1, <1>2, <2>1, <2>2, <2>3
<1>8. w'.pc = "grow" =>
        /\ w'.arr \in 1 .. Len(arrays') /\ w'.to = count' + 1
        /\ w'.to <= Len(arrays'[w'.arr]) /\ w'.to <= Len(syms')
        /\ \A i \in 1 .. count' : arrays'[w'.arr][i] # Nil
  <2>1. w.pc = "grow" => w.to = count + 1
    BY DEF Prepared
  <2> QED BY <1>4, <2>1
<1>9. w'.pc = "slot" =>
        /\ w'.arr = atoms' /\ w'.to = count' + 1
        /\ w'.to <= Len(arrays'[atoms']) /\ w'.to <= Len(syms')
  <2>1. w.pc = "slot" => w.arr = atoms /\ w.to = count + 1
    BY DEF Prepared
  <2> QED BY <1>5, <2>1
<1>10. w'.pc = "swap" =>
        /\ w'.arr \in 1 .. Len(arrays') /\ w'.to > count'
        /\ w'.to <= Len(arrays'[w'.arr]) /\ w'.to <= Len(syms')
  <2>1. w.pc = "swap" => w.to > count
    BY DEF Prepared
  <2> QED BY <1>6, <2>1
<1>11. w'.pc = "count" =>
        /\ w'.to > count' /\ w'.to <= Len(arrays'[atoms']) /\ w'.to <= Len(syms')
        /\ \A i \in base' + 1 .. w'.to : arrays'[atoms'][i] # Nil
  <2>1. w.pc = "count" => w.to > count
    BY DEF Prepared
  <2> QED BY <1>7, <2>1
<1> QED BY <1>8, <1>9, <1>10, <1>11, Zenon DEF Prepared

LEMMA LookedFrame ==
    ASSUME Shapes, Looked, rd' = rd, count' \in Nat, count <= count',
           arrays' \in Seq(Seq(Int)), Len(arrays) <= Len(arrays')
    PROVE  Looked'
<1>1. /\ count \in Nat /\ Len(arrays) \in Nat /\ Len(arrays') \in Nat
  BY DEF Shapes
<1>2. \A r \in Readers : rd[r].pc # "idle" => rd[r].pos \in 1 .. count'
  BY <1>1 DEF Looked
<1>3. \A r \in Readers : rd[r].pc = "slot" => rd[r].arr \in 1 .. Len(arrays')
  BY <1>1 DEF Looked
<1> QED BY <1>2, <1>3 DEF Looked

LEMMA TranslatedFrame ==
    ASSUME Translated, lut' = lut, known' = known
    PROVE  Translated'
BY DEF Translated

-----------------------------------------------------------------------------
(* The steps of other processes and of the thread with the lock.           *)

LEMMA FileGrowsStep ==
    ASSUME DomInv, FileGrows
    PROVE  DomInv'
<1>1. /\ syms' \in Seq(Int) /\ Len(syms') = Len(syms) + 1 /\ Len(syms) \in Nat
      /\ \A k \in 1 .. Len(syms') : syms'[k] = k
  <2>1. Len(syms) \in Nat /\ syms \in Seq(Int) /\ syms' = Append(syms, Len(syms) + 1)
    BY DEF DomInv, Shapes, FileGrows
  <2>2. /\ syms' \in Seq(Int) /\ Len(syms') = Len(syms) + 1
        /\ \A k \in 1 .. Len(syms) : syms'[k] = syms[k]
        /\ syms'[Len(syms) + 1] = Len(syms) + 1
    BY <2>1, AppendFacts
  <2>3. \A k \in 1 .. Len(syms') : k \in 1 .. Len(syms) \/ k = Len(syms) + 1
    BY <2>1, <2>2
  <2> QED BY <2>1, <2>2, <2>3 DEF DomInv, Named
<1>2. file' \in Nat /\ file' <= Len(syms')
  BY <1>1 DEF DomInv, Shapes, FileGrows
<1>3. Evolves(arrays, arrays')
  BY EvolvesRefl DEF DomInv, FileGrows
<1>4. Shapes'
  BY <1>1, <1>2 DEF DomInv, Shapes, FileGrows
<1>5. Named'
  BY <1>1, <1>3, NamedFrame
<1>6. Published' /\ Prepared'
  BY <1>1, <1>2, <1>3, PublishedFrame, PreparedFrame DEF DomInv, FileGrows
<1>7. Translated' /\ Looked'
  BY TranslatedFrame, LookedFrame DEF DomInv, Shapes, FileGrows
<1> QED BY <1>4, <1>5, <1>6, <1>7 DEF DomInv

LEMMA FlushStep ==
    ASSUME DomInv, Flush
    PROVE  DomInv'
<1>2. file' \in Nat /\ file' <= Len(syms)
  BY DEF DomInv, Shapes, Published, Flush
<1>4. Shapes'
  BY <1>2 DEF DomInv, Shapes, Flush
<1>5. Named' /\ Prepared' /\ Translated' /\ Looked'
  BY DEF DomInv, Flush, Named, Prepared, Translated, Looked
<1>6. Published'
  BY <1>2 DEF DomInv, Flush, Published
<1> QED BY <1>4, <1>5, <1>6 DEF DomInv

\* A new array is larger than the one that is full.
LEMMA GrownFacts ==
    ASSUME DomInv, count >= Len(arrays[atoms])
    PROVE  /\ Grown \in Seq(Int) /\ count + 1 <= Len(Grown) /\ RightSlots(Grown)
           /\ \A k \in 1 .. count : Grown[k] # Nil
<1>1. /\ arrays[atoms] \in Seq(Int) /\ Len(arrays[atoms]) \in Nat /\ count \in Nat
      /\ count = Len(arrays[atoms]) /\ count <= Len(syms) /\ Len(syms) \in Nat
  BY DEF DomInv, Shapes, Published
<1>2. CapFor \in Nat /\ count + 1 <= CapFor
  BY <1>1, DomainAssumption DEF CapFor
<1>3. \A k \in 1 .. count : syms[k] = k
  BY <1>1 DEF DomInv, Named
<1>4. Grown \in [1 .. CapFor -> Int]
  <2> SUFFICES ASSUME NEW k \in 1 .. CapFor PROVE (IF k <= count THEN syms[k] ELSE Nil) \in Int
    BY DEF Grown
  <2> QED BY <1>1, <1>2, <1>3 DEF Nil
<1>5. Grown \in Seq(Int) /\ Len(Grown) = CapFor
  BY <1>2, <1>4, FunSeq
<1>6. \A k \in 1 .. CapFor : Grown[k] = IF k <= count THEN k ELSE Nil
  BY <1>1, <1>3 DEF Grown
<1>7. \A k \in 1 .. count : k \in 1 .. CapFor /\ k # Nil
  BY <1>1, <1>2 DEF Nil
<1> QED BY <1>2, <1>5, <1>6, <1>7 DEF RightSlots

LEMMA AppendBeginStep ==
    ASSUME DomInv, AppendBegin
    PROVE  DomInv'
<1>1. /\ syms \in Seq(Int) /\ Len(syms) = count /\ count \in Nat
      /\ syms' = Append(syms, count + 1) /\ count' = count /\ known' = known
      /\ base' = base /\ file' = file /\ atoms' = atoms /\ lut' = lut /\ rd' = rd
      /\ freed' = freed /\ Len(arrays) \in Nat /\ file \in Nat /\ file <= Len(syms)
      /\ atoms \in 1 .. Len(arrays) /\ Len(arrays[atoms]) \in Nat /\ w = Free
  BY DEF DomInv, Shapes, Published, AppendBegin
<1>2. /\ syms' \in Seq(Int) /\ Len(syms') = count + 1
      /\ \A k \in 1 .. count : syms'[k] = syms[k]
      /\ syms'[count + 1] = count + 1
  BY <1>1, AppendFacts
<1>3. \A k \in 1 .. Len(syms') : syms'[k] = k
  <2>1. \A k \in 1 .. Len(syms') : k \in 1 .. count \/ k = count + 1
    BY <1>1, <1>2
  <2> QED BY <1>1, <1>2, <2>1 DEF DomInv, Named
<1>4. /\ Filled \in Seq(Seq(Int)) /\ Len(Filled) = Len(arrays) /\ Evolves(arrays, Filled)
  BY FilledFacts DEF DomInv
<1>5. /\ Evolves(arrays, arrays') /\ w' \in Growths /\ w'.pc # "free" /\ Prepared'
  <2>1. CASE count >= Len(arrays[atoms])
    <3>1. arrays' = Append(Filled, Grown) /\ w' = [pc |-> "grow", to |-> count + 1, arr |-> Len(arrays) + 1]
      BY <2>1 DEF AppendBegin
    <3>2. /\ Grown \in Seq(Int) /\ count + 1 <= Len(Grown) /\ RightSlots(Grown)
          /\ \A k \in 1 .. count : Grown[k] # Nil
      BY <2>1, GrownFacts
    <3>3. Evolves(arrays, arrays')
      BY <1>4, <3>1, <3>2, EvolvesAppend DEF DomInv, Shapes
    <3>4. Len(arrays') = Len(arrays) + 1 /\ arrays'[Len(arrays) + 1] = Grown
      BY <1>4, <3>1, <3>2, AppendFacts
    <3>5. w'.pc = "grow" /\ w'.to = count + 1 /\ w'.arr = Len(arrays) + 1 /\ w' \in Growths
      BY <1>1, <3>1 DEF Growths
    <3>6. Prepared'
      BY <1>1, <1>2, <3>2, <3>4, <3>5 DEF Prepared
    <3> QED BY <3>3, <3>5, <3>6
  <2>2. CASE ~(count >= Len(arrays[atoms]))
    <3>1. arrays' = Filled /\ w' = [pc |-> "slot", to |-> count + 1, arr |-> atoms]
      BY <2>2 DEF AppendBegin
    <3>2. Len(arrays'[atoms]) = Len(arrays[atoms])
      BY <1>1, <1>4, <3>1 DEF Evolves
    <3>3. w'.pc = "slot" /\ w'.to = count + 1 /\ w'.arr = atoms /\ w' \in Growths
      BY <1>1, <3>1 DEF Growths
    <3>4. w'.to <= Len(arrays'[atoms'])
      BY <1>1, <2>2, <3>2, <3>3
    <3>5. Prepared'
      BY <1>1, <1>2, <3>3, <3>4 DEF Prepared
    <3> QED BY <1>4, <3>1, <3>3, <3>5
  <2> QED BY <2>1, <2>2
<1>6. arrays' \in Seq(Seq(Int)) /\ Len(arrays) <= Len(arrays') /\ Len(arrays') \in Nat
  BY <1>5 DEF Evolves
<1>7. Shapes'
  <2>1. atoms' \in 1 .. Len(arrays')
    BY <1>1, <1>6
  <2> QED BY <1>1, <1>2, <1>5, <1>6, <2>1 DEF DomInv, Shapes
<1>8. Named'
  BY <1>3, <1>5, NamedFrame
<1>9. Published'
  <2>1. file' <= Len(syms') /\ Len(syms) <= Len(syms')
    BY <1>1, <1>2
  <2> QED BY <1>1, <1>2, <1>5, <2>1, PublishedFrame DEF DomInv
<1>10. Translated' /\ Looked'
  BY <1>1, <1>6, TranslatedFrame, LookedFrame DEF DomInv
<1> QED BY <1>5, <1>7, <1>8, <1>9, <1>10 DEF DomInv

LEMMA AppendPublishArrayStep ==
    ASSUME DomInv, AppendPublishArray
    PROVE  DomInv'
<1>1. /\ w.arr \in 1 .. Len(arrays) /\ w.to = count + 1 /\ w.to <= Len(arrays[w.arr])
      /\ w.to <= Len(syms) /\ \A k \in 1 .. count : arrays[w.arr][k] # Nil
      /\ count \in Nat /\ base \in Nat /\ known <= count /\ file <= Len(syms) /\ count <= Len(syms)
      /\ Len(arrays[w.arr]) \in Nat
  <2>1. /\ w.arr \in 1 .. Len(arrays) /\ w.to = count + 1 /\ w.to <= Len(arrays[w.arr])
        /\ w.to <= Len(syms) /\ \A k \in 1 .. count : arrays[w.arr][k] # Nil
    BY DEF DomInv, Prepared, AppendPublishArray
  <2>2. count \in Nat /\ base \in Nat /\ Len(arrays[w.arr]) \in Nat
    BY <2>1 DEF DomInv, Shapes
  <2>3. known <= count /\ file <= Len(syms) /\ count <= Len(syms)
    BY DEF DomInv, Published
  <2> QED BY <2>1, <2>2, <2>3
<1>2. /\ freed' = {} /\ atoms' = w.arr /\ arrays' = arrays /\ count' = count /\ lut' = lut
      /\ syms' = syms /\ base' = base /\ file' = file /\ rd' = rd /\ known' = known
      /\ w'.pc = "slot" /\ w'.to = w.to /\ w'.arr = w.arr /\ w' \in Growths
  BY DEF DomInv, Shapes, AppendPublishArray, Retired, Growths
<1>3. Shapes'
  BY <1>1, <1>2 DEF DomInv, Shapes
<1>4. Named' /\ Translated' /\ Looked'
  BY <1>2 DEF DomInv, Named, Translated, Looked
<1>5. Published'
  <2>1. \A k \in base + 1 .. count : k \in 1 .. count
    BY <1>1
  <2>2. count <= Len(arrays[w.arr])
    BY <1>1
  <2> QED BY <1>1, <1>2, <2>1, <2>2 DEF Published
<1>6. Prepared'
  BY <1>1, <1>2 DEF Prepared
<1> QED BY <1>3, <1>4, <1>5, <1>6 DEF DomInv

LEMMA AppendSlotStep ==
    ASSUME DomInv, AppendSlot
    PROVE  DomInv'
<1> DEFINE s == [arrays[atoms] EXCEPT ![w.to] = syms[w.to]]
<1>1. /\ w.arr = atoms /\ w.to = count + 1 /\ w.to <= Len(arrays[atoms]) /\ w.to <= Len(syms)
  BY DEF DomInv, Prepared, AppendSlot
<1>2. /\ arrays \in Seq(Seq(Int)) /\ arrays[atoms] \in Seq(Int) /\ Len(arrays[atoms]) \in Nat
      /\ count \in Nat /\ base \in Nat
      /\ Len(syms) \in Nat /\ syms \in Seq(Int) /\ atoms \in 1 .. Len(arrays)
  BY DEF DomInv, Shapes
<1>3. w.to \in 1 .. Len(arrays[atoms]) /\ syms[w.to] = w.to /\ w.to # Nil /\ w.to \in Int
  BY <1>1, <1>2 DEF DomInv, Named, Nil
<1>4. /\ s \in Seq(Int) /\ Len(s) = Len(arrays[atoms])
      /\ \A k \in 1 .. Len(s) : s[k] = IF k = w.to THEN w.to ELSE arrays[atoms][k]
  BY <1>2, <1>3, ExceptSeq
<1>5. arrays' = [arrays EXCEPT ![atoms] = s]
  BY <1>1, <1>2 DEF AppendSlot
<1> HIDE DEF s
<1>6. RightSlots(s) /\ \A k \in 1 .. Len(s) : arrays[atoms][k] # Nil => s[k] # Nil
  BY <1>2, <1>3, <1>4 DEF DomInv, Named, RightSlots
<1>7. Evolves(arrays, arrays')
  BY <1>2, <1>4, <1>5, <1>6, EvolvesRefl, EvolvesUpdate DEF DomInv
<1>8. arrays' \in Seq(Seq(Int)) /\ Len(arrays') = Len(arrays) /\ arrays'[atoms] = s
  BY <1>2, <1>4, <1>5, ExceptSeq
<1>9. /\ freed' = {} /\ atoms' = atoms /\ count' = count /\ lut' = lut
      /\ syms' = syms /\ base' = base /\ file' = file /\ rd' = rd /\ known' = known
      /\ w'.pc = "count" /\ w'.to = w.to /\ w'.arr = w.arr /\ w' \in Growths
  BY DEF DomInv, Shapes, AppendSlot, Growths
<1>10. Shapes'
  BY <1>8, <1>9 DEF DomInv, Shapes
<1>11. Named'
  BY <1>7, <1>9, NamedFrame DEF DomInv, Named
<1>12. Published'
  BY <1>2, <1>7, <1>9, PublishedFrame DEF DomInv, Published, Shapes
<1>13. Translated' /\ Looked'
  BY <1>2, <1>8, <1>9, TranslatedFrame, LookedFrame DEF DomInv
<1>14. Prepared'
  <2>1. \A k \in base + 1 .. count : s[k] # Nil
    BY <1>8, <1>9, <1>12 DEF Published
  <2>2. s[w.to] # Nil
    BY <1>3, <1>4
  <2>3. \A k \in base + 1 .. w.to : k \in base + 1 .. count \/ k = w.to
    BY <1>1, <1>2
  <2>4. \A k \in base + 1 .. w.to : s[k] # Nil
    BY <2>1, <2>2, <2>3
  <2>5. w.to > count
    BY <1>1, <1>2
  <2> QED BY <1>1, <1>4, <1>8, <1>9, <2>4, <2>5 DEF Prepared
<1> QED BY <1>10, <1>11, <1>12, <1>13, <1>14 DEF DomInv

LEMMA AppendPublishCountStep ==
    ASSUME DomInv, AppendPublishCount
    PROVE  DomInv'
<1>1. /\ w.to > count /\ w.to <= Len(arrays[atoms]) /\ w.to <= Len(syms)
      /\ \A k \in base + 1 .. w.to : arrays[atoms][k] # Nil
  BY DEF DomInv, Prepared, AppendPublishCount
<1>2. count \in Nat /\ w.to \in Nat /\ known \in Nat
  BY DEF DomInv, Shapes, Growths
<1>3. /\ freed' = freed /\ atoms' = atoms /\ count' = w.to /\ lut' = lut /\ arrays' = arrays
      /\ syms' = syms /\ base' = base /\ file' = file /\ rd' = rd /\ known' = known
      /\ w'.pc = "lut" /\ w' \in Growths
  BY DEF DomInv, Shapes, AppendPublishCount, Growths
<1>4. Shapes'
  BY <1>2, <1>3 DEF DomInv, Shapes
<1>5. Named' /\ Translated' /\ Prepared'
  BY <1>3 DEF DomInv, Named, Translated, Prepared
<1>6. known' <= count'
  BY <1>1, <1>2, <1>3 DEF DomInv, Published
<1>7. Published'
  BY <1>1, <1>3, <1>6 DEF DomInv, Published
<1>8. Looked'
  BY <1>1, <1>2, <1>3, LookedFrame DEF DomInv, Shapes
<1> QED BY <1>4, <1>5, <1>7, <1>8 DEF DomInv

LEMMA GrowDoneStep ==
    ASSUME DomInv, GrowDone
    PROVE  DomInv'
<1>1. /\ freed' = freed /\ atoms' = atoms /\ count' = count /\ lut' = <<>> /\ arrays' = arrays
      /\ syms' = syms /\ base' = base /\ file' = file /\ rd' = rd /\ known' = count
      /\ w' = Free
  BY DEF GrowDone, DropLut
<1>2. Free \in Growths /\ Free.pc = "free"
  BY DEF Free, Growths
<1>3. Shapes'
  BY <1>1, <1>2 DEF DomInv, Shapes
<1>4. Named' /\ Translated' /\ Prepared' /\ Looked'
  BY <1>1, <1>2 DEF DomInv, Named, Translated, Prepared, Looked
<1>5. Published'
  <2>1. count \in Nat /\ count <= count
    BY DEF DomInv, Shapes
  <2> QED BY <1>1, <2>1 DEF DomInv, Published
<1> QED BY <1>3, <1>4, <1>5 DEF DomInv

LEMMA ExtendBeginStep ==
    ASSUME DomInv, ExtendBegin
    PROVE  DomInv'
<1> DEFINE s == [k \in 1 .. file |-> IF k <= count THEN arrays[atoms][k] ELSE Nil]
<1>1. /\ file > count /\ arrays' = Append(arrays, s)
      /\ w' = [pc |-> "swap", to |-> file, arr |-> Len(arrays) + 1]
      /\ freed' = freed /\ atoms' = atoms /\ count' = count /\ lut' = lut
      /\ syms' = syms /\ base' = base /\ file' = file /\ rd' = rd /\ known' = known
  BY DEF ExtendBegin
<1>2. /\ arrays \in Seq(Seq(Int)) /\ arrays[atoms] \in Seq(Int) /\ Len(arrays[atoms]) \in Nat
      /\ count \in Nat /\ file \in Nat /\ syms \in Seq(Int) /\ atoms \in 1 .. Len(arrays)
      /\ Len(arrays) \in Nat /\ Len(syms) \in Nat
  BY DEF DomInv, Shapes
<1>3. \A k \in 1 .. file : k <= count => k \in 1 .. Len(arrays[atoms])
  BY <1>2 DEF DomInv, Published
<1>4. s \in [1 .. file -> Int]
  <2> SUFFICES ASSUME NEW k \in 1 .. file PROVE (IF k <= count THEN arrays[atoms][k] ELSE Nil) \in Int
    OBVIOUS
  <2>1. CASE k <= count
    BY <2>1, <1>2, <1>3
  <2>2. CASE ~(k <= count)
    BY <2>2 DEF Nil
  <2> QED BY <2>1, <2>2
<1>5. s \in Seq(Int) /\ Len(s) = file
  BY <1>2, <1>4, FunSeq
<1>6. RightSlots(s)
  BY <1>2, <1>3, <1>5 DEF RightSlots, DomInv, Named
<1> HIDE DEF s
<1>7. Evolves(arrays, arrays')
  BY <1>1, <1>2, <1>5, <1>6, EvolvesRefl, EvolvesAppend DEF DomInv
<1>8. /\ arrays' \in Seq(Seq(Int)) /\ Len(arrays') = Len(arrays) + 1
      /\ arrays'[Len(arrays) + 1] = s
  BY <1>1, <1>2, <1>5, AppendFacts
<1>9. w'.pc = "swap" /\ w'.to = file /\ w'.arr = Len(arrays) + 1 /\ w' \in Growths
  BY <1>1, <1>2 DEF Growths
<1>10. Shapes'
  <2>1. atoms' \in 1 .. Len(arrays')
    BY <1>1, <1>2, <1>8
  <2> QED BY <1>1, <1>8, <1>9, <2>1 DEF DomInv, Shapes
<1>11. Named'
  BY <1>1, <1>7, NamedFrame DEF DomInv, Named
<1>12. Published'
  BY <1>1, <1>2, <1>7, PublishedFrame DEF DomInv, Published, Shapes
<1>13. Translated' /\ Looked'
  BY <1>1, <1>2, <1>8, TranslatedFrame, LookedFrame DEF DomInv
<1>14. Prepared'
  <2>1. file <= Len(syms) /\ Len(arrays) + 1 \in 1 .. Len(arrays')
    BY <1>2, <1>8 DEF DomInv, Published
  <2> QED BY <1>1, <1>2, <1>5, <1>8, <1>9, <2>1 DEF Prepared
<1> QED BY <1>10, <1>11, <1>12, <1>13, <1>14 DEF DomInv

\* A domain that took over the file has a mapping of all its entries.
LEMMA ExtendPublishArrayStep ==
    ASSUME DomInv, ExtendPublishArray
    PROVE  DomInv'
<1>1. /\ w.arr \in 1 .. Len(arrays) /\ w.to > count /\ w.to <= Len(arrays[w.arr]) /\ w.to <= Len(syms)
  BY DEF DomInv, Prepared, ExtendPublishArray
<1>2. /\ freed' = {} /\ atoms' = w.arr /\ arrays' = arrays /\ count' = count /\ lut' = lut
      /\ syms' = syms /\ base' = w.to /\ file' = file /\ rd' = rd /\ known' = known
      /\ w'.pc = "count" /\ w'.to = w.to /\ w'.arr = w.arr /\ w' \in Growths
  BY DEF DomInv, Shapes, ExtendPublishArray, Retired, Growths
<1>3. w.to \in Nat /\ count \in Nat /\ Len(arrays[w.arr]) \in Nat
  BY <1>1 DEF DomInv, Shapes, Growths
<1>4. Shapes'
  BY <1>1, <1>2, <1>3 DEF DomInv, Shapes
<1>5. Named' /\ Translated' /\ Looked'
  BY <1>2 DEF DomInv, Named, Translated, Looked
<1>6. Published'
  <2>1. w.to + 1 .. count = {} /\ count <= Len(arrays[w.arr])
    BY <1>1, <1>3
  <2> QED BY <1>2, <2>1 DEF DomInv, Published
<1>7. Prepared'
  <2>1. w.to + 1 .. w.to = {}
    BY <1>3
  <2> QED BY <1>1, <1>2, <2>1 DEF Prepared
<1> QED BY <1>4, <1>5, <1>6, <1>7 DEF DomInv

LEMMA BuildLutStep ==
    ASSUME DomInv, BuildLut
    PROVE  DomInv'
<1>1. /\ arrays' = Filled /\ lut' = [k \in 1 .. count |-> Id(syms[k])]
      /\ freed' = freed /\ atoms' = atoms /\ count' = count /\ w' = w
      /\ syms' = syms /\ base' = base /\ file' = file /\ rd' = rd /\ known' = known
  BY DEF BuildLut
<1>2. /\ Evolves(arrays, arrays') /\ Len(arrays') = Len(arrays) /\ arrays' \in Seq(Seq(Int))
  BY <1>1, FilledFacts DEF DomInv
<1>3. /\ count \in Nat /\ syms \in Seq(Int) /\ Len(syms) \in Nat /\ count <= Len(syms)
      /\ file \in Nat /\ file <= Len(syms) /\ known <= count
  BY DEF DomInv, Shapes, Published
<1>4. \A k \in 1 .. count : syms[k] = k /\ Id(k) \in Int
  BY <1>3 DEF DomInv, Named, Id
<1>5. lut' \in [1 .. count -> Int] /\ \A k \in 1 .. count : lut'[k] = Id(k)
  BY <1>1, <1>4
<1>6. lut' \in Seq(Int) /\ Len(lut') = count
  BY <1>3, <1>5, FunSeq
<1>7. Shapes'
  BY <1>1, <1>2, <1>6 DEF DomInv, Shapes
<1>8. Named'
  BY <1>1, <1>2, NamedFrame DEF DomInv, Named
<1>9. Published' /\ Prepared'
  BY <1>1, <1>2, <1>3, PublishedFrame, PreparedFrame DEF DomInv
<1>10. Translated'
  BY <1>1, <1>3, <1>5, <1>6 DEF Translated
<1>11. Looked'
  BY <1>1, <1>2, <1>3, LookedFrame DEF DomInv, Shapes
<1> QED BY <1>7, <1>8, <1>9, <1>10, <1>11 DEF DomInv

-----------------------------------------------------------------------------
(* The steps of a reader.                                                  *)

\* A reader's step that touches nothing but what it knows.
LEMMA ReaderFrame ==
    ASSUME DomInv, NEW r \in Readers, NEW x \in Lookups, rd' = [rd EXCEPT ![r] = x],
           UNCHANGED <<arrays, freed, atoms, count, lut, syms, base, file, w, known>>,
           x.pc # "idle" => x.pos \in 1 .. count,
           x.pc = "slot" => x.arr \in 1 .. Len(arrays),
           x.pc = "done" => x.got = x.pos,
           x.pc = "lut" => x.got = Id(x.pos)
    PROVE  DomInv'
<1>1. Shapes'
  BY DEF DomInv, Shapes
<1>2. Named' /\ Published' /\ Prepared' /\ Translated'
  BY DEF DomInv, Named, Published, Prepared, Translated
<1>3. rd \in [Readers -> Lookups]
  BY DEF DomInv, Shapes
<1>4. \A q \in Readers : rd'[q] = IF q = r THEN x ELSE rd[q]
  BY <1>3
<1>5. Looked'
  BY <1>4 DEF DomInv, Looked
<1> QED BY <1>1, <1>2, <1>5 DEF DomInv

LEMMA ReadCountStep ==
    ASSUME DomInv, NEW r \in Readers, NEW k \in 1 .. MaxSyms, ReadCount(r, k)
    PROVE  DomInv'
<1> DEFINE x == [Quiet EXCEPT !.pc = "array", !.pos = k]
<1>1. Quiet \in Lookups /\ k \in Nat
  BY DomainAssumption DEF Quiet, Lookups, Nil
<1>2. k \in 1 .. count
  BY DomainAssumption DEF ReadCount, DomInv, Shapes
<1>3. rd' = [rd EXCEPT ![r] = x]
  BY DEF ReadCount
<1>4. x \in Lookups /\ x.pc = "array" /\ x.pos = k
  BY <1>1 DEF Lookups
<1> HIDE DEF x
<1> QED BY <1>2, <1>3, <1>4, ReaderFrame DEF ReadCount

LEMMA ReadArrayStep ==
    ASSUME DomInv, NEW r \in Readers, ReadArray(r)
    PROVE  DomInv'
<1> DEFINE x == [rd[r] EXCEPT !.pc = "slot", !.arr = atoms]
<1>1. rd[r] \in Lookups /\ atoms \in Nat /\ atoms \in 1 .. Len(arrays) /\ rd \in [Readers -> Lookups]
  BY DEF DomInv, Shapes
<1>2. x \in Lookups /\ x.pc = "slot" /\ x.pos = rd[r].pos /\ x.arr = atoms
  BY <1>1 DEF Lookups
<1>3. rd' = [rd EXCEPT ![r] = x]
  BY <1>1 DEF ReadArray, Lookups
<1>4. rd[r].pos \in 1 .. count
  BY DEF ReadArray, DomInv, Looked
<1> HIDE DEF x
<1> QED BY <1>1, <1>2, <1>3, <1>4, ReaderFrame DEF ReadArray

LEMMA ReadSlotStep ==
    ASSUME DomInv, NEW r \in Readers, ReadSlot(r)
    PROVE  DomInv'
<1> DEFINE x == [rd[r] EXCEPT !.pc = IF Slot(r) = Nil THEN "fill" ELSE "done", !.got = Slot(r)]
<1>1. rd[r] \in Lookups /\ rd \in [Readers -> Lookups]
  BY DEF DomInv, Shapes
<1>2. rd[r].pos \in 1 .. count /\ rd[r].arr \in 1 .. Len(arrays)
  BY DEF ReadSlot, DomInv, Looked
<1>3. Slot(r) \in Int /\ (Slot(r) = Nil \/ Slot(r) = rd[r].pos)
  <2>1. arrays[rd[r].arr] \in Seq(Int) /\ DOMAIN arrays[rd[r].arr] = 1 .. Len(arrays[rd[r].arr])
    BY <1>2 DEF DomInv, Shapes
  <2>2. CASE rd[r].pos \in DOMAIN arrays[rd[r].arr]
    BY <1>2, <2>1, <2>2 DEF Slot, DomInv, Named
  <2>3. CASE rd[r].pos \notin DOMAIN arrays[rd[r].arr]
    BY <2>3 DEF Slot, Nil
  <2> QED BY <2>2, <2>3
<1>4. /\ x \in Lookups /\ x.pc \in {"fill", "done"} /\ x.pos = rd[r].pos /\ x.got = Slot(r)
      /\ (x.pc = "done" => Slot(r) # Nil)
  BY <1>1, <1>3 DEF Lookups
<1>5. rd' = [rd EXCEPT ![r] = x]
  BY <1>1 DEF ReadSlot, Lookups
<1> HIDE DEF x
<1> QED BY <1>2, <1>3, <1>4, <1>5, ReaderFrame DEF ReadSlot

\* A slot that is still empty has its symbol in the mapping.
LEMMA ReadFillStep ==
    ASSUME DomInv, NEW r \in Readers, ReadFill(r)
    PROVE  DomInv'
<1> DEFINE pos == rd[r].pos
           old == arrays[atoms][pos]
           new == IF old # Nil THEN old ELSE IF pos <= base THEN syms[pos] ELSE Wild
           s == [arrays[atoms] EXCEPT ![pos] = new]
           x == [rd[r] EXCEPT !.pc = "done", !.got = new]
<1>1. /\ rd[r] \in Lookups /\ rd \in [Readers -> Lookups] /\ arrays \in Seq(Seq(Int))
      /\ arrays[atoms] \in Seq(Int) /\ Len(arrays[atoms]) \in Nat /\ atoms \in 1 .. Len(arrays)
      /\ count \in Nat /\ base \in Nat
      /\ DOMAIN arrays = 1 .. Len(arrays) /\ DOMAIN arrays[atoms] = 1 .. Len(arrays[atoms])
  BY DEF DomInv, Shapes
<1>2. pos \in 1 .. count
  BY DEF ReadFill, DomInv, Looked
<1>3. pos \in 1 .. Len(arrays[atoms]) /\ pos \in 1 .. Len(syms) /\ pos # Nil /\ pos \in Int
  <2>1. count <= Len(arrays[atoms]) /\ count <= Len(syms) /\ Len(syms) \in Nat
    BY DEF DomInv, Published, Shapes
  <2> QED BY <1>1, <1>2, <2>1 DEF Nil
<1>4. new = pos
  <2>1. CASE old # Nil
    BY <1>1, <1>3, <2>1 DEF DomInv, Named
  <2>2. CASE old = Nil
    <3>1. pos <= base
      BY <1>1, <1>2, <2>2 DEF DomInv, Published
    <3> QED BY <1>3, <2>2, <3>1 DEF DomInv, Named
  <2> QED BY <2>1, <2>2
<1>5. arrays' = [arrays EXCEPT ![atoms] = s]
  BY <1>1, <1>3 DEF ReadFill, Fill
<1> HIDE DEF new
<1>6. /\ s \in Seq(Int) /\ Len(s) = Len(arrays[atoms])
      /\ \A k \in 1 .. Len(s) : s[k] = IF k = pos THEN pos ELSE arrays[atoms][k]
  BY <1>1, <1>3, <1>4, ExceptSeq
<1> HIDE DEF s
<1>7. arrays' \in Seq(Seq(Int)) /\ Len(arrays') = Len(arrays) /\ arrays'[atoms] = s
  BY <1>1, <1>5, <1>6, ExceptSeq
<1>8. RightSlots(s) /\ \A k \in 1 .. Len(s) : arrays[atoms][k] # Nil => s[k] # Nil
  BY <1>1, <1>3, <1>6 DEF DomInv, Named, RightSlots
<1>9. Evolves(arrays, arrays')
  BY <1>1, <1>5, <1>6, <1>8, EvolvesRefl, EvolvesUpdate DEF DomInv
<1>10. arrays'[atoms][pos] = pos
  BY <1>3, <1>6, <1>7
<1>11. /\ freed' = freed /\ atoms' = atoms /\ count' = count /\ lut' = lut /\ w' = w
       /\ syms' = syms /\ base' = base /\ file' = file /\ known' = known
  BY DEF ReadFill
<1>12. rd' = [rd EXCEPT ![r] = x]
  BY <1>1, <1>4, <1>10 DEF ReadFill, Lookups
<1>13. x \in Lookups /\ x.pc = "done" /\ x.pos = pos /\ x.got = pos
  BY <1>1, <1>3, <1>4 DEF Lookups
<1> HIDE DEF x
<1>14. Shapes'
  BY <1>7, <1>11, <1>12, <1>13 DEF DomInv, Shapes
<1>15. Named'
  BY <1>9, <1>11, NamedFrame DEF DomInv, Named
<1>16. Published' /\ Prepared'
  <2>1. syms' \in Seq(Int) /\ Len(syms) <= Len(syms') /\ file' \in Nat /\ file' <= Len(syms')
    BY <1>11 DEF DomInv, Shapes, Published
  <2> QED BY <1>9, <1>11, <2>1, PublishedFrame, PreparedFrame DEF DomInv
<1>17. Translated'
  BY <1>11 DEF DomInv, Translated
<1>18. Looked'
  <2>1. \A q \in Readers : rd'[q] = IF q = r THEN x ELSE rd[q]
    BY <1>1, <1>12
  <2> QED BY <1>2, <1>7, <1>11, <1>13, <2>1 DEF DomInv, Looked
<1> QED BY <1>14, <1>15, <1>16, <1>17, <1>18 DEF DomInv

LEMMA ReadLutStep ==
    ASSUME DomInv, NEW r \in Readers, NEW pos \in 1 .. MaxSyms, ReadLut(r, pos)
    PROVE  DomInv'
<1> DEFINE v == IF pos \in DOMAIN lut THEN lut[pos] ELSE Nil
           x == [Quiet EXCEPT !.pc = "lut", !.pos = pos, !.got = v]
<1>1. /\ pos \in Nat /\ pos >= 1 /\ pos <= known /\ lut # <<>> /\ known \in Nat /\ count \in Nat
      /\ lut \in Seq(Int) /\ Len(lut) \in Nat /\ DOMAIN lut = 1 .. Len(lut)
  BY DomainAssumption DEF ReadLut, DomInv, Shapes
<1>2. known <= Len(lut) /\ known <= count
  BY <1>1 DEF DomInv, Translated, Published
<1>3. pos \in 1 .. Len(lut) /\ pos \in 1 .. count
  BY <1>1, <1>2
<1>4. v = Id(pos) /\ v \in Int
  BY <1>1, <1>3 DEF DomInv, Translated, Id
<1>5. rd' = [rd EXCEPT ![r] = x]
  BY DEF ReadLut
<1> HIDE DEF v
<1>6. x \in Lookups /\ x.pc = "lut" /\ x.pos = pos /\ x.got = v
  BY <1>1, <1>4 DEF Quiet, Lookups
<1> HIDE DEF x
<1> QED BY <1>3, <1>4, <1>5, <1>6, ReaderFrame DEF ReadLut

LEMMA ReadEndStep ==
    ASSUME DomInv, NEW r \in Readers, ReadEnd(r)
    PROVE  DomInv'
<1>1. Quiet \in Lookups /\ Quiet.pc = "idle"
  BY DEF Quiet, Lookups, Nil
<1> QED BY <1>1, ReaderFrame DEF ReadEnd

-----------------------------------------------------------------------------
LEMMA DomInit == Init => DomInv
<1> SUFFICES ASSUME Init PROVE DomInv
  OBVIOUS
<1> DEFINE s == [k \in 1 .. Start |-> Nil]
<1>1. s \in [1 .. Start -> Int] /\ Start \in Nat
  BY DomainAssumption DEF Nil
<1>2. s \in Seq(Int) /\ Len(s) = Start
  BY <1>1, FunSeq
<1>3. arrays = <<s>> /\ atoms = 1 /\ count = Start /\ known = Start /\ base = Start /\ file = Start
      /\ freed = {} /\ lut = <<>> /\ w = Free
  BY DEF Init
<1>4. \A k \in 1 .. Len(s) : s[k] = Nil
  BY <1>2
<1> HIDE DEF s
<1>5. arrays \in Seq(Seq(Int)) /\ Len(arrays) = 1 /\ arrays[1] = s
  BY <1>2, <1>3
<1>6. syms \in [1 .. Start -> Int] /\ \A k \in 1 .. Start : syms[k] = k
  BY DEF Init
<1>7. syms \in Seq(Int) /\ Len(syms) = Start
  BY <1>1, <1>6, FunSeq
<1>8. rd \in [Readers -> Lookups] /\ \A r \in Readers : rd[r].pc = "idle"
  BY DEF Init, Quiet, Lookups, Nil
<1>9. w \in Growths /\ w.pc = "free"
  BY <1>3 DEF Free, Growths
<1>10. Shapes
  BY <1>1, <1>3, <1>5, <1>7, <1>8, <1>9 DEF Shapes
<1>11. Named
  BY <1>4, <1>5, <1>6, <1>7 DEF Named
<1>12. Published
  BY <1>1, <1>2, <1>3, <1>5, <1>7 DEF Published
<1>13. Prepared /\ Translated /\ Looked
  BY <1>3, <1>8, <1>9 DEF Prepared, Translated, Looked
<1> QED BY <1>10, <1>11, <1>12, <1>13 DEF DomInv

LEMMA DomNext == DomInv /\ [Next]_vars => DomInv'
<1> SUFFICES ASSUME DomInv, [Next]_vars PROVE DomInv'
  OBVIOUS
<1>1. CASE Write
  BY <1>1, AppendBeginStep, AppendPublishArrayStep, AppendSlotStep, AppendPublishCountStep,
     GrowDoneStep, ExtendBeginStep, ExtendPublishArrayStep DEF Write
<1>2. CASE FileGrows \/ Flush \/ BuildLut
  BY <1>2, FileGrowsStep, FlushStep, BuildLutStep
<1>3. ASSUME NEW r \in Readers, Read(r) PROVE DomInv'
  BY <1>3, ReadArrayStep, ReadSlotStep, ReadFillStep, ReadEndStep DEF Read
<1>4. ASSUME NEW r \in Readers, NEW pos \in 1 .. MaxSyms, ReadCount(r, pos) \/ ReadLut(r, pos)
      PROVE  DomInv'
  BY <1>4, ReadCountStep, ReadLutStep
<1>5. CASE UNCHANGED vars
  BY <1>5 DEF vars, DomInv, Shapes, Named, Published, Prepared, Translated, Looked
<1> QED BY <1>1, <1>2, <1>3, <1>4, <1>5 DEF Next

\* The inductive invariant holds in every state of a domain.
THEOREM DomainInvariant == Spec => []DomInv
BY DomInit, DomNext, PTL DEF Spec

\* ray_sym_domain_str and ray_sym_domain_runtime_lut answer right at every
\* moment of an append or of a take-over of the file, and through no array that
\* was given back: for any number of readers, symbols and growths.
THEOREM DomainReads == Spec => []DomainRight
<1>1. ASSUME DomInv PROVE DomainRight
  <2>1. TypeOK
    BY <1>1 DEF DomInv, Shapes, Published, TypeOK
  <2>2. ASSUME NEW r \in Readers, rd[r].pc # "idle" PROVE syms[rd[r].pos] = rd[r].pos
    <3>1. rd[r].pos \in 1 .. Len(syms)
      BY <1>1, <2>2 DEF DomInv, Looked, Published, Shapes
    <3> QED BY <1>1, <3>1 DEF DomInv, Named
  <2>3. ReadRight /\ LutRight
    BY <1>1, <2>2 DEF DomInv, Looked, ReadRight, LutRight
  <2>4. NoStaleArray
    BY <1>1 DEF DomInv, Shapes, NoStaleArray
  <2> QED BY <2>1, <2>3, <2>4 DEF DomainRight
<1>2. DomInv => DomainRight
  BY <1>1
<1> QED BY <1>2, DomainInvariant, PTL
=============================================================================
