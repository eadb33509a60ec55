----------------------------- MODULE FileProofs -----------------------------
(***************************************************************************)
(* Proofs about the file table, for any files and values that are written  *)
(* and any number of boots.                                                *)
(*                                                                         *)
(* The files' names and their order are data that no prover here reads     *)
(* through (they are made with ToString).  What the proof needs to know of *)
(* them is stated as TableInOrder, a fact of the table alone: the run      *)
(* file_table reads every entry of the table and so checks it.             *)
(***************************************************************************)
EXTENDS FileTable, TLAPS, WellFoundedInduction

\* An entry that another one hides is in flash when that one is, and otherwise
\* has its function or array; two answers are no identifiers.
TableInOrder ==
  /\ \A i \in Found, e \in Range(file_entries) :
       e.fid = Fid(i) =>
         /\ e.kind = "flash" <=> file_entries[i].kind = "flash"
         /\ e.kind # "flash" => e.data = file_entries[i].data
  /\ \A e \in Range(file_entries) : e.fid \notin {"none", "openpgp"}

\* The records that are attached to entries are the ones in flash.
Attached ==
  /\ DOMAIN data = { i \in Found : Fid(i) \in DOMAIN flash }
  /\ \A i \in DOMAIN data : data[i] = flash[Fid(i)]

FileInv == Attached /\ FoundIsMeant

-----------------------------------------------------------------------------
\* The first of the entries that pass a test exists.
LEMMA LeastOne ==
  ASSUME NEW S, S \subseteq Nat, S # {}
  PROVE  Min(S) \in S
<1>1. PICK x \in S : \A y \in S : <<y, x>> \notin OpToRel(<, Nat)
  BY WFMin, NatLessThanWellFounded, Zenon
<1>2. ASSUME NEW y \in S PROVE x <= y
  <2>1. ~(y < x)
    BY <1>1, Zenon DEF OpToRel
  <2> QED  BY <2>1
<1> QED  BY <1>2 DEF Min

\* A search ends at an entry with the identifier it is for.
LEMMA SearchEnds ==
  ASSUME NEW k \in Searched
  PROVE  Fid(Search(Fid(k))) = Fid(k)
<1> DEFINE I == { j \in Searched : Fid(j) = Fid(k) }
<1>1. Search(Fid(k)) = IF I # {} THEN Min(I) ELSE 0
  BY DEF Search, SelectInSubSeq, Searched, Fid
<1>2. I # {} /\ I \subseteq Nat
  BY DEF Searched, MF
<1>3. Min(I) \in I
  <2> HIDE DEF I
  <2> QED  BY <1>2, LeastOne
<1> QED  BY <1>1, <1>2, <1>3

\* So there is one entry for each identifier.
LEMMA OneFound ==
  ASSUME NEW i \in Found, NEW j \in Found, Fid(i) = Fid(j)
  PROVE  i = j
<1>1. PICK k \in Searched : i = Search(Fid(k))
  BY DEF Found
<1>2. PICK l \in Searched : j = Search(Fid(l))
  BY DEF Found
<1>3. Fid(k) = Fid(l)
  BY <1>1, <1>2, SearchEnds
<1> QED  BY <1>1, <1>2, <1>3

\* With the records attached, a read of an entry gives what it stands for.
LEMMA ReadIsMeant ==
  ASSUME TableInOrder, Attached, NEW i \in Found,
         NEW e \in Range(file_entries), e.fid = Fid(i)
  PROVE  Contents(i) = Meant(e)
<1>1. /\ e.kind = "flash" <=> file_entries[i].kind = "flash"
      /\ e.kind # "flash" => e.data = file_entries[i].data
  BY DEF TableInOrder
<1>2. i \in DOMAIN data <=> e.fid \in DOMAIN flash
  BY DEF Attached
<1>3. i \in DOMAIN data => data[i] = flash[e.fid]
  BY DEF Attached
<1>4. CASE e.kind = "flash" /\ i \in DOMAIN data
  <2>1. Contents(i) = data[i]
    BY <1>1, <1>4 DEF Contents
  <2>2. Meant(e) = flash[e.fid]
    BY <1>2, <1>4 DEF Meant
  <2> QED  BY <1>3, <1>4, <2>1, <2>2
<1>5. CASE e.kind = "flash" /\ i \notin DOMAIN data
  <2>1. Contents(i) = "empty"
    BY <1>1, <1>5 DEF Contents
  <2>2. Meant(e) = "empty"
    BY <1>2, <1>5 DEF Meant
  <2> QED  BY <2>1, <2>2
<1>6. CASE e.kind # "flash"
  <2>1. Contents(i) = file_entries[i].data
    BY <1>1, <1>6 DEF Contents
  <2>2. Meant(e) = e.data
    BY <1>6 DEF Meant
  <2> QED  BY <1>1, <1>6, <2>1, <2>2
<1> QED  BY <1>4, <1>5, <1>6

LEMMA FileInvInit ==
  ASSUME TableInOrder, Init
  PROVE  FileInv
BY DEF TableInOrder, Init, FileInv, Attached, FoundIsMeant

LEMMA WriteKeeps ==
  ASSUME TableInOrder, FileInv, NEW i \in Found, NEW v \in Values, Write(i, v)
  PROVE  FileInv'
<1>1. /\ DOMAIN flash' = {Fid(i)} \cup DOMAIN flash
      /\ DOMAIN data' = {i} \cup DOMAIN data
      /\ flash'[Fid(i)] = v /\ data'[i] = v
      /\ \A f \in DOMAIN flash : f # Fid(i) => flash'[f] = flash[f]
      /\ \A j \in DOMAIN data : j # i => data'[j] = data[j]
  BY DEF Write, Put
<1>2. Attached
  BY DEF FileInv
<1>3. DOMAIN data' = { j \in Found : Fid(j) \in DOMAIN flash' }
  BY <1>1, <1>2, OneFound DEF Attached
<1>4. ASSUME NEW j \in DOMAIN data' PROVE data'[j] = flash'[Fid(j)]
  BY <1>1, <1>2, <1>3, OneFound DEF Attached
<1>5. Attached'
  BY <1>3, <1>4 DEF Attached
<1>6. FoundIsMeant'
  BY DEF Write, TableInOrder, FoundIsMeant
<1> QED  BY <1>5, <1>6 DEF FileInv

LEMMA ReadKeeps ==
  ASSUME TableInOrder, FileInv, NEW i \in Found, Read(i)
  PROVE  FileInv'
<1>1. Attached'
  BY DEF Read, FileInv, Attached
<1>2. \A e : Meant(e)' = Meant(e)
  BY DEF Read, Meant
<1>3. FoundIsMeant'
  BY <1>2, ReadIsMeant DEF Read, FileInv, FoundIsMeant
<1> QED  BY <1>1, <1>3 DEF FileInv

LEMMA ScanKeeps ==
  ASSUME FileInv, Scan
  PROVE  FileInv'
<1>1. Attached'
  BY DEF Scan, Attached
<1>2. \A e : Meant(e)' = Meant(e)
  BY DEF Scan, Meant
<1> QED  BY <1>1, <1>2 DEF Scan, FileInv, FoundIsMeant

LEMMA FileInvNext ==
  ASSUME TableInOrder, FileInv, [Next]_vars
  PROVE  FileInv'
<1>1. CASE \E i \in Found : Read(i) \/ \E v \in Values : Write(i, v)
  BY <1>1, ReadKeeps, WriteKeeps
<1>2. CASE Scan
  BY <1>2, ScanKeeps
<1>3. CASE SelectOpenPgp
  BY <1>3 DEF SelectOpenPgp, TableInOrder, FileInv, Attached, FoundIsMeant
<1>4. CASE UNCHANGED vars
  BY <1>4 DEF vars, FileInv, Attached, FoundIsMeant, Meant
<1> QED  BY <1>1, <1>2, <1>3, <1>4 DEF Next

\* If the table is in order, a search finds what any of the entries with its
\* identifier stands for, whatever is written and however often the device is
\* booted (FoundIsMeant).
THEOREM FileFoundIsMeant == TableInOrder => (Spec => []FoundIsMeant)
<1>1. TableInOrder /\ Init => FileInv
  BY FileInvInit
<1>2. TableInOrder /\ FileInv /\ [Next]_vars => FileInv'
  BY FileInvNext
<1>3. FileInv => FoundIsMeant
  BY DEF FileInv
<1>4. SUFFICES ASSUME TableInOrder PROVE Spec => []FoundIsMeant
  OBVIOUS
<1> QED  BY <1>1, <1>2, <1>3, <1>4, PTL DEF Spec

\* A constant file's length, which its first two bytes give.
InBounds(a) == a[1] + 256 * a[2] + 2 = Len(a)

\* The length of each constant file counts its bytes, so a read stays in it
\* (ReadInBounds).
THEOREM FileReadInBounds == Spec => []ReadInBounds
<1>1. /\ InBounds(historical_bytes) /\ InBounds(extended_capabilities)
      /\ InBounds(feature_mngmnt) /\ InBounds(exlen_info)
  BY DEF InBounds, historical_bytes, extended_capabilities, feature_mngmnt,
         exlen_info
<1>2. ReadInBounds
  BY <1>1 DEF ReadInBounds, arrays, InBounds
<1> QED  BY <1>2, PTL
=============================================================================
