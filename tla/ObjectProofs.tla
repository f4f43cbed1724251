---------------------------- MODULE ObjectProofs ----------------------------
(***************************************************************************)
(* Theorems about opening and loading an object file: for any file, and    *)
(* for those of MCHelpers.                                                 *)
(***************************************************************************)
EXTENDS MCHelpers, BasicTheorems

\* The prover of every leaf that does not name another one.
USE Zenon

----------------------------------------------------------------------------
(***************************************************************************)
(* Sorting maps.                                                           *)
(***************************************************************************)

\* Maps by number, with the section and the offset that they are sorted by.
Keyed(maps) ==
  /\ IsFiniteSet(DOMAIN maps) /\ DOMAIN maps \subseteq Int
  /\ \A i \in DOMAIN maps : maps[i].sec_idx \in Int /\ maps[i].sec_offset \in Int

\* A total order of the maps that agrees with compare_bpf_map.
Precedes(maps, i, j) ==
  compare_bpf_map(maps[i], maps[j]) \/ (~ compare_bpf_map(maps[j], maps[i]) /\ i < j)

\* It is one.
LEMMA PrecedesOrder ==
  ASSUME NEW maps, Keyed(maps), NEW i \in DOMAIN maps, NEW j \in DOMAIN maps, NEW k \in DOMAIN maps
  PROVE  /\ ~ Precedes(maps, i, i)
         /\ i # j => Precedes(maps, i, j) \/ Precedes(maps, j, i)
         /\ Precedes(maps, i, j) /\ Precedes(maps, j, k) => Precedes(maps, i, k)
<1> DEFINE a == maps[i].sec_idx
           b == maps[j].sec_idx
           c == maps[k].sec_idx
           d == maps[i].sec_offset
           e == maps[j].sec_offset
           f == maps[k].sec_offset
           Less(p, q, r, s) == IF p # r THEN p < r ELSE q < s
           Prec(p, q, l, r, s, m) == Less(p, q, r, s) \/ (~ Less(r, s, p, q) /\ l < m)
<1>1. a \in Int /\ b \in Int /\ c \in Int /\ d \in Int /\ e \in Int /\ f \in Int /\ i \in Int /\ j \in Int /\ k \in Int
  BY DEF Keyed
<1>2. \A p, q, l \in Int : ~ Prec(p, q, l, p, q, l)
  BY SMT
<1>3. \A p, q, l, r, s, m \in Int : l # m => Prec(p, q, l, r, s, m) \/ Prec(r, s, m, p, q, l)
  BY SMT
<1>4. \A p, q, l, r, s, m, t, u, n \in Int :
        Prec(p, q, l, r, s, m) /\ Prec(r, s, m, t, u, n) => Prec(p, q, l, t, u, n)
  BY SMT
<1>5. /\ Precedes(maps, i, i) <=> Prec(a, d, i, a, d, i)
      /\ Precedes(maps, i, j) <=> Prec(a, d, i, b, e, j)
      /\ Precedes(maps, j, i) <=> Prec(b, e, j, a, d, i)
      /\ Precedes(maps, j, k) <=> Prec(b, e, j, c, f, k)
      /\ Precedes(maps, i, k) <=> Prec(a, d, i, c, f, k)
  BY DEF Precedes, compare_bpf_map
<1> HIDE DEF Prec, a, b, c, d, e, f
<1>6. ~ Prec(a, d, i, a, d, i)
  BY <1>1, <1>2
<1>7. i # j => Prec(a, d, i, b, e, j) \/ Prec(b, e, j, a, d, i)
  BY <1>1, <1>3
<1>8. Prec(a, d, i, b, e, j) /\ Prec(b, e, j, c, f, k) => Prec(a, d, i, c, f, k)
  BY <1>1, <1>4
<1> QED BY <1>5, <1>6, <1>7, <1>8

\* The maps can be put in order.
LEMMA OrderExists ==
  ASSUME NEW maps, Keyed(maps)
  PROVE  \E order \in Bijection(1 .. Cardinality(DOMAIN maps), DOMAIN maps) : Ordered(maps, order)
<1> DEFINE D == DOMAIN maps
           n == Cardinality(D)
           Before(i) == {j \in D : Precedes(maps, j, i)}
           rank == [i \in D |-> Cardinality(Before(i)) + 1]
           order == [k \in 1 .. n |-> CHOOSE i \in D : rank[i] = k]
<1>1. IsFiniteSet(D) /\ n \in Nat
  BY FS_CardinalityType DEF Keyed
<1>2. ASSUME NEW i \in D, NEW j \in D, Precedes(maps, i, j) PROVE rank[i] < rank[j] /\ rank[i] \in Int /\ rank[j] \in Int
  <2>1. Before(i) \in SUBSET Before(j)
    BY <1>2, PrecedesOrder
  <2>2. i \in Before(j) /\ i \notin Before(i)
    BY <1>2, PrecedesOrder
  <2>3. Before(j) \in SUBSET D
    OBVIOUS
  <2>4. IsFiniteSet(Before(j))
    BY <1>1, <2>3, FS_Subset
  <2> DEFINE S == Before(i)
             T == Before(j)
  <2>5. rank[i] = Cardinality(S) + 1 /\ rank[j] = Cardinality(T) + 1
    OBVIOUS
  <2> HIDE DEF Before, S, T, rank
  <2>6. Cardinality(S) <= Cardinality(T) /\ (Cardinality(T) = Cardinality(S) => T = S) /\ IsFiniteSet(S)
    BY <2>1, <2>4, FS_Subset DEF S, T
  <2>7. Cardinality(S) \in Nat /\ Cardinality(T) \in Nat /\ Cardinality(T) # Cardinality(S)
    BY <2>2, <2>4, <2>6, FS_CardinalityType DEF S, T
  <2> QED BY <2>5, <2>6, <2>7, SMT
<1>3. rank \in [D -> 1 .. n]
  <2>1. ASSUME NEW i \in D PROVE Cardinality(Before(i)) + 1 \in 1 .. n
    <3> DEFINE S == Before(i)
    <3>1. S \in SUBSET (D \ {i})
      BY PrecedesOrder
    <3> HIDE DEF S
    <3>2. IsFiniteSet(D \ {i}) /\ Cardinality(D \ {i}) = n - 1
      BY <1>1, FS_RemoveElement
    <3>3. IsFiniteSet(S) /\ Cardinality(S) <= Cardinality(D \ {i})
      BY <3>1, <3>2, FS_Subset
    <3>4. Cardinality(S) \in Nat
      BY <3>3, FS_CardinalityType
    <3> HIDE DEF n
    <3>5. Cardinality(S) + 1 \in 1 .. n
      BY <1>1, <3>2, <3>3, <3>4, SMT
    <3> QED BY <3>5 DEF S
  <2> QED BY <2>1
<1>4. rank \in Injection(D, 1 .. n)
  <2>1. ASSUME NEW i \in D, NEW j \in D, rank[i] = rank[j] PROVE i = j
    <3>1. \A x1 \in Int : ~ (x1 < x1)
      BY SMT
    <3> HIDE DEF rank
    <3> QED BY <1>2, <2>1, <3>1, PrecedesOrder
  <2>2. DOMAIN rank = D
    OBVIOUS
  <2> HIDE DEF rank
  <2> QED BY <1>3, <2>1, <2>2 DEF Injection, IsInjective
<1>5. rank \in Surjection(D, 1 .. n)
  <2>1. 1 \in Int /\ n \in Int
    BY <1>1, SMT
  <2>2. IsFiniteSet(1 .. n) /\ Cardinality(1 .. n) = IF 1 > n THEN 0 ELSE n - 1 + 1
    <3> HIDE DEF n
    <3> QED BY <2>1, FS_Interval
  <2>3. Cardinality(1 .. n) = n
    <3> HIDE DEF n
    <3> QED BY <1>1, <2>2, SMT
  <2> HIDE DEF rank
  <2> QED BY <1>4, <2>2, <2>3, FS_Injection
<1> HIDE DEF rank
<1>6. ASSUME NEW k \in 1 .. n PROVE order[k] \in D /\ rank[order[k]] = k
  <2>1. \E i \in D : rank[i] = k
    BY <1>5 DEF Surjection
  <2> QED BY <2>1
<1>7. \A i \in D : rank[i] \in 1 .. n
  BY <1>3
<1>8. \A i, j \in D : rank[i] = rank[j] => i = j
  BY <1>3, <1>4 DEF Injection, IsInjective
<1>9. order \in [1 .. n -> D] /\ DOMAIN order = 1 .. n
  BY <1>6
<1> HIDE DEF order
<1>10. order \in Injection(1 .. n, D)
  <2>1. ASSUME NEW j \in 1 .. n, NEW k \in 1 .. n, order[j] = order[k] PROVE j = k
    <3>1. rank[order[j]] = j /\ rank[order[k]] = k
      BY <1>6
    <3> QED BY <2>1, <3>1
  <2> QED BY <1>9, <2>1 DEF Injection, IsInjective
<1>11. order \in Surjection(1 .. n, D)
  <2>1. ASSUME NEW i \in D PROVE \E k \in 1 .. n : order[k] = i
    <3>1. rank[i] \in 1 .. n
      BY <1>7
    <3>2. order[rank[i]] \in D /\ rank[order[rank[i]]] = rank[i]
      BY <1>6, <3>1
    <3>3. order[rank[i]] = i
      BY <1>8, <3>2
    <3> QED BY <3>1, <3>3
  <2> QED BY <1>9, <2>1 DEF Surjection
<1>12. Ordered(maps, order)
  <2> SUFFICES ASSUME NEW j \in 1 .. n, NEW k \in 1 .. n, j < k, compare_bpf_map(maps[order[k]], maps[order[j]])
               PROVE  FALSE
    BY <1>9 DEF Ordered
  <2>1. Precedes(maps, order[k], order[j])
    BY DEF Precedes
  <2>2. k < j
    BY <1>2, <1>6, <2>1
  <2>3. j \in Int /\ k \in Int
    BY SMT
  <2> QED BY <2>2, <2>3, SMT
<1> QED BY <1>10, <1>11, <1>12 DEF Bijection

\* Whatever order maps are added in, if no two of them compare equal, qsort
\* gives the one sequence in which each is less than those behind it.
THEOREM AnyOrder ==
  ASSUME NEW maps, Keyed(maps),
         NEW r \in Bijection(1 .. Cardinality(DOMAIN maps), DOMAIN maps),
         \A j, k \in DOMAIN r : j < k => compare_bpf_map(maps[r[j]], maps[r[k]])
  PROVE  qsort(maps) = [k \in DOMAIN r |-> maps[r[k]]]
<1> DEFINE D == DOMAIN maps
           n == Cardinality(D)
           q == CHOOSE order \in Bijection(1 .. n, D) : Ordered(maps, order)
<1>1. q \in Bijection(1 .. n, D) /\ Ordered(maps, q)
  BY OrderExists
<1>2. qsort(maps) = [k \in DOMAIN q |-> maps[q[k]]]
  BY DEF qsort
<1> HIDE DEF q
<1>3. q \in [1 .. n -> D] /\ DOMAIN q = 1 .. n /\ r \in [1 .. n -> D] /\ DOMAIN r = 1 .. n
  BY <1>1 DEF Bijection, Injection
<1>4. /\ \A i \in D : \E k \in 1 .. n : q[k] = i
      /\ \A i \in D : \E k \in 1 .. n : r[k] = i
      /\ \A j, k \in 1 .. n : q[j] = q[k] => j = k
      /\ \A j, k \in 1 .. n : r[j] = r[k] => j = k
  BY <1>1, <1>3 DEF Bijection, Injection, Surjection, IsInjective
<1> DEFINE B == {k \in 1 .. n : q[k] # r[k]}
<1>5. B = {}
  <2> SUFFICES ASSUME B # {} PROVE FALSE
    OBVIOUS
  <2>1. B \subseteq Nat
    BY SMT
  <2>2. PICK k \in B : \A l \in B : k <= l
    <3> HIDE DEF B
    <3> QED BY <2>1, LeastNatural
  <2>3. k \in 1 .. n /\ q[k] # r[k] /\ q[k] \in D /\ r[k] \in D
    BY <1>3
  <2>4. PICK a \in 1 .. n : r[a] = q[k]
    BY <1>4, <2>3
  <2>5. PICK b \in 1 .. n : q[b] = r[k]
    BY <1>4, <2>3
  <2>6. a # k /\ b # k
    BY <2>3, <2>4, <2>5
  <2>7. a \in B
    <3> SUFFICES ASSUME q[a] = r[a] PROVE FALSE
      OBVIOUS
    <3> QED BY <1>4, <2>3, <2>4, <2>6
  <2>8. b \in B
    <3> SUFFICES ASSUME q[b] = r[b] PROVE FALSE
      OBVIOUS
    <3> QED BY <1>4, <2>3, <2>5, <2>6
  <2>9. k <= a /\ k <= b
    <3> HIDE DEF B
    <3> QED BY <2>2, <2>7, <2>8
  <2>10. a \in Int /\ b \in Int /\ k \in Int
    BY <2>3, SMT
  <2>11. k < a /\ k < b
    BY <2>6, <2>9, <2>10, SMT
  <2>12. ~ compare_bpf_map(maps[q[b]], maps[q[k]])
    BY <1>1, <1>3, <2>3, <2>11 DEF Ordered
  <2>13. compare_bpf_map(maps[r[k]], maps[r[a]])
    BY <1>3, <2>3, <2>11
  <2> QED BY <2>4, <2>5, <2>12, <2>13
<1>6. \A k \in 1 .. n : q[k] = r[k]
  BY <1>5
<1> QED BY <1>2, <1>3, <1>6

----------------------------------------------------------------------------
(***************************************************************************)
(* Object files.  A theorem about a file asks that its maps have symbols   *)
(* whose offsets differ, in any order, and that its relocations refer to   *)
(* maps.                                                                   *)
(***************************************************************************)

\* What obj->maps is to hold: n maps of the program in the order of at, and
\* the one of .bss (0) where its section is.
FileOrder(file, global_data, at, n) ==
  IF ~ (global_data /\ file.bss_shndx >= 0) THEN at
  ELSE IF file.bss_shndx < file.maps_shndx
       THEN [k \in 1 .. n + 1 |-> IF k = 1 THEN 0 ELSE at[k - 1]]
       ELSE [k \in 1 .. n + 1 |-> IF k = n + 1 THEN 0 ELSE at[k]]

\* Maps in the order of their numbers, and the places of number i.
Numbered(maps, order) == [k \in DOMAIN order |-> maps[order[k]]]
Places(order, i) == {k \in DOMAIN order : order[k] = i}

\* A file with n maps of which the k-th by its offset has the symbol at at[k].
FileWith(file, at, n) ==
  /\ n \in Nat /\ at \in Bijection(1 .. n, MapSyms(file))
  /\ MapSyms(file) \subseteq Int \ {0}
  /\ file.maps_shndx \in Int /\ file.bss_shndx \in Int /\ file.maps_shndx # file.bss_shndx
  /\ \A i \in MapSyms(file) : file.symtab[i].value \in Int
  /\ \A j, k \in 1 .. n : j < k => file.symtab[at[j]].value < file.symtab[at[k]].value

\* A map, given its fields.
MapOf(name, type, sec_idx, sec_offset, fd) ==
  [name |-> name, type |-> type, sec_idx |-> sec_idx, sec_offset |-> sec_offset, fd |-> fd]

\* The fields are as given.
LEMMA MapFields ==
  ASSUME NEW name, NEW type, NEW sec_idx, NEW sec_offset, NEW fd
  PROVE  /\ MapOf(name, type, sec_idx, sec_offset, fd).name = name
         /\ MapOf(name, type, sec_idx, sec_offset, fd).type = type
         /\ MapOf(name, type, sec_idx, sec_offset, fd).sec_idx = sec_idx
         /\ MapOf(name, type, sec_idx, sec_offset, fd).sec_offset = sec_offset
         /\ MapOf(name, type, sec_idx, sec_offset, fd).fd = fd
BY DEF MapOf

\* The maps that are added.
LEMMA AddedIs ==
  ASSUME NEW file, NEW global_data \in BOOLEAN
  PROVE  /\ DOMAIN Added(file, global_data) = MapSyms(file) \cup (IF global_data /\ file.bss_shndx >= 0 THEN {0} ELSE {})
         /\ \A i \in MapSyms(file) :
              Added(file, global_data)[i] = MapOf(file.symtab[i].name, "unspec", file.maps_shndx, file.symtab[i].value, Closed)
         /\ 0 \notin MapSyms(file) /\ global_data /\ file.bss_shndx >= 0 =>
              Added(file, global_data)[0] = MapOf(".bss", "bss", file.bss_shndx, 0, Closed)
<1> DEFINE user == init_user_maps(file)
           internal == init_global_data_maps(file, global_data)
           I == IF global_data /\ file.bss_shndx >= 0 THEN {0} ELSE {}
           A == Added(file, global_data)
<1>1. DOMAIN user = MapSyms(file) /\ DOMAIN internal = I
  BY DEF init_user_maps, init_global_data_maps
<1>2. A = [i \in MapSyms(file) \cup I |-> IF i \in MapSyms(file) THEN user[i] ELSE internal[i]]
  <2> HIDE DEF user, internal, I
  <2> QED BY <1>1 DEF Added, user, internal
<1>3. ASSUME NEW i \in MapSyms(file)
      PROVE  A[i] = MapOf(file.symtab[i].name, "unspec", file.symtab[i].shndx, file.symtab[i].value, Closed)
  <2>1. A[i] = user[i]
    <3> HIDE DEF user, internal, I, A
    <3> QED BY <1>2
  <2> QED BY <2>1 DEF init_user_maps, MapOf
<1>4. \A i \in MapSyms(file) : file.symtab[i].shndx = file.maps_shndx
  BY DEF MapSyms
<1>5. ASSUME 0 \notin MapSyms(file), global_data /\ file.bss_shndx >= 0
      PROVE  A[0] = MapOf(".bss", "bss", file.bss_shndx, 0, Closed)
  <2>1. A[0] = internal[0] /\ 0 \in I
    <3>1. 0 \in I
      BY <1>5
    <3> HIDE DEF user, internal, I, A
    <3> QED BY <1>2, <1>5, <3>1
  <2> QED BY <1>5, <2>1 DEF init_global_data_maps, MapOf
<1>6. DOMAIN A = MapSyms(file) \cup I
  <2> HIDE DEF user, internal, I, A
  <2> QED BY <1>2
<1> HIDE DEF A, I, user, internal
<1>7. \A i \in MapSyms(file) : A[i] = MapOf(file.symtab[i].name, "unspec", file.maps_shndx, file.symtab[i].value, Closed)
  BY <1>3, <1>4
<1> QED BY <1>5, <1>6, <1>7 DEF A, I

\* The keys of the maps that are added.
LEMMA AddedKeys ==
  ASSUME NEW file, NEW global_data \in BOOLEAN
  PROVE  /\ DOMAIN Added(file, global_data) = MapSyms(file) \cup (IF global_data /\ file.bss_shndx >= 0 THEN {0} ELSE {})
         /\ \A i \in MapSyms(file) :
              /\ Added(file, global_data)[i].name = file.symtab[i].name
              /\ Added(file, global_data)[i].type = "unspec"
              /\ Added(file, global_data)[i].sec_idx = file.maps_shndx
              /\ Added(file, global_data)[i].sec_offset = file.symtab[i].value
              /\ Added(file, global_data)[i].fd = Closed
         /\ 0 \notin MapSyms(file) /\ global_data /\ file.bss_shndx >= 0 =>
              /\ Added(file, global_data)[0].name = ".bss"
              /\ Added(file, global_data)[0].type = "bss"
              /\ Added(file, global_data)[0].sec_idx = file.bss_shndx
              /\ Added(file, global_data)[0].sec_offset = 0
              /\ Added(file, global_data)[0].fd = Closed
<1> DEFINE A == Added(file, global_data)
           I == IF global_data /\ file.bss_shndx >= 0 THEN {0} ELSE {}
<1>1. DOMAIN A = MapSyms(file) \cup I
  BY AddedIs
<1>2. \A i \in MapSyms(file) : A[i] = MapOf(file.symtab[i].name, "unspec", file.maps_shndx, file.symtab[i].value, Closed)
  BY AddedIs
<1>3. 0 \notin MapSyms(file) /\ global_data /\ file.bss_shndx >= 0 => A[0] = MapOf(".bss", "bss", file.bss_shndx, 0, Closed)
  BY AddedIs
<1> HIDE DEF A
<1>4. \A i \in MapSyms(file) :
        /\ A[i].name = file.symtab[i].name /\ A[i].type = "unspec" /\ A[i].sec_idx = file.maps_shndx
        /\ A[i].sec_offset = file.symtab[i].value /\ A[i].fd = Closed
  <2> SUFFICES ASSUME NEW i \in MapSyms(file)
               PROVE  /\ A[i].name = file.symtab[i].name /\ A[i].type = "unspec" /\ A[i].sec_idx = file.maps_shndx
                      /\ A[i].sec_offset = file.symtab[i].value /\ A[i].fd = Closed
    OBVIOUS
  <2> DEFINE m == MapOf(file.symtab[i].name, "unspec", file.maps_shndx, file.symtab[i].value, Closed)
  <2>1. A[i] = m
    BY <1>2
  <2>2. /\ m.name = file.symtab[i].name /\ m.type = "unspec" /\ m.sec_idx = file.maps_shndx
        /\ m.sec_offset = file.symtab[i].value /\ m.fd = Closed
    BY MapFields, SMT
  <2> HIDE DEF m
  <2> QED BY <2>1, <2>2
<1>5. 0 \notin MapSyms(file) /\ global_data /\ file.bss_shndx >= 0 =>
        /\ A[0].name = ".bss" /\ A[0].type = "bss" /\ A[0].sec_idx = file.bss_shndx
        /\ A[0].sec_offset = 0 /\ A[0].fd = Closed
  <2> DEFINE m == MapOf(".bss", "bss", file.bss_shndx, 0, Closed)
  <2>1. m.name = ".bss" /\ m.type = "bss" /\ m.sec_idx = file.bss_shndx /\ m.sec_offset = 0 /\ m.fd = Closed
    BY MapFields, SMT
  <2> HIDE DEF m
  <2> QED BY <1>3, <2>1 DEF m
<1> HIDE DEF I
<1> QED BY <1>1, <1>4, <1>5 DEF A, I

\* Maps have the names of their symbols,
LEMMA AddedNames ==
  ASSUME NEW file, NEW global_data \in BOOLEAN
  PROVE  \A i \in MapSyms(file) : Added(file, global_data)[i].name = file.symtab[i].name
BY AddedKeys, ZenonT(60)

\* and what identifies them is what the symbols say.
LEMMA AddedPlaces ==
  ASSUME NEW file, NEW global_data \in BOOLEAN, NEW i \in MapSyms(file)
  PROVE  /\ Added(file, global_data)[i].type = "unspec" /\ Added(file, global_data)[i].sec_idx = file.maps_shndx
         /\ Added(file, global_data)[i].sec_offset = file.symtab[i].value
BY AddedKeys, ZenonT(60)

\* What a bijection is.
LEMMA BijectionIs ==
  ASSUME NEW S, NEW T, NEW f \in [S -> T], \A i \in T : \E k \in S : f[k] = i,
         \A j \in S : \A k \in S : f[j] = f[k] => j = k
  PROVE  f \in Bijection(S, T)
BY DEF Bijection, Injection, Surjection, IsInjective

\* The maps of a file can be sorted.
LEMMA AddedKeyed ==
  ASSUME NEW file, NEW at, NEW n, FileWith(file, at, n), NEW global_data \in BOOLEAN
  PROVE  /\ Keyed(Added(file, global_data))
         /\ Cardinality(DOMAIN Added(file, global_data)) = IF global_data /\ file.bss_shndx >= 0 THEN n + 1 ELSE n
<1> DEFINE M == MapSyms(file)
           A == Added(file, global_data)
           With == global_data /\ file.bss_shndx >= 0
<1>1. n \in Nat /\ at \in Bijection(1 .. n, M) /\ M \subseteq Int \ {0}
  BY DEF FileWith
<1>2. 1 \in Int /\ n \in Int
  BY <1>1, SMT
<1>3. IsFiniteSet(1 .. n) /\ Cardinality(1 .. n) = IF 1 > n THEN 0 ELSE n - 1 + 1
  BY <1>2, FS_Interval
<1>4. Cardinality(1 .. n) = n
  BY <1>1, <1>3, SMT
<1>5. IsFiniteSet(M) /\ Cardinality(M) = n
  <2> HIDE DEF M
  <2>1. ExistsBijection(1 .. n, M)
    BY <1>1 DEF ExistsBijection
  <2>2. IsFiniteSet(M) /\ Cardinality(M) = Cardinality(1 .. n)
    BY <1>3, <2>1, FS_Bijection
  <2> QED BY <1>4, <2>2
<1>6. DOMAIN A = M \cup (IF With THEN {0} ELSE {})
  BY AddedKeys
<1>7. 0 \notin M /\ 0 \in Int
  BY <1>1, SMT
<1> HIDE DEF A, M, With
<1>8. IsFiniteSet(DOMAIN A) /\ Cardinality(DOMAIN A) = IF With THEN n + 1 ELSE n
  <2>1. CASE With
    <3>1. DOMAIN A = M \cup {0}
      BY <1>6, <2>1
    <3>2. IsFiniteSet(M \cup {0}) /\ Cardinality(M \cup {0}) = n + 1
      BY <1>5, <1>7, FS_AddElement
    <3> QED BY <2>1, <3>1, <3>2
  <2>2. CASE ~ With
    <3>1. DOMAIN A = M
      BY <1>6, <2>2
    <3> QED BY <1>5, <2>2, <3>1
  <2> QED BY <2>1, <2>2
<1>9. DOMAIN A \subseteq Int
  BY <1>1, <1>6, <1>7
<1>10. ASSUME NEW i \in DOMAIN A PROVE A[i].sec_idx \in Int /\ A[i].sec_offset \in Int
  <2>1. CASE i \in M
    <3>1. A[i].sec_idx = file.maps_shndx /\ A[i].sec_offset = file.symtab[i].value
      BY <2>1, AddedPlaces DEF A, M
    <3>2. file.maps_shndx \in Int /\ file.symtab[i].value \in Int
      BY <2>1 DEF M, FileWith
    <3> QED BY <3>1, <3>2
  <2>2. CASE i \notin M
    <3>1. i = 0 /\ With
      BY <1>6, <2>2
    <3> QED BY <1>7, <3>1, AddedKeys DEF A, M, With, FileWith
  <2> QED BY <2>1, <2>2
<1> QED BY <1>8, <1>9, <1>10 DEF Keyed, A, With

\* The expected order is a numbering of these maps, and the one that
\* compare_bpf_map asks for.
LEMMA FileOrdered ==
  ASSUME NEW file, NEW at, NEW n, FileWith(file, at, n), NEW global_data \in BOOLEAN
  PROVE  LET order == FileOrder(file, global_data, at, n)
             maps == Added(file, global_data)
         IN  /\ order \in Bijection(1 .. Cardinality(DOMAIN maps), DOMAIN maps)
             /\ \A j, k \in DOMAIN order : j < k => compare_bpf_map(maps[order[j]], maps[order[k]])
<1> DEFINE M == MapSyms(file)
           A == Added(file, global_data)
           With == global_data /\ file.bss_shndx >= 0
           r == FileOrder(file, global_data, at, n)
<1>1. n \in Nat /\ at \in [1 .. n -> M] /\ DOMAIN at = 1 .. n
  BY DEF FileWith, Bijection, Injection
<1>2. /\ \A i \in M : \E k \in 1 .. n : at[k] = i
      /\ \A j \in 1 .. n : \A k \in 1 .. n : at[j] = at[k] => j = k
  BY <1>1 DEF FileWith, Bijection, Injection, Surjection, IsInjective
<1>3. Keyed(A) /\ Cardinality(DOMAIN A) = IF With THEN n + 1 ELSE n
  BY AddedKeyed
<1>4. DOMAIN A = M \cup (IF With THEN {0} ELSE {})
  BY AddedKeys
<1>5. 0 \notin M /\ file.maps_shndx \in Int /\ file.bss_shndx \in Int /\ file.maps_shndx # file.bss_shndx
  BY DEF FileWith
<1>6. \A i \in M : A[i].sec_idx = file.maps_shndx /\ A[i].sec_offset = file.symtab[i].value
  BY AddedPlaces
<1>7. With => A[0].sec_idx = file.bss_shndx
  BY <1>5, AddedKeys
<1> HIDE DEF M, A
<1>8. ASSUME NEW j \in 1 .. n, NEW k \in 1 .. n, j < k PROVE compare_bpf_map(A[at[j]], A[at[k]])
  <2>1. at[j] \in M /\ at[k] \in M
    BY <1>1
  <2>2. file.symtab[at[j]].value < file.symtab[at[k]].value
    BY <1>8 DEF FileWith
  <2> QED BY <1>6, <2>1, <2>2 DEF compare_bpf_map
<1>9. /\ r \in Bijection(1 .. Cardinality(DOMAIN A), DOMAIN A)
      /\ \A j, k \in DOMAIN r : j < k => compare_bpf_map(A[r[j]], A[r[k]])
  <2>1. CASE ~ With
    <3>1. r = at /\ DOMAIN A = M /\ Cardinality(DOMAIN A) = n
      BY <1>3, <1>4, <2>1 DEF FileOrder
    <3> HIDE DEF r
    <3>2. at \in Bijection(1 .. n, M)
      BY DEF FileWith, M
    <3> QED BY <1>1, <1>8, <3>1, <3>2
  <2>2. CASE With /\ file.bss_shndx < file.maps_shndx
    <3>1. r = [k \in 1 .. n + 1 |-> IF k = 1 THEN 0 ELSE at[k - 1]]
      BY <2>2 DEF FileOrder
    <3>2. DOMAIN A = M \cup {0} /\ Cardinality(DOMAIN A) = n + 1
      BY <1>3, <1>4, <2>2
    <3> HIDE DEF r, With
    <3>3. \A k \in 1 .. n + 1 : k # 1 => k - 1 \in 1 .. n
      BY <1>1, SMT
    <3>4. \A k \in 1 .. n : k + 1 \in 1 .. n + 1 /\ k + 1 # 1 /\ (k + 1) - 1 = k
      BY <1>1, SMT
    <3>5. 1 \in 1 .. n + 1 /\ \A j, k \in 1 .. n + 1 : j - 1 = k - 1 => j = k
      BY <1>1, SMT
    <3>6. DOMAIN r = 1 .. n + 1 /\ r[1] = 0 /\ \A k \in 1 .. n + 1 : k # 1 => r[k] = at[k - 1] /\ at[k - 1] \in M
      BY <1>1, <3>1, <3>3, <3>5
    <3>7. r \in [1 .. n + 1 -> M \cup {0}]
      BY <1>1, <3>1, <3>3
    <3>8. ASSUME NEW i \in M \cup {0} PROVE \E k \in 1 .. n + 1 : r[k] = i
      <4>1. CASE i = 0
        BY <3>5, <3>6, <4>1
      <4>2. CASE i # 0
        <5>1. PICK k \in 1 .. n : at[k] = i
          BY <1>2, <4>2
        <5>2. k + 1 \in 1 .. n + 1 /\ r[k + 1] = i
          BY <3>4, <3>6, <5>1
        <5> QED BY <5>2
      <4> QED BY <4>1, <4>2
    <3>9. ASSUME NEW j \in 1 .. n + 1, NEW k \in 1 .. n + 1, r[j] = r[k] PROVE j = k
      <4>1. CASE j = 1 \/ k = 1
        BY <1>5, <3>6, <3>9, <4>1
      <4>2. CASE j # 1 /\ k # 1
        <5>1. at[j - 1] = at[k - 1] /\ j - 1 \in 1 .. n /\ k - 1 \in 1 .. n
          BY <3>3, <3>6, <3>9, <4>2
        <5>2. j - 1 = k - 1
          BY <1>2, <5>1
        <5> QED BY <3>5, <5>2
      <4> QED BY <4>1, <4>2
    <3>10. r \in Bijection(1 .. n + 1, M \cup {0})
      BY <3>7, <3>8, <3>9, BijectionIs
    <3>11. ASSUME NEW j \in 1 .. n + 1, NEW k \in 1 .. n + 1, j < k PROVE compare_bpf_map(A[r[j]], A[r[k]])
      <4>1. k # 1
        BY <3>11, SMT
      <4>2. r[k] \in M
        BY <3>6, <4>1
      <4>3. CASE j = 1
        <5>1. A[r[j]].sec_idx = file.bss_shndx /\ A[r[k]].sec_idx = file.maps_shndx
          BY <1>6, <1>7, <2>2, <3>6, <4>2, <4>3
        <5> QED BY <1>5, <2>2, <5>1 DEF compare_bpf_map
      <4>4. CASE j # 1
        <5>1. j - 1 \in 1 .. n /\ k - 1 \in 1 .. n /\ r[j] = at[j - 1] /\ r[k] = at[k - 1]
          BY <3>3, <3>6, <4>1, <4>4
        <5>2. j - 1 < k - 1
          BY <3>11, SMT
        <5> QED BY <1>8, <5>1, <5>2
      <4> QED BY <4>3, <4>4
    <3> QED BY <3>2, <3>6, <3>10, <3>11
  <2>3. CASE With /\ ~ (file.bss_shndx < file.maps_shndx)
    <3>1. r = [k \in 1 .. n + 1 |-> IF k = n + 1 THEN 0 ELSE at[k]]
      BY <2>3 DEF FileOrder
    <3>2. DOMAIN A = M \cup {0} /\ Cardinality(DOMAIN A) = n + 1
      BY <1>3, <1>4, <2>3
    <3>0. file.maps_shndx < file.bss_shndx
      BY <1>5, <2>3, SMT
    <3> HIDE DEF r, With
    <3>3. \A k \in 1 .. n + 1 : k # n + 1 => k \in 1 .. n
      BY <1>1, SMT
    <3>4. \A k \in 1 .. n : k \in 1 .. n + 1 /\ k # n + 1
      BY <1>1, SMT
    <3>5. n + 1 \in 1 .. n + 1
      BY <1>1, SMT
    <3>6. DOMAIN r = 1 .. n + 1 /\ r[n + 1] = 0 /\ \A k \in 1 .. n + 1 : k # n + 1 => r[k] = at[k] /\ at[k] \in M
      BY <1>1, <3>1, <3>3, <3>5
    <3>7. r \in [1 .. n + 1 -> M \cup {0}]
      BY <1>1, <3>1, <3>3
    <3>8. ASSUME NEW i \in M \cup {0} PROVE \E k \in 1 .. n + 1 : r[k] = i
      <4>1. CASE i = 0
        BY <3>5, <3>6, <4>1
      <4>2. CASE i # 0
        <5>1. PICK k \in 1 .. n : at[k] = i
          BY <1>2, <4>2
        <5>2. k \in 1 .. n + 1 /\ r[k] = i
          BY <3>4, <3>6, <5>1
        <5> QED BY <5>2
      <4> QED BY <4>1, <4>2
    <3>9. ASSUME NEW j \in 1 .. n + 1, NEW k \in 1 .. n + 1, r[j] = r[k] PROVE j = k
      <4>1. CASE j = n + 1 \/ k = n + 1
        BY <1>5, <3>6, <3>9, <4>1
      <4>2. CASE j # n + 1 /\ k # n + 1
        BY <1>2, <3>3, <3>6, <3>9, <4>2
      <4> QED BY <4>1, <4>2
    <3>10. r \in Bijection(1 .. n + 1, M \cup {0})
      BY <3>7, <3>8, <3>9, BijectionIs
    <3>11. ASSUME NEW j \in 1 .. n + 1, NEW k \in 1 .. n + 1, j < k PROVE compare_bpf_map(A[r[j]], A[r[k]])
      <4>1. j # n + 1
        BY <1>1, <3>11, SMT
      <4>2. r[j] \in M
        BY <3>6, <4>1
      <4>3. CASE k = n + 1
        <5>1. A[r[k]].sec_idx = file.bss_shndx /\ A[r[j]].sec_idx = file.maps_shndx
          BY <1>6, <1>7, <2>3, <3>6, <4>2, <4>3
        <5> QED BY <1>5, <3>0, <5>1 DEF compare_bpf_map
      <4>4. CASE k # n + 1
        BY <1>8, <3>3, <3>6, <3>11, <4>1, <4>4
      <4> QED BY <4>3, <4>4
    <3> QED BY <3>2, <3>6, <3>10, <3>11
  <2> QED BY <2>1, <2>2, <2>3
<1> HIDE DEF r
<1> QED BY <1>9 DEF A, r

\* Whatever the order of the symbols in the object file, bpf_object__init_maps
\* leaves the maps in the order of their definitions in the section "maps",
\* and the map of .bss in front of them or behind, as its section is.
THEOREM AnyFile ==
  ASSUME NEW file, NEW at, NEW n, FileWith(file, at, n), NEW global_data \in BOOLEAN
  PROVE  init_maps(file, global_data) = Numbered(Added(file, global_data), FileOrder(file, global_data, at, n))
<1> DEFINE A == Added(file, global_data)
           r == FileOrder(file, global_data, at, n)
<1>1. r \in Bijection(1 .. Cardinality(DOMAIN A), DOMAIN A) /\ \A j, k \in DOMAIN r : j < k => compare_bpf_map(A[r[j]], A[r[k]])
  BY FileOrdered
<1>2. Keyed(A)
  BY AddedKeyed
<1> HIDE DEF A, r
<1>3. qsort(A) = [k \in DOMAIN r |-> A[r[k]]]
  BY <1>1, <1>2, AnyOrder
<1> QED BY <1>3 DEF init_maps, Numbered, A, r

----------------------------------------------------------------------------
(***************************************************************************)
(* Loading.  An object is described by its maps, with their descriptors set*)
(* apart, and its other parts.                                             *)
(***************************************************************************)

\* A map with another descriptor, and maps with other descriptors.
WithFd(m, fd) == MapOf(m.name, m.type, m.sec_idx, m.sec_offset, fd)
WithFds(maps, fds) == [k \in DOMAIN maps |-> WithFd(maps[k], fds[k])]
ClosedFds(maps) == [k \in DOMAIN maps |-> Closed]

\* An object.
ObjectOf(maps, reloc, insns, titles, progs) ==
  [maps |-> maps, reloc |-> reloc, insns |-> insns, titles |-> titles, progs |-> progs]

\* Setting a descriptor sets nothing else.
SetTo(m, fd) == [m EXCEPT !.fd = fd]
LEMMA SetFd ==
  ASSUME NEW m, NEW fd, NEW new
  PROVE  WithFd(m, fd).fd = fd /\ WithFd(m, fd).name = m.name /\ SetTo(WithFd(m, fd), new) = WithFd(m, new)
BY SMT DEF WithFd, MapOf, SetTo

\* The maps of WithFds, and what setting their descriptors makes of them.
FdsAre(m, maps, fds) ==
  /\ DOMAIN m = DOMAIN maps
  /\ \A k \in DOMAIN maps :
       /\ m[k] = WithFd(maps[k], fds[k]) /\ m[k].fd = fds[k] /\ m[k].name = maps[k].name
       /\ \A new : [m[k] EXCEPT !.fd = new] = WithFd(maps[k], new)
LEMMA WithFdsIs == ASSUME NEW maps, NEW fds PROVE FdsAre(WithFds(maps, fds), maps, fds)
<1> DEFINE m == WithFds(maps, fds)
<1>1. DOMAIN m = DOMAIN maps /\ \A k \in DOMAIN maps : m[k] = WithFd(maps[k], fds[k])
  BY DEF WithFds
<1> HIDE DEF m
<1>2. ASSUME NEW k \in DOMAIN maps, NEW new
      PROVE  m[k].fd = fds[k] /\ m[k].name = maps[k].name /\ [m[k] EXCEPT !.fd = new] = WithFd(maps[k], new)
  <2>1. m[k] = WithFd(maps[k], fds[k])
    BY <1>1
  <2>2. /\ WithFd(maps[k], fds[k]).fd = fds[k] /\ WithFd(maps[k], fds[k]).name = maps[k].name
        /\ SetTo(WithFd(maps[k], fds[k]), new) = WithFd(maps[k], new)
    BY SetFd
  <2>3. [m[k] EXCEPT !.fd = new] = SetTo(m[k], new)
    BY SMT DEF SetTo
  <2> QED BY <2>1, <2>2, <2>3
<1>3. FdsAre(m, maps, fds)
  BY <1>1, <1>2 DEF FdsAre
<1> QED BY <1>3 DEF m

\* bpf_object__unload closes every descriptor and forgets the programs.
LEMMA UnloadIs ==
  ASSUME NEW maps, NEW fds, NEW reloc, NEW insns, NEW titles, NEW progs
  PROVE  bpf_object__unload(ObjectOf(WithFds(maps, fds), reloc, insns, titles, progs))
           = ObjectOf(WithFds(maps, ClosedFds(maps)), reloc, insns, titles, <<>>)
<1> DEFINE m == WithFds(maps, fds)
           obj == ObjectOf(m, reloc, insns, titles, progs)
           new == [k \in DOMAIN m |-> [m[k] EXCEPT !.fd = Closed]]
           closed == ClosedFds(maps)
<1>1. obj.maps = m
  <2> HIDE DEF m
  <2> QED BY SMT DEF ObjectOf
<1>2. bpf_object__unload(obj) = [obj EXCEPT !.maps = new, !.progs = <<>>]
  <2> HIDE DEF obj, m
  <2> QED BY <1>1 DEF bpf_object__unload
<1>3. [obj EXCEPT !.maps = new, !.progs = <<>>] = ObjectOf(new, reloc, insns, titles, <<>>)
  <2> HIDE DEF m, new
  <2>1. [obj EXCEPT !.maps = new] = ObjectOf(new, reloc, insns, titles, progs)
    BY SMT DEF ObjectOf
  <2>2. [ObjectOf(new, reloc, insns, titles, progs) EXCEPT !.progs = <<>>] = ObjectOf(new, reloc, insns, titles, <<>>)
    BY SMT DEF ObjectOf
  <2> HIDE DEF obj
  <2> QED BY <2>1, <2>2
<1>4. WithFds(maps, closed) = [k \in DOMAIN maps |-> WithFd(maps[k], Closed)]
  BY DEF WithFds, ClosedFds
<1>5. new = [k \in DOMAIN maps |-> WithFd(maps[k], Closed)]
  <2>1. FdsAre(m, maps, fds)
    BY WithFdsIs
  <2> HIDE DEF m
  <2> QED BY <2>1 DEF FdsAre
<1>6. bpf_object__unload(obj) = ObjectOf(WithFds(maps, closed), reloc, insns, titles, <<>>)
  <2> HIDE DEF m, obj, new, closed
  <2> QED BY <1>2, <1>3, <1>4, <1>5
<1> QED BY <1>6

\* What create_maps makes of descriptors.
CreatedFds(maps, fds, run) ==
  [k \in DOMAIN maps |-> IF fds[k] = Closed THEN [run |-> run, name |-> maps[k].name] ELSE fds[k]]
ClosedBefore(maps, fds, bad) == [k \in DOMAIN maps |-> IF k < bad THEN Closed ELSE fds[k]]

\* It changes descriptors only.
LEMMA CreateIs ==
  ASSUME NEW maps, NEW fds, NEW run, NEW bad
  PROVE  create_maps(WithFds(maps, fds), run, bad)
           = WithFds(maps, IF Creates(WithFds(maps, fds), bad) THEN ClosedBefore(maps, fds, bad)
                           ELSE CreatedFds(maps, fds, run))
<1> DEFINE m == WithFds(maps, fds)
<1>0. FdsAre(m, maps, fds)
  BY WithFdsIs
<1> HIDE DEF m
<1>1. DOMAIN m = DOMAIN maps /\ \A k \in DOMAIN maps : m[k] = WithFd(maps[k], fds[k])
  BY <1>0 DEF FdsAre
<1>2. \A k \in DOMAIN maps :
        /\ m[k].fd = fds[k] /\ m[k].name = maps[k].name
        /\ \A new : [m[k] EXCEPT !.fd = new] = WithFd(maps[k], new)
  BY <1>0 DEF FdsAre
<1>3. CASE Creates(m, bad)
  <2>1. create_maps(m, run, bad) = [k \in DOMAIN m |-> IF k < bad THEN [m[k] EXCEPT !.fd = Closed] ELSE m[k]]
    BY <1>3 DEF create_maps
  <2>2. \A k \in DOMAIN maps :
          (IF k < bad THEN [m[k] EXCEPT !.fd = Closed] ELSE m[k]) = WithFd(maps[k], ClosedBefore(maps, fds, bad)[k])
    BY <1>1, <1>2 DEF ClosedBefore
  <2>3. create_maps(m, run, bad) = WithFds(maps, ClosedBefore(maps, fds, bad))
    BY <1>1, <2>1, <2>2 DEF WithFds
  <2> QED BY <1>3, <2>3 DEF m
<1>4. CASE ~Creates(m, bad)
  <2>1. create_maps(m, run, bad)
          = [k \in DOMAIN m |->
               IF m[k].fd = Closed THEN [m[k] EXCEPT !.fd = [run |-> run, name |-> m[k].name]] ELSE m[k]]
    BY <1>4 DEF create_maps
  <2>2. ASSUME NEW k \in DOMAIN maps
        PROVE  (IF m[k].fd = Closed THEN [m[k] EXCEPT !.fd = [run |-> run, name |-> m[k].name]] ELSE m[k])
                 = WithFd(maps[k], CreatedFds(maps, fds, run)[k])
    <3>1. CreatedFds(maps, fds, run)[k] = IF fds[k] = Closed THEN [run |-> run, name |-> maps[k].name] ELSE fds[k]
      BY DEF CreatedFds
    <3>2. m[k].fd = fds[k] /\ m[k].name = maps[k].name
      BY <1>2
    <3>3. [m[k] EXCEPT !.fd = [run |-> run, name |-> maps[k].name]] = WithFd(maps[k], [run |-> run, name |-> maps[k].name])
      BY <1>2
    <3> QED BY <1>1, <3>1, <3>2, <3>3
  <2>3. create_maps(m, run, bad) = WithFds(maps, CreatedFds(maps, fds, run))
    BY <1>1, <2>1, <2>2 DEF WithFds
  <2> QED BY <1>4, <2>3 DEF m
<1> QED BY <1>3, <1>4

\* Maps as bpf_object__open leaves them.
OpenMaps(maps) == maps = WithFds(maps, ClosedFds(maps))

\* The descriptors that the first loop of bpf_prog_load_xattr_maps gives.
PresetFds(maps, map_fd, faults) ==
  [k \in DOMAIN maps |-> IF maps[k].name \in DOMAIN map_fd /\ <<"bpf_map__reuse_fd", maps[k].name>> \notin faults
                         THEN map_fd[maps[k].name] ELSE Closed]

\* It changes nothing else.
LEMMA PresetIs ==
  ASSUME NEW maps, OpenMaps(maps), NEW reloc, NEW titles, NEW map_fd, NEW faults
  PROVE  preset(ObjectOf(maps, reloc, <<>>, titles, <<>>), map_fd, faults)
           = ObjectOf(WithFds(maps, PresetFds(maps, map_fd, faults)), reloc, <<>>, titles, <<>>)
<1> DEFINE obj == ObjectOf(maps, reloc, <<>>, titles, <<>>)
           fds == PresetFds(maps, map_fd, faults)
           new == [k \in DOMAIN maps |->
                     IF maps[k].name \in DOMAIN map_fd /\ <<"bpf_map__reuse_fd", maps[k].name>> \notin faults
                     THEN [maps[k] EXCEPT !.fd = map_fd[maps[k].name]] ELSE maps[k]]
<1>1. obj.maps = maps
  BY SMT DEF ObjectOf
<1>2. preset(obj, map_fd, faults) = [obj EXCEPT !.maps = new]
  <2> HIDE DEF obj
  <2> QED BY <1>1 DEF preset
<1>3. [obj EXCEPT !.maps = new] = ObjectOf(new, reloc, <<>>, titles, <<>>)
  <2> HIDE DEF new
  <2> QED BY SMT DEF ObjectOf
<1>4. FdsAre(WithFds(maps, ClosedFds(maps)), maps, ClosedFds(maps))
  BY WithFdsIs
<1>5. FdsAre(maps, maps, ClosedFds(maps))
  BY <1>4 DEF OpenMaps
<1>6. \A k \in DOMAIN maps :
        /\ maps[k] = WithFd(maps[k], Closed)
        /\ \A fd : [maps[k] EXCEPT !.fd = fd] = WithFd(maps[k], fd)
  BY <1>5 DEF FdsAre, ClosedFds
<1>7. \A k \in DOMAIN maps : new[k] = WithFd(maps[k], fds[k])
  BY <1>6 DEF PresetFds
<1>8. new = WithFds(maps, fds)
  <2> HIDE DEF fds
  <2> QED BY <1>7 DEF WithFds
<1> HIDE DEF obj, new, fds
<1>9. preset(obj, map_fd, faults) = ObjectOf(WithFds(maps, fds), reloc, <<>>, titles, <<>>)
  BY <1>2, <1>3, <1>8
<1> QED BY <1>9 DEF obj, fds

\* The second phase of bpf_object__load patches each instruction with the
\* descriptor of the map it refers to.
LEMMA RelocatedIs ==
  ASSUME NEW maps, NEW reloc, NEW titles, NEW run, NEW bad
  PROVE  LET obj == ObjectOf(maps, reloc, <<>>, titles, <<>>)
         IN  Relocated(obj, run, bad)
               = ObjectOf(maps, reloc, [j \in DOMAIN reloc |-> maps[reloc[j]].fd], titles, load_progs(obj, run, bad))
<1> DEFINE obj == ObjectOf(maps, reloc, <<>>, titles, <<>>)
           insns == [j \in DOMAIN reloc |-> maps[reloc[j]].fd]
           progs == load_progs(obj, run, bad)
<1>1. obj.maps = maps /\ obj.reloc = reloc
  BY SMT DEF ObjectOf
<1>2. Relocated(obj, run, bad) = [obj EXCEPT !.insns = insns, !.progs = progs]
  <2> HIDE DEF obj, progs
  <2>1. bpf_object__relocate(obj) = insns
    BY <1>1 DEF bpf_object__relocate
  <2> HIDE DEF insns
  <2> QED BY <2>1 DEF Relocated, progs
<1>3. [obj EXCEPT !.insns = insns] = ObjectOf(maps, reloc, insns, titles, <<>>)
  <2> HIDE DEF insns
  <2> QED BY SMT DEF ObjectOf
<1>4. [ObjectOf(maps, reloc, insns, titles, <<>>) EXCEPT !.progs = progs] = ObjectOf(maps, reloc, insns, titles, progs)
  <2> HIDE DEF insns, progs
  <2> QED BY SMT DEF ObjectOf
<1>5. Relocated(obj, run, bad) = ObjectOf(maps, reloc, insns, titles, progs)
  <2> HIDE DEF obj, insns, progs
  <2> QED BY <1>2, <1>3, <1>4
<1> QED BY <1>5

\* A failed load gives an unloaded object.
LEMMA FailedLoadIs ==
  ASSUME NEW maps, NEW fds, NEW reloc, NEW titles, NEW run, NEW bad,
         LoadFails(ObjectOf(WithFds(maps, fds), reloc, <<>>, titles, <<>>), bad)
  PROVE  \E insns : bpf_object__load(ObjectOf(WithFds(maps, fds), reloc, <<>>, titles, <<>>), run, bad)
                      = ObjectOf(WithFds(maps, ClosedFds(maps)), reloc, insns, titles, <<>>)
<1> DEFINE m == WithFds(maps, fds)
           obj == ObjectOf(m, reloc, <<>>, titles, <<>>)
           new == IF Creates(m, bad) THEN ClosedBefore(maps, fds, bad) ELSE CreatedFds(maps, fds, run)
           c == ObjectOf(WithFds(maps, new), reloc, <<>>, titles, <<>>)
           closed == WithFds(maps, ClosedFds(maps))
           created == [obj EXCEPT !.maps = create_maps(@, run, bad)]
<1>1. obj.maps = m
  <2> HIDE DEF m
  <2> QED BY SMT DEF ObjectOf
<1>2. create_maps(m, run, bad) = WithFds(maps, new)
  BY CreateIs
<1>3. created = c
  <2> HIDE DEF m, new
  <2>1. [obj EXCEPT !.maps = create_maps(m, run, bad)] = ObjectOf(create_maps(m, run, bad), reloc, <<>>, titles, <<>>)
    BY SMT DEF ObjectOf
  <2> HIDE DEF obj
  <2> QED BY <1>1, <1>2, <2>1
<1>4. bpf_object__load(obj, run, bad)
        = IF Creates(m, bad) THEN bpf_object__unload(c) ELSE bpf_object__unload(Relocated(c, run, bad))
  <2> HIDE DEF obj, m, c
  <2> QED BY <1>1, <1>3 DEF bpf_object__load, obj, m
<1>5. bpf_object__unload(c) = ObjectOf(closed, reloc, <<>>, titles, <<>>)
  <2> HIDE DEF new
  <2> QED BY UnloadIs
<1>6. \E insns : bpf_object__unload(Relocated(c, run, bad)) = ObjectOf(closed, reloc, insns, titles, <<>>)
  <2> HIDE DEF new
  <2> DEFINE insns == [j \in DOMAIN reloc |-> WithFds(maps, new)[reloc[j]].fd]
             progs == load_progs(c, run, bad)
  <2>1. Relocated(c, run, bad) = ObjectOf(WithFds(maps, new), reloc, insns, titles, progs)
    BY RelocatedIs
  <2> HIDE DEF insns, progs, c
  <2>2. bpf_object__unload(ObjectOf(WithFds(maps, new), reloc, insns, titles, progs)) = ObjectOf(closed, reloc, insns, titles, <<>>)
    BY UnloadIs
  <2> HIDE DEF closed
  <2> QED BY <2>1, <2>2
<1> HIDE DEF c, closed, new
<1>7. \E insns : bpf_object__load(obj, run, bad) = ObjectOf(closed, reloc, insns, titles, <<>>)
  <2> HIDE DEF m, obj
  <2> QED BY <1>4, <1>5, <1>6
<1> QED BY <1>7 DEF closed

\* A load that does not fail creates the maps without a descriptor.
LEMMA LoadIs ==
  ASSUME NEW maps, NEW fds, NEW reloc, NEW titles, NEW run, NEW bad,
         ~LoadFails(ObjectOf(WithFds(maps, fds), reloc, <<>>, titles, <<>>), bad)
  PROVE  LET new == WithFds(maps, CreatedFds(maps, fds, run))
         IN  \E progs : bpf_object__load(ObjectOf(WithFds(maps, fds), reloc, <<>>, titles, <<>>), run, bad)
                          = ObjectOf(new, reloc, [j \in DOMAIN reloc |-> new[reloc[j]].fd], titles, progs)
<1> DEFINE m == WithFds(maps, fds)
           obj == ObjectOf(m, reloc, <<>>, titles, <<>>)
           new == WithFds(maps, CreatedFds(maps, fds, run))
           c == ObjectOf(new, reloc, <<>>, titles, <<>>)
           insns == [j \in DOMAIN reloc |-> new[reloc[j]].fd]
           created == [obj EXCEPT !.maps = create_maps(@, run, bad)]
<1>1. obj.maps = m
  <2> HIDE DEF m
  <2> QED BY SMT DEF ObjectOf
<1>2. ~Creates(m, bad)
  <2> HIDE DEF m
  <2>1. ~LoadFails(obj, bad)
    BY DEF m
  <2> HIDE DEF obj
  <2> QED BY <1>1, <2>1 DEF LoadFails
<1>3. create_maps(m, run, bad) = new
  BY <1>2, CreateIs
<1>4. created = c
  <2> HIDE DEF m, new
  <2>1. [obj EXCEPT !.maps = create_maps(m, run, bad)] = ObjectOf(create_maps(m, run, bad), reloc, <<>>, titles, <<>>)
    BY SMT DEF ObjectOf
  <2> HIDE DEF obj
  <2> QED BY <1>1, <1>3, <2>1
<1>5. bpf_object__load(obj, run, bad) = Relocated(c, run, bad)
  <2>1. ~LoadFails(obj, bad)
    OBVIOUS
  <2> HIDE DEF obj, m, c
  <2> QED BY <1>1, <1>2, <1>4, <2>1 DEF bpf_object__load
<1>6. Relocated(c, run, bad) = ObjectOf(new, reloc, insns, titles, load_progs(c, run, bad))
  BY RelocatedIs
<1>7. \E progs : bpf_object__load(obj, run, bad) = ObjectOf(new, reloc, insns, titles, progs)
  <2> HIDE DEF obj, c, insns, new, m
  <2> QED BY <1>5, <1>6
<1> QED BY <1>7

\* The first loop of bpf_prog_load_xattr_maps opens the pin of this map.
OpensPin(name, pinned, wanted, faults) ==
  name \in wanted /\ pinned[name] # Closed /\ <<"bpf_obj_get", name>> \notin faults

\* What is left of a load of obj that failed: no descriptor, no program, no
\* new pin, and of the pins the descriptors that were opened.
Undone(loaded, obj, pinned, wanted, faults) ==
  /\ \A k \in DOMAIN loaded.obj.maps : loaded.obj.maps[k].fd = Closed
  /\ loaded.obj.progs = <<>> /\ loaded.pinned = pinned
  /\ \A n \in wanted :
       loaded.map_fd[n] = IF HasMap(obj, n) /\ OpensPin(n, pinned, wanted, faults) THEN pinned[n] ELSE Closed

\* The object as the first loop of bpf_prog_load_xattr_maps leaves it.
Ready(obj, pinned, wanted, faults) == preset(obj, bpf_obj_get(obj, pinned, wanted, faults), faults)

\* A load that fails, whichever call it fails at, whatever was pinned or
\* wanted and whichever failures went unnoticed, leaves no descriptor in the
\* object and no program, pins nothing, and leaves open in map_fd exactly the
\* pins that it opened.
THEOREM AnyFailedLoad ==
  ASSUME NEW maps, OpenMaps(maps), NEW reloc, NEW titles, NEW pinned, NEW wanted, NEW faults, NEW run, NEW bad,
         XattrFails(Ready(ObjectOf(maps, reloc, <<>>, titles, <<>>), pinned, wanted, faults), bad)
  PROVE  LET obj == ObjectOf(maps, reloc, <<>>, titles, <<>>)
         IN  Undone(bpf_prog_load_xattr_maps(obj, pinned, wanted, faults, run, bad), obj, pinned, wanted, faults)
<1> DEFINE obj == ObjectOf(maps, reloc, <<>>, titles, <<>>)
           map_fd == bpf_obj_get(obj, pinned, wanted, faults)
           ready == Ready(obj, pinned, wanted, faults)
           fds == PresetFds(maps, map_fd, faults)
           closed == WithFds(maps, ClosedFds(maps))
           load == bpf_object__load(ready, run, bad)
           last == IF titles = <<>> THEN ready ELSE load
           loaded == bpf_prog_load_xattr_maps(obj, pinned, wanted, faults, run, bad)
           Shape(ob) == \E f, insns, progs : ob = ObjectOf(WithFds(maps, f), reloc, insns, titles, progs)
<1>1. preset(obj, map_fd, faults) = ObjectOf(WithFds(maps, fds), reloc, <<>>, titles, <<>>)
  <2> HIDE DEF map_fd
  <2> QED BY PresetIs, SMT
<1>2. obj.titles = titles /\ ObjectOf(WithFds(maps, fds), reloc, <<>>, titles, <<>>).titles = titles
  <2> HIDE DEF fds
  <2> QED BY SMT DEF ObjectOf
<1> HIDE DEF obj, map_fd, fds
<1>3. ready = ObjectOf(WithFds(maps, fds), reloc, <<>>, titles, <<>>)
  BY <1>1 DEF Ready, map_fd
<1>4. XattrFails(ready, bad)
  BY DEF obj
<1> HIDE DEF ready
<1>5. Shape(last)
  <2>1. CASE titles = <<>>
    BY <1>3, <2>1
  <2>2. CASE titles # <<>>
    <3>1. LoadFails(ObjectOf(WithFds(maps, fds), reloc, <<>>, titles, <<>>), bad)
      BY <1>2, <1>3, <1>4, <2>2 DEF XattrFails
    <3>2. \E insns : bpf_object__load(ObjectOf(WithFds(maps, fds), reloc, <<>>, titles, <<>>), run, bad)
                       = ObjectOf(closed, reloc, insns, titles, <<>>)
      BY <3>1, FailedLoadIs, SMT
    <3> QED BY <1>3, <2>2, <3>2
  <2> QED BY <2>1, <2>2
<1>6. PICK f, insns, progs : last = ObjectOf(WithFds(maps, f), reloc, insns, titles, progs)
  BY <1>5
<1>7. bpf_object__unload(ObjectOf(WithFds(maps, f), reloc, insns, titles, progs)) = ObjectOf(closed, reloc, insns, titles, <<>>)
  BY UnloadIs, SMT
<1> HIDE DEF closed
<1>8. loaded = [obj |-> bpf_object__unload(last), map_fd |-> map_fd, pinned |-> pinned]
  <2>1. ready = preset(obj, map_fd, faults)
    BY DEF ready, Ready, map_fd
  <2> QED BY <1>2, <1>4, <2>1 DEF bpf_prog_load_xattr_maps, map_fd
<1> HIDE DEF last, loaded
<1>9. loaded.obj = ObjectOf(closed, reloc, insns, titles, <<>>) /\ loaded.map_fd = map_fd /\ loaded.pinned = pinned
  BY <1>6, <1>7, <1>8
<1>10. FdsAre(closed, maps, ClosedFds(maps))
  BY WithFdsIs DEF closed
<1>11. ObjectOf(closed, reloc, insns, titles, <<>>).maps = closed /\ ObjectOf(closed, reloc, insns, titles, <<>>).progs = <<>>
  BY SMT DEF ObjectOf
<1>12. \A k \in DOMAIN closed : closed[k].fd = Closed
  BY <1>10 DEF FdsAre, ClosedFds
<1>13. \A n \in wanted :
         map_fd[n] = IF HasMap(obj, n) /\ OpensPin(n, pinned, wanted, faults) THEN pinned[n] ELSE Closed
  BY DEF map_fd, bpf_obj_get, OpensPin
<1>14. Undone(loaded, obj, pinned, wanted, faults)
  BY <1>9, <1>11, <1>12, <1>13 DEF Undone
<1> QED BY <1>14 DEF loaded, obj

\* The map that an instruction refers to after a load: the one at the pin if
\* the caller wanted it shared and it was opened and reused, else one of this
\* run.
FdFor(name, pinned, wanted, faults, run) ==
  IF OpensPin(name, pinned, wanted, faults) /\ <<"bpf_map__reuse_fd", name>> \notin faults
  THEN pinned[name] ELSE [run |-> run, name |-> name]

\* Instruction j refers to the map with this name.  If a descriptor of it is
\* reported then it is the one at its pin, and the one of the instruction
\* unless it could be opened but not reused; if none is then the pin is the
\* old one.
Patched(loaded, j, name, pinned, wanted, faults, run) ==
  /\ loaded.obj.insns[j] = FdFor(name, pinned, wanted, faults, run)
  /\ name \in wanted /\ name \in DOMAIN pinned =>
       LET fd == loaded.map_fd[name]
       IN  /\ loaded.pinned[name] = IF fd = Closed THEN pinned[name] ELSE fd
           /\ \/ fd = Closed \/ fd = loaded.obj.insns[j]
              \/ OpensPin(name, pinned, wanted, faults) /\ <<"bpf_map__reuse_fd", name>> \in faults

\* No two maps have the same name.
UniqueNames(maps) == \A i, k \in DOMAIN maps : maps[i].name = maps[k].name => i = k

\* A load that does not fail patches every relocated instruction with that
\* map, and keeps its report, its pin and the instruction together.
THEOREM AnyLoad ==
  ASSUME NEW maps, OpenMaps(maps), NEW reloc, NEW titles, NEW pinned, NEW wanted, NEW faults, NEW run, NEW bad,
         ~XattrFails(Ready(ObjectOf(maps, reloc, <<>>, titles, <<>>), pinned, wanted, faults), bad),
         UniqueNames(maps),
         NEW j \in DOMAIN reloc, reloc[j] \in DOMAIN maps
  PROVE  Patched(bpf_prog_load_xattr_maps(ObjectOf(maps, reloc, <<>>, titles, <<>>), pinned, wanted, faults, run, bad),
                 j, maps[reloc[j]].name, pinned, wanted, faults, run)
<1> DEFINE obj == ObjectOf(maps, reloc, <<>>, titles, <<>>)
           map_fd == bpf_obj_get(obj, pinned, wanted, faults)
           ready == Ready(obj, pinned, wanted, faults)
           fds == PresetFds(maps, map_fd, faults)
           new == WithFds(maps, CreatedFds(maps, fds, run))
           insns == [i \in DOMAIN reloc |-> new[reloc[i]].fd]
           loaded == bpf_prog_load_xattr_maps(obj, pinned, wanted, faults, run, bad)
           name == maps[reloc[j]].name
           Gets(n) == n \in wanted /\ <<"bpf_obj_get", n>> \notin faults
           Fd(n) == FdFor(n, pinned, wanted, faults, run)
<1>0. obj.maps = maps
  BY SMT DEF ObjectOf
<1>1. preset(obj, map_fd, faults) = ObjectOf(WithFds(maps, fds), reloc, <<>>, titles, <<>>)
  <2> HIDE DEF map_fd
  <2> QED BY PresetIs, SMT
<1>2. FdsAre(new, maps, CreatedFds(maps, fds, run))
  BY WithFdsIs
<1> HIDE DEF obj
<1>3. ASSUME NEW k \in DOMAIN maps
      PROVE  Gets(maps[k].name) => map_fd[maps[k].name] = pinned[maps[k].name]
  <2>1. HasMap(obj, maps[k].name)
    BY <1>0 DEF HasMap
  <2> QED BY <2>1 DEF bpf_obj_get
<1>4. DOMAIN map_fd = wanted /\ \A n \in wanted : <<"bpf_obj_get", n>> \in faults => map_fd[n] = Closed
  BY DEF bpf_obj_get
<1> HIDE DEF map_fd
<1>5. \A k \in DOMAIN maps : CreatedFds(maps, fds, run)[k] = Fd(maps[k].name)
  <2>1. ASSUME NEW k \in DOMAIN maps PROVE CreatedFds(maps, fds, run)[k] = Fd(maps[k].name)
    <3> DEFINE n == maps[k].name
    <3>1. fds[k] = IF n \in wanted /\ <<"bpf_map__reuse_fd", n>> \notin faults THEN map_fd[n] ELSE Closed
      BY <1>4 DEF PresetFds
    <3> HIDE DEF fds
    <3>2. CreatedFds(maps, fds, run)[k] = IF fds[k] = Closed THEN [run |-> run, name |-> n] ELSE fds[k]
      BY DEF CreatedFds
    <3>3. Gets(n) => map_fd[n] = pinned[n]
      BY <1>3
    <3>4. n \in wanted /\ ~Gets(n) => map_fd[n] = Closed
      BY <1>4
    <3> HIDE DEF n
    <3>5. CASE OpensPin(n, pinned, wanted, faults) /\ <<"bpf_map__reuse_fd", n>> \notin faults
      BY <3>1, <3>2, <3>3, <3>5 DEF FdFor, OpensPin, n
    <3>6. CASE ~ (OpensPin(n, pinned, wanted, faults) /\ <<"bpf_map__reuse_fd", n>> \notin faults)
      <4>1. fds[k] = Closed
        BY <3>1, <3>3, <3>4, <3>6 DEF OpensPin
      <4> QED BY <3>2, <3>6, <4>1 DEF FdFor, n
    <3> QED BY <3>5, <3>6
  <2> QED BY <2>1
<1> HIDE DEF fds
<1>6. ready = ObjectOf(WithFds(maps, fds), reloc, <<>>, titles, <<>>) /\ ready = preset(obj, map_fd, faults)
  BY <1>1 DEF Ready, map_fd
<1>7. ~XattrFails(ready, bad)
  BY DEF obj
<1> HIDE DEF ready
<1>8. ~LoadFails(ObjectOf(WithFds(maps, fds), reloc, <<>>, titles, <<>>), bad)
  BY <1>6, <1>7 DEF XattrFails
<1>9. PICK progs : bpf_object__load(ObjectOf(WithFds(maps, fds), reloc, <<>>, titles, <<>>), run, bad)
                     = ObjectOf(new, reloc, insns, titles, progs)
  BY <1>8, LoadIs, SMT
<1> DEFINE after == ObjectOf(new, reloc, insns, titles, progs)
           names == bpf_map__pin(after, pinned, map_fd, faults)
<1>10. after.maps = new /\ after.insns = insns
  <2> HIDE DEF new, insns
  <2> QED BY SMT DEF ObjectOf
<1> HIDE DEF new
<1>11. DOMAIN new = DOMAIN maps /\ \A k \in DOMAIN maps : new[k].fd = Fd(maps[k].name) /\ new[k].name = maps[k].name
  BY <1>2, <1>5 DEF FdsAre
<1> HIDE DEF Fd
<1>12. insns[j] = Fd(name) /\ insns[j] = new[reloc[j]].fd
  BY <1>11
<1> HIDE DEF insns, after
<1>13. bpf_object__load(preset(obj, map_fd, faults), run, bad) = after
  BY <1>6, <1>9 DEF after
<1>14. loaded = [obj |-> after, map_fd |-> pin_created(map_fd, after, names), pinned |-> pin_created(pinned, after, names)]
  BY <1>6, <1>7, <1>13 DEF bpf_prog_load_xattr_maps, map_fd
<1> HIDE DEF loaded
<1>15. MapNamed(after, name).fd = insns[j] /\ HasMap(after, name)
  <2> DEFINE at == CHOOSE k \in DOMAIN new : new[k].name = name
  <2>1. reloc[j] \in DOMAIN new /\ new[reloc[j]].name = name
    BY <1>11
  <2>2. at \in DOMAIN new /\ new[at].name = name
    BY <2>1
  <2>3. at = reloc[j]
    BY <1>11, <2>2 DEF UniqueNames
  <2>4. MapNamed(after, name) = new[at]
    BY <1>10 DEF MapNamed
  <2>5. HasMap(after, name)
    BY <1>10, <2>1 DEF HasMap
  <2> HIDE DEF at
  <2> QED BY <1>12, <2>3, <2>4, <2>5
<1>16. ASSUME name \in wanted, name \in DOMAIN pinned
       PROVE  LET fd == loaded.map_fd[name]
              IN  /\ loaded.pinned[name] = IF fd = Closed THEN pinned[name] ELSE fd
                  /\ \/ fd = Closed \/ fd = insns[j]
                     \/ OpensPin(name, pinned, wanted, faults) /\ <<"bpf_map__reuse_fd", name>> \in faults
  <2>1. loaded.map_fd = pin_created(map_fd, after, names) /\ loaded.pinned = pin_created(pinned, after, names)
    BY <1>14
  <2>2. name \in names => map_fd[name] = Closed /\ pinned[name] = Closed
    BY DEF bpf_map__pin
  <2>3. map_fd[name] # Closed => Gets(name) /\ map_fd[name] = pinned[name]
    BY <1>3, <1>4, <1>16
  <2> HIDE DEF names, name
  <2>4. loaded.map_fd[name] = IF name \in names THEN insns[j] ELSE map_fd[name]
    BY <1>4, <1>15, <1>16, <2>1 DEF pin_created
  <2>5. loaded.pinned[name] = IF name \in names THEN insns[j] ELSE pinned[name]
    BY <1>15, <1>16, <2>1 DEF pin_created
  <2>6. CASE name \in names
    BY <2>2, <2>4, <2>5, <2>6
  <2>7. CASE name \notin names /\ map_fd[name] = Closed
    BY <2>4, <2>5, <2>7
  <2>8. CASE name \notin names /\ map_fd[name] # Closed
    <3>1. OpensPin(name, pinned, wanted, faults)
      BY <2>3, <2>8 DEF OpensPin
    <3>2. <<"bpf_map__reuse_fd", name>> \notin faults => insns[j] = pinned[name]
      BY <1>12, <3>1 DEF Fd, FdFor
    <3> QED BY <2>3, <2>4, <2>5, <2>8, <3>1, <3>2
  <2> QED BY <2>6, <2>7, <2>8
<1>17. loaded.obj = after /\ loaded.obj.insns = insns
  BY <1>10, <1>14
<1>18. Patched(loaded, j, name, pinned, wanted, faults, run)
  BY <1>12, <1>16, <1>17 DEF Patched, Fd
<1> QED BY <1>18 DEF loaded, obj

\* Symbol i refers to a map: it is the map's own or one of .bss.
RefersToMap(file, global_data, i) ==
  i \in MapSyms(file) \/ (global_data /\ file.bss_shndx >= 0 /\ file.symtab[i].shndx = file.bss_shndx)

\* So does every relocation of the file.
RelsTo(file, global_data) == \A j \in DOMAIN file.rels : RefersToMap(file, global_data, file.rels[j])

\* Which of the added maps a symbol refers to.
MapAt(file, i) == IF i \in MapSyms(file) THEN i ELSE 0

\* A map matches a symbol if, and only if, it is the one meant.
LEMMA MatchingIs ==
  ASSUME NEW file, NEW at, NEW n, FileWith(file, at, n), NEW global_data \in BOOLEAN,
         NEW i, RefersToMap(file, global_data, i)
  PROVE  Matching(file, init_maps(file, global_data), file.symtab[i])
           = Places(FileOrder(file, global_data, at, n), MapAt(file, i))
<1> DEFINE order == FileOrder(file, global_data, at, n)
           A == Added(file, global_data)
           M == MapSyms(file)
           maps == init_maps(file, global_data)
           With == global_data /\ file.bss_shndx >= 0
           sym == file.symtab[i]
<1>1. maps = Numbered(A, order)
  BY AnyFile
<1>2. order \in Bijection(1 .. Cardinality(DOMAIN A), DOMAIN A)
  BY FileOrdered
<1>3. \A k \in DOMAIN order : order[k] \in DOMAIN A
  <2> HIDE DEF order, A
  <2> QED BY <1>2 DEF Bijection, Injection
<1>4. DOMAIN A = M \cup (IF With THEN {0} ELSE {})
  BY AddedKeys
<1>5. \A l \in M : A[l].type = "unspec" /\ A[l].sec_idx = file.maps_shndx /\ A[l].sec_offset = file.symtab[l].value
  BY AddedPlaces
<1>6. 0 \notin M /\ file.maps_shndx # file.bss_shndx
  BY DEF FileWith
<1>7. With => A[0].type = "bss"
  BY <1>6, AddedKeys
<1>8. ASSUME NEW l \in M, i \in M, file.symtab[l].value = sym.value PROVE l = i
  <2>1. at \in [1 .. n -> M] /\ n \in Nat
    BY DEF FileWith, Bijection, Injection
  <2>2. (\E j \in 1 .. n : at[j] = l) /\ (\E k \in 1 .. n : at[k] = i)
    BY <1>8 DEF FileWith, Bijection, Surjection
  <2>3. PICK j \in 1 .. n : at[j] = l
    BY <2>2
  <2>4. PICK k \in 1 .. n : at[k] = i
    BY <2>2
  <2>5. \A p, q \in 1 .. n : p < q => file.symtab[at[p]].value < file.symtab[at[q]].value
    BY DEF FileWith
  <2>6. file.symtab[l].value \in Int /\ sym.value \in Int
    BY <1>8 DEF FileWith
  <2>7. ~ (j < k) /\ ~ (k < j)
    <3>1. \A p, q \in Int : p = q => ~ (p < q) /\ ~ (q < p)
      BY SMT
    <3>2. ~ (file.symtab[l].value < sym.value) /\ ~ (sym.value < file.symtab[l].value)
      BY <1>8, <2>6, <3>1
    <3> QED BY <2>3, <2>4, <2>5, <3>2
  <2>8. j = k
    BY <2>1, <2>7, SMT
  <2> QED BY <2>3, <2>4, <2>8
<1>9. i \in M => sym.shndx = file.maps_shndx
  BY DEF MapSyms
<1> HIDE DEF A, M, maps, order, sym
<1>10. \A k \in DOMAIN order : maps[k] = A[order[k]]
  BY <1>1 DEF Numbered
<1>11. DOMAIN maps = DOMAIN order
  BY <1>1 DEF Numbered
<1>12. CASE i \in M
  <2>1. sym.shndx = file.maps_shndx /\ sym.shndx # file.bss_shndx
    BY <1>6, <1>9, <1>12
  <2>2. Matching(file, maps, sym)
          = {k \in DOMAIN maps : maps[k].type = "unspec" /\ maps[k].sec_idx = sym.shndx /\ maps[k].sec_offset = sym.value}
    BY <2>1 DEF Matching
  <2>3. ASSUME NEW k \in DOMAIN order
        PROVE  (maps[k].type = "unspec" /\ maps[k].sec_idx = sym.shndx /\ maps[k].sec_offset = sym.value) <=> order[k] = i
    <3>1. CASE order[k] \in M
      <4>1. maps[k].type = "unspec" /\ maps[k].sec_idx = sym.shndx /\ maps[k].sec_offset = file.symtab[order[k]].value
        BY <1>5, <1>10, <2>1, <3>1
      <4>2. order[k] = i => file.symtab[order[k]].value = sym.value
        BY DEF sym
      <4> QED BY <1>8, <1>12, <3>1, <4>1, <4>2
    <3>2. CASE order[k] \notin M
      <4>1. order[k] = 0 /\ With
        BY <1>3, <1>4, <3>2
      <4>2. maps[k].type = "bss"
        BY <1>7, <1>10, <4>1
      <4> QED BY <1>12, <3>2, <4>2
    <3> QED BY <3>1, <3>2
  <2>4. MapAt(file, i) = i
    BY <1>12 DEF MapAt, M
  <2>5. Matching(file, maps, sym) = Places(order, MapAt(file, i))
    BY <1>11, <2>2, <2>3, <2>4 DEF Places
  <2> QED BY <2>5 DEF maps, order, sym
<1>13. CASE i \notin M
  <2>1. With /\ sym.shndx = file.bss_shndx
    BY <1>13 DEF RefersToMap, M, sym
  <2>2. Matching(file, maps, sym) = {k \in DOMAIN maps : maps[k].type = "bss"}
    BY <2>1 DEF Matching
  <2>3. ASSUME NEW k \in DOMAIN order PROVE maps[k].type = "bss" <=> order[k] = 0
    <3>1. CASE order[k] \in M
      BY <1>5, <1>6, <1>10, <3>1
    <3>2. CASE order[k] \notin M
      <4>1. order[k] = 0
        BY <1>3, <1>4, <3>2
      <4> QED BY <1>7, <1>10, <2>1, <4>1
    <3> QED BY <3>1, <3>2
  <2>4. MapAt(file, i) = 0
    BY <1>13 DEF MapAt, M
  <2>5. Matching(file, maps, sym) = Places(order, MapAt(file, i))
    BY <1>11, <2>2, <2>3, <2>4 DEF Places
  <2> QED BY <2>5 DEF maps, order, sym
<1> QED BY <1>12, <1>13

\* Every relocation finds its map, and no other: collect_reloc gives the
\* place of the map that the symbol refers to.
THEOREM AnySymbol ==
  ASSUME NEW file, NEW at, NEW n, FileWith(file, at, n), NEW global_data \in BOOLEAN, RelsTo(file, global_data)
  PROVE  LET maps == init_maps(file, global_data)
         IN  /\ RelocFits(file, maps)
             /\ \A j \in DOMAIN file.rels :
                  LET k == collect_reloc(file, maps)[j]
                  IN  k \in DOMAIN maps /\ maps[k] = Added(file, global_data)[MapAt(file, file.rels[j])]
<1> DEFINE order == FileOrder(file, global_data, at, n)
           A == Added(file, global_data)
           M == MapSyms(file)
           maps == init_maps(file, global_data)
           Found(j) == Matching(file, maps, file.symtab[file.rels[j]])
           reloc == collect_reloc(file, maps)
<1>1. maps = Numbered(A, order)
  BY AnyFile
<1>2. order \in Bijection(1 .. Cardinality(DOMAIN A), DOMAIN A)
  BY FileOrdered
<1>3. /\ \A l \in DOMAIN A : \E k \in DOMAIN order : order[k] = l
      /\ \A p \in DOMAIN order : \A q \in DOMAIN order : order[p] = order[q] => p = q
      /\ DOMAIN order = 1 .. Cardinality(DOMAIN A)
  <2> HIDE DEF order, A
  <2> QED BY <1>2 DEF Bijection, Injection, Surjection, IsInjective
<1>4. DOMAIN A = M \cup (IF global_data /\ file.bss_shndx >= 0 THEN {0} ELSE {})
  BY AddedKeys
<1>5. ASSUME NEW j \in DOMAIN file.rels
      PROVE  \E k \in DOMAIN order : Found(j) = {k} /\ order[k] = MapAt(file, file.rels[j])
  <2> DEFINE i == file.rels[j]
  <2>1. RefersToMap(file, global_data, i)
    BY DEF RelsTo
  <2>2. MapAt(file, i) \in DOMAIN A
    <3> HIDE DEF i, A
    <3> QED BY <1>4, <2>1 DEF MapAt, RefersToMap
  <2>3. Found(j) = Places(order, MapAt(file, i))
    <3> HIDE DEF i
    <3>1. Matching(file, maps, file.symtab[i]) = Places(order, MapAt(file, i))
      BY <2>1, MatchingIs, SMT
    <3> QED BY <3>1 DEF i
  <2> HIDE DEF i, order, A, maps
  <2>4. PICK k \in DOMAIN order : order[k] = MapAt(file, i)
    BY <1>3, <2>2
  <2>5. Found(j) = {k}
    <3>1. \A l \in DOMAIN order : order[l] = MapAt(file, i) <=> l = k
      BY <1>3, <2>4
    <3>2. Places(order, MapAt(file, i)) = {k}
      BY <3>1 DEF Places
    <3> QED BY <2>3, <3>2
  <2> QED BY <2>4, <2>5 DEF i
<1> HIDE DEF order, A, maps
<1>6. \A l \in Int : Min({l}) = l
  BY SMT DEF Min
<1>7. \A k \in DOMAIN order : k \in Int
  <2>1. \A c, k : k \in 1 .. c => k \in Int
    BY SMT
  <2> QED BY <1>3, <2>1
<1>8. RelocFits(file, maps)
  BY <1>5 DEF RelocFits
<1>9. ASSUME NEW j \in DOMAIN file.rels
      PROVE  reloc[j] \in DOMAIN maps /\ maps[reloc[j]] = A[MapAt(file, file.rels[j])]
  <2>1. PICK k \in DOMAIN order : Found(j) = {k} /\ order[k] = MapAt(file, file.rels[j])
    BY <1>5
  <2>2. reloc[j] = Min(Found(j))
    BY DEF collect_reloc
  <2>3. reloc[j] = k
    BY <1>6, <1>7, <2>1, <2>2
  <2> QED BY <1>1, <2>1, <2>3 DEF Numbered
<1> QED BY <1>8, <1>9 DEF A, maps

\* What bpf_object__open makes of such a file.
LEMMA OpenIs ==
  ASSUME NEW file, NEW at, NEW n, FileWith(file, at, n), NEW global_data \in BOOLEAN, RelsTo(file, global_data),
         UserMapsFit(file)
  PROVE  LET maps == init_maps(file, global_data)
         IN  /\ bpf_object__open(file, global_data, 0) = ObjectOf(maps, collect_reloc(file, maps), <<>>, file.progs, <<>>)
             /\ OpenMaps(maps)
<1> DEFINE order == FileOrder(file, global_data, at, n)
           A == Added(file, global_data)
           M == MapSyms(file)
           maps == init_maps(file, global_data)
<1>1. RelocFits(file, maps)
  BY AnySymbol
<1>2. 0 # -1
  BY SMT
<1>3. bpf_object__open(file, global_data, 0) = open_with(file, maps)
  BY <1>2 DEF bpf_object__open
<1>4. open_with(file, maps) = ObjectOf(maps, collect_reloc(file, maps), <<>>, file.progs, <<>>)
  <2> HIDE DEF maps
  <2> QED BY <1>1 DEF open_with, ObjectOf
<1>5. maps = Numbered(A, order)
  BY AnyFile
<1>6. \A k \in DOMAIN order : order[k] \in DOMAIN A
  <2>1. order \in Bijection(1 .. Cardinality(DOMAIN A), DOMAIN A)
    BY FileOrdered
  <2> HIDE DEF order, A
  <2> QED BY <2>1 DEF Bijection, Injection
<1>7. DOMAIN A = M \cup (IF global_data /\ file.bss_shndx >= 0 THEN {0} ELSE {})
  BY AddedIs
<1>8. \A i \in M : A[i] = MapOf(file.symtab[i].name, "unspec", file.maps_shndx, file.symtab[i].value, Closed)
  BY AddedIs
<1>9. 0 \notin M
  BY DEF FileWith
<1>10. global_data /\ file.bss_shndx >= 0 => A[0] = MapOf(".bss", "bss", file.bss_shndx, 0, Closed)
  BY <1>9, AddedIs
<1>11. ASSUME NEW i \in DOMAIN A PROVE \E name, type, sec_idx, sec_offset : A[i] = MapOf(name, type, sec_idx, sec_offset, Closed)
  <2> HIDE DEF A
  <2>1. CASE i \in M
    BY <1>8, <2>1
  <2>2. CASE i \notin M
    BY <1>7, <1>10, <2>2
  <2> QED BY <2>1, <2>2
<1>12. ASSUME NEW name, NEW type, NEW sec_idx, NEW sec_offset
       PROVE  WithFd(MapOf(name, type, sec_idx, sec_offset, Closed), Closed) = MapOf(name, type, sec_idx, sec_offset, Closed)
  <2> DEFINE m == MapOf(name, type, sec_idx, sec_offset, Closed)
  <2>1. m.name = name /\ m.type = type /\ m.sec_idx = sec_idx /\ m.sec_offset = sec_offset
    BY MapFields, SMT
  <2>2. WithFd(m, Closed) = MapOf(m.name, m.type, m.sec_idx, m.sec_offset, Closed)
    <3> HIDE DEF m
    <3> QED BY DEF WithFd
  <2>3. MapOf(m.name, m.type, m.sec_idx, m.sec_offset, Closed) = MapOf(name, type, sec_idx, sec_offset, Closed)
    <3> HIDE DEF m
    <3> QED BY <2>1
  <2> QED BY <2>2, <2>3
<1>13. \A i \in DOMAIN A : WithFd(A[i], Closed) = A[i]
  <2> SUFFICES ASSUME NEW i \in DOMAIN A PROVE WithFd(A[i], Closed) = A[i]
    OBVIOUS
  <2>1. PICK name, type, sec_idx, sec_offset : A[i] = MapOf(name, type, sec_idx, sec_offset, Closed)
    BY <1>11
  <2>2. WithFd(MapOf(name, type, sec_idx, sec_offset, Closed), Closed) = MapOf(name, type, sec_idx, sec_offset, Closed)
    BY <1>12
  <2> HIDE DEF A
  <2> QED BY <2>1, <2>2
<1> HIDE DEF A, order, maps
<1>14. DOMAIN maps = DOMAIN order /\ \A k \in DOMAIN maps : maps[k] = WithFd(maps[k], Closed)
  BY <1>5, <1>6, <1>13 DEF Numbered
<1>15. maps = [k \in DOMAIN maps |-> maps[k]]
  BY <1>5 DEF Numbered
<1>16. OpenMaps(maps)
  BY <1>14, <1>15 DEF OpenMaps, WithFds, ClosedFds
<1> QED BY <1>3, <1>4, <1>16 DEF maps

\* From the object file to the loaded program: whatever the order of the
\* symbols, an instruction that refers to a map by its symbol gets the
\* descriptor of the map with that symbol's name, the pinned one if the caller
\* wanted it shared and it was opened and reused.  A descriptor that is
\* reported to the caller is the one at the pin and, unless bpf_map__reuse_fd
\* failed unnoticed, the one of the instruction.
THEOREM AnyInstruction ==
  ASSUME NEW file, NEW at, NEW n, FileWith(file, at, n), NEW global_data \in BOOLEAN, RelsTo(file, global_data),
         UserMapsFit(file),
         UniqueNames(Added(file, global_data)),
         NEW pinned, NEW wanted, NEW faults, NEW run, NEW bad,
         ~XattrFails(Ready(bpf_object__open(file, global_data, 0), pinned, wanted, faults), bad),
         NEW j \in DOMAIN file.rels
  PROVE  Patched(bpf_prog_load_xattr_maps(bpf_object__open(file, global_data, 0), pinned, wanted, faults, run, bad),
                 j, Added(file, global_data)[MapAt(file, file.rels[j])].name, pinned, wanted, faults, run)
<1> DEFINE order == FileOrder(file, global_data, at, n)
           A == Added(file, global_data)
           maps == init_maps(file, global_data)
           reloc == collect_reloc(file, maps)
           obj == ObjectOf(maps, reloc, <<>>, file.progs, <<>>)
           loaded == bpf_prog_load_xattr_maps(obj, pinned, wanted, faults, run, bad)
           name == maps[reloc[j]].name
<1>1. bpf_object__open(file, global_data, 0) = obj /\ OpenMaps(maps)
  BY OpenIs
<1>2. reloc[j] \in DOMAIN maps /\ maps[reloc[j]] = A[MapAt(file, file.rels[j])]
  BY AnySymbol
<1>3. DOMAIN reloc = DOMAIN file.rels
  BY DEF collect_reloc
<1>4. maps = Numbered(A, order)
  BY AnyFile
<1>5. order \in Bijection(1 .. Cardinality(DOMAIN A), DOMAIN A)
  BY FileOrdered
<1>0. \A i, l \in DOMAIN A : A[i].name = A[l].name => i = l
  BY DEF UniqueNames
<1> HIDE DEF A, order, maps
<1>6. ASSUME NEW k \in DOMAIN maps, NEW l \in DOMAIN maps, maps[k].name = maps[l].name PROVE k = l
  <2>1. \A p \in DOMAIN order : order[p] \in DOMAIN A
    BY <1>5 DEF Bijection, Injection
  <2>2. \A p \in DOMAIN order : \A q \in DOMAIN order : order[p] = order[q] => p = q
    BY <1>5 DEF Bijection, Injection, IsInjective
  <2>3. DOMAIN maps = DOMAIN order /\ \A p \in DOMAIN order : maps[p] = A[order[p]]
    BY <1>4 DEF Numbered
  <2>4. order[k] \in DOMAIN A /\ order[l] \in DOMAIN A /\ A[order[k]].name = A[order[l]].name
    BY <1>6, <2>1, <2>3
  <2>5. order[k] = order[l]
    BY <1>0, <2>4
  <2> QED BY <2>2, <2>3, <2>5
<1> HIDE DEF reloc
<1>7. ~XattrFails(Ready(obj, pinned, wanted, faults), bad)
  BY <1>1
<1>11. UniqueNames(maps)
  BY <1>6 DEF UniqueNames
<1>8. Patched(loaded, j, name, pinned, wanted, faults, run)
  BY <1>1, <1>2, <1>3, <1>7, <1>11, AnyLoad, SMT
<1> HIDE DEF obj
<1>9. name = Added(file, global_data)[MapAt(file, file.rels[j])].name
  BY <1>2 DEF A
<1>10. loaded = bpf_prog_load_xattr_maps(bpf_object__open(file, global_data, 0), pinned, wanted, faults, run, bad)
  BY <1>1
<1> HIDE DEF loaded, name
<1> QED BY <1>8, <1>9, <1>10

----------------------------------------------------------------------------
(***************************************************************************)
(* The files that the model opens.                                         *)
(***************************************************************************)

\* Concatenations, element by element.
Joined(S, s, t) ==
  /\ s \o t \in Seq(S) /\ Len(s \o t) = Len(s) + Len(t)
  /\ \A k \in 1 .. Len(s) : (s \o t)[k] = s[k]
  /\ \A k \in 1 .. Len(t) : (s \o t)[Len(s) + k] = t[k]
LEMMA ConcatAt == ASSUME NEW S, NEW s \in Seq(S), NEW t \in Seq(S) PROVE Joined(S, s, t)
<1>1. s \o t \in Seq(S) /\ Len(s \o t) = Len(s) + Len(t)
  BY SMT
<1>2. \A k \in 1 .. Len(s) : (s \o t)[k] = s[k]
  BY SMT
<1>3. \A k \in 1 .. Len(t) : (s \o t)[Len(s) + k] = t[k]
  BY SMT
<1> QED BY <1>1, <1>2, <1>3 DEF Joined

\* Functions on an initial segment of the natural numbers are sequences.
LEMMA SeqOf ==
  ASSUME NEW S, NEW n \in Nat, NEW f \in [1 .. n -> S]
  PROVE  f \in Seq(S) /\ Len(f) = n
<1>1. DOMAIN f = 1 .. n
  OBVIOUS
<1>2. Len(f) = n
  BY <1>1, SMT
<1>3. f \in Seq(S)
  BY SMT
<1> QED BY <1>2, <1>3

\* Symbol tables in three parts.
Table(S, s, a, f, u) ==
  /\ s \in Seq(S) /\ Len(s) = 4 + Len(u) /\ s[1] = a
  /\ \A k \in 1 .. 3 : s[1 + k] = f[k]
  /\ \A k \in 1 .. Len(u) : s[4 + k] = u[k]
LEMMA SymtabIs ==
  ASSUME NEW S, NEW a \in S, NEW f \in [1 .. 3 -> S], NEW u \in Seq(S)
  PROVE  Table(S, <<a>> \o f \o u, a, f, u)
<1> DEFINE p == <<a>>
           t == p \o f
           s == t \o u
<1>1. f \in Seq(S) /\ Len(f) = 3
  <2>1. 3 \in Nat
    BY SMT
  <2> QED BY <2>1, SeqOf
<1>2. p \in Seq(S) /\ Len(p) = 1 /\ p[1] = a
  BY SMT
<1> HIDE DEF p
<1>8. Joined(S, p, f)
  BY <1>1, <1>2, ConcatAt
<1>3. /\ t \in Seq(S) /\ Len(t) = Len(p) + Len(f)
      /\ (\A k \in 1 .. Len(p) : t[k] = p[k]) /\ (\A k \in 1 .. Len(f) : t[Len(p) + k] = f[k])
  BY <1>8 DEF Joined
<1>4. 1 \in 1 .. 1 /\ 1 + 3 = 4 /\ 1 \in 1 .. 4 /\ \A k \in 1 .. 3 : 1 + k \in 1 .. 4
  BY SMT
<1>5. t \in Seq(S) /\ Len(t) = 4 /\ t[1] = a /\ \A k \in 1 .. 3 : t[1 + k] = f[k]
  BY <1>1, <1>2, <1>3, <1>4
<1> HIDE DEF t
<1>9. Joined(S, t, u)
  BY <1>5, ConcatAt
<1>6. /\ s \in Seq(S) /\ Len(s) = Len(t) + Len(u)
      /\ (\A k \in 1 .. Len(t) : s[k] = t[k]) /\ (\A k \in 1 .. Len(u) : s[Len(t) + k] = u[k])
  BY <1>9 DEF Joined
<1> HIDE DEF s
<1>7. Table(S, s, a, f, u)
  BY <1>4, <1>5, <1>6 DEF Table
<1> QED BY <1>7 DEF s, t, p

\* The files that the model opens.
FileIs(file, perm, bss) ==
  /\ file.maps_shndx = 5 /\ file.bss_shndx = bss /\ file.size = 3
  /\ DOMAIN file.symtab = 1 .. (IF bss < 0 THEN 4 ELSE 5)
  /\ file.symtab[1] = FuncSym
  /\ \A k \in 1 .. 3 : file.symtab[1 + k] = MapSym(perm[k])
  /\ bss >= 0 => file.symtab[5] = BssSym(bss)
  /\ DOMAIN file.rels = 1 .. (IF bss < 0 THEN 3 ELSE 4)
  /\ \A j \in DOMAIN file.rels : file.rels[j] \in 2 .. (IF bss < 0 THEN 4 ELSE 5)

\* They are as described.
LEMMA FileOfIs ==
  ASSUME NEW perm \in [1 .. 3 -> 1 .. 3], NEW bss \in {-1, 4, 6}
  PROVE  FileIs(FileOf(perm, bss), perm, bss)
<1> DEFINE f == [k \in 1 .. 3 |-> MapSym(perm[k])]
           tail == IF bss < 0 THEN <<>> ELSE <<BssSym(bss)>>
           syms == <<FuncSym>> \o f \o tail
           rels == [j \in 1 .. Len(syms) - 1 |-> Len(syms) + 1 - j]
           file == FileOf(perm, bss)
           S == {FuncSym, BssSym(bss)} \cup {MapSym(k) : k \in 1 .. 3}
           last == IF bss < 0 THEN 4 ELSE 5
<1>1. bss \in Int
  BY SMT
<1>2. FuncSym \in S /\ BssSym(bss) \in S /\ f \in [1 .. 3 -> S]
  OBVIOUS
<1>3. \A k \in 1 .. 3 : f[k] = MapSym(perm[k])
  OBVIOUS
<1> HIDE DEF f, S
<1>4. tail \in Seq(S) /\ Len(tail) = (IF bss < 0 THEN 0 ELSE 1) /\ (~ (bss < 0) => tail[1] = BssSym(bss))
  <2> DEFINE b == BssSym(bss)
  <2> HIDE DEF b
  <2>1. <<>> \in Seq(S) /\ Len(<<>>) = 0
    BY SMT
  <2>2. b \in S
    BY <1>2 DEF b
  <2>3. <<b>> \in Seq(S) /\ Len(<<b>>) = 1 /\ <<b>>[1] = b
    BY <2>2, SMT
  <2>4. CASE bss < 0
    <3>1. tail = <<>>
      BY <2>4
    <3> HIDE DEF tail
    <3> QED BY <2>1, <2>4, <3>1, SMT
  <2>5. CASE ~ (bss < 0)
    BY <2>3, <2>5 DEF b
  <2> QED BY <2>4, <2>5
<1> HIDE DEF tail
<1>10. Table(S, syms, FuncSym, f, tail)
  BY <1>2, <1>4, SymtabIs
<1>5. /\ syms \in Seq(S) /\ Len(syms) = 4 + Len(tail) /\ syms[1] = FuncSym
      /\ (\A k \in 1 .. 3 : syms[1 + k] = f[k]) /\ (\A k \in 1 .. Len(tail) : syms[4 + k] = tail[k])
  <2> HIDE DEF syms
  <2> QED BY <1>10 DEF Table
<1>6. /\ Len(syms) = last /\ DOMAIN syms = 1 .. last
      /\ syms[1] = FuncSym /\ (\A k \in 1 .. 3 : syms[1 + k] = MapSym(perm[k]))
      /\ ~ (bss < 0) => syms[5] = BssSym(bss)
  <2> HIDE DEF syms
  <2>1. DOMAIN syms = 1 .. Len(syms)
    BY <1>5, SMT
  <2>2. 4 + 0 = 4 /\ 4 + 1 = 5 /\ 1 \in 1 .. 1
    BY SMT
  <2>3. Len(syms) = last
    BY <1>4, <1>5, <2>2
  <2>4. ~ (bss < 0) => syms[5] = BssSym(bss)
    BY <1>4, <1>5, <2>2
  <2> QED BY <1>3, <1>5, <2>1, <2>3, <2>4
<1>7. /\ file.maps_shndx = 5 /\ file.bss_shndx = bss /\ file.size = 3 /\ file.symtab = syms /\ file.rels = rels
  <2>1. file = [symtab |-> syms, maps_shndx |-> 5, size |-> 3, bss_shndx |-> bss, rels |-> rels,
                progs |-> <<"xdp_filter", "xdp_pass">>]
    BY DEF FileOf, f, tail
  <2> HIDE DEF syms, rels, file
  <2> QED BY <2>1
<1> HIDE DEF syms, file
<1>8. /\ DOMAIN rels = 1 .. (IF bss < 0 THEN 3 ELSE 4)
      /\ \A j \in DOMAIN rels : rels[j] \in 2 .. (IF bss < 0 THEN 4 ELSE 5)
  BY <1>6, SMT
<1>9. bss >= 0 => ~ (bss < 0)
  BY <1>1, SMT
<1> HIDE DEF rels
<1>11. FileIs(file, perm, bss)
  BY <1>6, <1>7, <1>8, <1>9 DEF FileIs
<1> QED BY <1>11 DEF file

\* Where the symbol of the k-th declared map is.
SymbolAt(perm) == [k \in 1 .. 3 |-> 1 + (CHOOSE m \in 1 .. 3 : perm[m] = k)]

\* The names are different ones.
LEMMA Names3 ==
  /\ Declared[1] = "logger" /\ Declared[2] = "blacklist" /\ Declared[3] = "data"
  /\ \A k \in 1 .. 3 : Declared[k] \in Paths /\ Declared[k] # ".bss" /\ Declared[k] # "counter"
  /\ \A k, l \in 1 .. 3 : Declared[k] = Declared[l] => k = l
<1>1. Declared[1] = "logger" /\ Declared[2] = "blacklist" /\ Declared[3] = "data"
  BY SMT DEF Declared
<1>2. \A k \in 1 .. 3 : k = 1 \/ k = 2 \/ k = 3
  BY SMT
<1>3. ASSUME NEW k \in 1 .. 3 PROVE Declared[k] \in Paths /\ Declared[k] # ".bss" /\ Declared[k] # "counter"
  BY <1>1, <1>2 DEF Paths
<1>4. ASSUME NEW k \in 1 .. 3, NEW l \in 1 .. 3, Declared[k] = Declared[l] PROVE k = l
  BY <1>1, <1>2, <1>4
<1> QED BY <1>1, <1>3, <1>4

\* The fields of the symbols.
LEMMA SymFields ==
  /\ \A k \in 1 .. 3 : MapSym(k).name = Declared[k] /\ MapSym(k).shndx = 5 /\ MapSym(k).value = k - 1
  /\ FuncSym.shndx = 3
  /\ \A bss \in Int : BssSym(bss).name = "counter" /\ BssSym(bss).shndx = bss
<1>1. \A k \in 1 .. 3 : MapSym(k).name = Declared[k] /\ MapSym(k).shndx = 5 /\ MapSym(k).value = k - 1
  BY DEF MapSym
<1>2. FuncSym.shndx = 3
  BY DEF FuncSym
<1>3. \A bss \in Int : BssSym(bss).name = "counter" /\ BssSym(bss).shndx = bss
  BY DEF BssSym
<1> QED BY <1>1, <1>2, <1>3

\* What the theorems about any file need of those that the model opens.
Fits(file, perm) ==
  /\ MapSyms(file) = 2 .. 4
  /\ FileWith(file, SymbolAt(perm), 3)
  /\ UserMapsFit(file)
  /\ \A k \in 1 .. 3 : file.symtab[SymbolAt(perm)[k]].name = Declared[k]
LEMMA FileFits ==
  ASSUME NEW perm \in Bijection(1 .. 3, 1 .. 3), NEW bss \in {-1, 4, 6}, NEW file, FileIs(file, perm, bss)
  PROVE  Fits(file, perm)
<1> DEFINE at == SymbolAt(perm)
           Inv(k) == CHOOSE m \in 1 .. 3 : perm[m] = k
           last == IF bss < 0 THEN 4 ELSE 5
<1>1. /\ perm \in [1 .. 3 -> 1 .. 3] /\ (\A k \in 1 .. 3 : \E m \in 1 .. 3 : perm[m] = k)
      /\ \A j \in 1 .. 3 : \A k \in 1 .. 3 : perm[j] = perm[k] => j = k
  BY DEF Bijection, Injection, Surjection, IsInjective
<1>2. \A k \in 1 .. 3 : Inv(k) \in 1 .. 3 /\ perm[Inv(k)] = k
  BY <1>1
<1>3. \A k \in 1 .. 3 : at[k] = 1 + Inv(k)
  BY DEF SymbolAt
<1>4. DOMAIN at = 1 .. 3
  BY DEF SymbolAt
<1>5. bss \in Int /\ 5 \in Int /\ bss # 5
  BY SMT
<1>6. \A k \in 1 .. 3 : 1 + k \in 2 .. 4 /\ 1 + k \in 1 .. last
  BY SMT
<1>7. \A i \in 2 .. 4 : i - 1 \in 1 .. 3 /\ 1 + (i - 1) = i
  BY SMT
<1>8. \A i \in 1 .. last : i = 1 \/ i \in 2 .. 4 \/ (i = 5 /\ bss >= 0)
  BY SMT
<1>9. \A k \in 1 .. 3 : file.symtab[1 + k] = MapSym(perm[k])
  BY DEF FileIs
<1>10. \A k \in 1 .. 3 : perm[k] \in 1 .. 3
  BY <1>1
<1>11. \A k \in 1 .. 3 : /\ file.symtab[1 + k].name = Declared[perm[k]] /\ file.symtab[1 + k].shndx = 5
                         /\ file.symtab[1 + k].value = perm[k] - 1
  <2> SUFFICES ASSUME NEW k \in 1 .. 3
               PROVE  /\ file.symtab[1 + k].name = Declared[perm[k]] /\ file.symtab[1 + k].shndx = 5
                      /\ file.symtab[1 + k].value = perm[k] - 1
    OBVIOUS
  <2>1. file.symtab[1 + k] = MapSym(perm[k])
    BY <1>9
  <2>2. perm[k] \in 1 .. 3
    BY <1>10
  <2>3. MapSym(perm[k]).name = Declared[perm[k]] /\ MapSym(perm[k]).shndx = 5 /\ MapSym(perm[k]).value = perm[k] - 1
    BY <2>2, SymFields
  <2> QED BY <2>1, <2>3
<1>12. /\ DOMAIN file.symtab = 1 .. last /\ file.symtab[1].shndx = 3 /\ (bss >= 0 => file.symtab[5].shndx = bss)
       /\ file.maps_shndx = 5 /\ file.bss_shndx = bss /\ file.size = 3
  BY <1>5, SymFields DEF FileIs
<1>13. MapSyms(file) = 2 .. 4
  <2>1. ASSUME NEW i \in 2 .. 4 PROVE i \in 1 .. last /\ file.symtab[i].shndx = 5
    BY <1>6, <1>7, <1>11, ZenonT(60)
  <2>2. ASSUME NEW i \in 1 .. last, file.symtab[i].shndx = 5 PROVE i \in 2 .. 4
    <3>1. 3 # 5
      BY SMT
    <3> QED BY <1>5, <1>8, <1>12, <2>2, <3>1
  <2> QED BY <1>12, <2>1, <2>2 DEF MapSyms
<1> HIDE DEF at, Inv
<1>14. \A k \in 1 .. 3 : at[k] \in 2 .. 4
  BY <1>2, <1>3, <1>6
<1>15. \A k \in 1 .. 3 : file.symtab[at[k]].name = Declared[k] /\ file.symtab[at[k]].value = k - 1
  <2> SUFFICES ASSUME NEW k \in 1 .. 3 PROVE file.symtab[at[k]].name = Declared[k] /\ file.symtab[at[k]].value = k - 1
    OBVIOUS
  <2>1. Inv(k) \in 1 .. 3 /\ perm[Inv(k)] = k /\ at[k] = 1 + Inv(k)
    BY <1>2, <1>3
  <2>2. file.symtab[1 + Inv(k)].name = Declared[perm[Inv(k)]] /\ file.symtab[1 + Inv(k)].value = perm[Inv(k)] - 1
    BY <1>11, <2>1
  <2> QED BY <2>1, <2>2
<1>16. at \in Bijection(1 .. 3, 2 .. 4)
  <2>0. at \in [1 .. 3 -> 2 .. 4]
    BY <1>4, <1>14 DEF at, SymbolAt
  <2>1. ASSUME NEW j \in 1 .. 3, NEW k \in 1 .. 3, at[j] = at[k] PROVE j = k
    <3>1. \A p, q \in 1 .. 3 : p - 1 = q - 1 => p = q
      BY SMT
    <3>2. file.symtab[at[j]].value = j - 1 /\ file.symtab[at[k]].value = k - 1
      BY <1>15
    <3>3. j - 1 = k - 1
      BY <2>1, <3>2
    <3> QED BY <3>1, <3>3
  <2>2. ASSUME NEW i \in 2 .. 4 PROVE \E k \in 1 .. 3 : at[k] = i
    <3>1. i - 1 \in 1 .. 3 /\ 1 + (i - 1) = i
      BY <1>7
    <3>2. perm[i - 1] \in 1 .. 3
      BY <1>10, <3>1
    <3>3. Inv(perm[i - 1]) = i - 1
      <4>1. Inv(perm[i - 1]) \in 1 .. 3 /\ perm[Inv(perm[i - 1])] = perm[i - 1]
        BY <1>2, <3>2
      <4> QED BY <1>1, <3>1, <4>1
    <3>4. at[perm[i - 1]] = i
      BY <1>3, <3>1, <3>2, <3>3
    <3> QED BY <3>2, <3>4
  <2> QED BY <2>0, <2>1, <2>2, BijectionIs
<1>17. FileWith(file, at, 3)
  <2>1. 3 \in Nat /\ 2 .. 4 \subseteq Int \ {0}
    BY SMT
  <2>2. ASSUME NEW i \in MapSyms(file) PROVE file.symtab[i].value \in Int
    <3>1. \A k \in 1 .. 3 : k - 1 \in Int
      BY SMT
    <3>2. i - 1 \in 1 .. 3 /\ 1 + (i - 1) = i
      BY <1>7, <1>13
    <3>3. file.symtab[i].value = perm[i - 1] - 1
      BY <1>11, <3>2
    <3> QED BY <1>10, <3>1, <3>2, <3>3
  <2>3. ASSUME NEW j \in 1 .. 3, NEW k \in 1 .. 3, j < k PROVE file.symtab[at[j]].value < file.symtab[at[k]].value
    <3>1. j - 1 < k - 1
      BY <2>3, SMT
    <3> QED BY <1>15, <3>1
  <2> QED BY <1>5, <1>12, <1>13, <1>16, <2>1, <2>2, <2>3 DEF FileWith
<1>18. UserMapsFit(file)
  <2>1. Cardinality(2 .. 4) = 3
    <3>1. 2 \in Int /\ 4 \in Int /\ ~ (2 > 4) /\ 4 - 2 + 1 = 3
      BY SMT
    <3>2. Cardinality(2 .. 4) = IF 2 > 4 THEN 0 ELSE 4 - 2 + 1
      BY <3>1, FS_Interval
    <3> QED BY <3>1, <3>2
  <2>2. 3 > 0 /\ 3 % 3 = 0 /\ 3 \div 3 = 1 /\ \A k \in 1 .. 3 : (k - 1) + 1 <= 3
    BY SMT
  <2>3. ASSUME NEW i \in 2 .. 4 PROVE file.symtab[i].value + 1 <= 3
    <3>1. i - 1 \in 1 .. 3 /\ 1 + (i - 1) = i
      BY <1>7
    <3>2. file.symtab[i].value = perm[i - 1] - 1
      BY <1>11, <3>1
    <3> QED BY <1>10, <2>2, <3>1, <3>2
  <2> QED BY <1>12, <1>13, <2>1, <2>2, <2>3 DEF UserMapsFit
<1> QED BY <1>13, <1>15, <1>17, <1>18 DEF Fits, at

\* All that the theorems about any file ask of the file in hand.
Known(file, global_data, perm, bss) ==
  /\ FileIs(file, perm, bss)
  /\ FileWith(file, SymbolAt(perm), 3)
  /\ UserMapsFit(file) /\ RelsTo(file, global_data)
  /\ MapSyms(file) = 2 .. 4
  /\ \A k \in 1 .. 3 : SymbolAt(perm)[k] \in 2 .. 4 /\ Added(file, global_data)[SymbolAt(perm)[k]].name = Declared[k]
  /\ \A i \in 2 .. 4 : \E k \in 1 .. 3 : i = SymbolAt(perm)[k]
  /\ DOMAIN Added(file, global_data) = IF bss < 0 THEN 2 .. 4 ELSE 2 .. 4 \cup {0}
  /\ ~ (bss < 0) => Added(file, global_data)[0].name = ".bss"
  /\ UniqueNames(Added(file, global_data))

\* The files of the model are such.
LEMMA FileKnown ==
  ASSUME NEW perm \in Bijection(1 .. 3, 1 .. 3), NEW bss \in {-1, 4, 6}, NEW global_data \in BOOLEAN,
         global_data \/ bss < 0
  PROVE  Known(FileOf(perm, bss), global_data, perm, bss)
<1> DEFINE file == FileOf(perm, bss)
           A == Added(file, global_data)
           at == SymbolAt(perm)
<1>1. perm \in [1 .. 3 -> 1 .. 3]
  BY DEF Bijection, Injection
<1>2. FileIs(file, perm, bss)
  BY <1>1, FileOfIs
<1> HIDE DEF file
<1>15. Fits(file, perm)
  BY <1>2, FileFits
<1>3. /\ MapSyms(file) = 2 .. 4 /\ FileWith(file, at, 3) /\ UserMapsFit(file)
      /\ \A k \in 1 .. 3 : file.symtab[at[k]].name = Declared[k]
  BY <1>15 DEF Fits
<1>4. bss \in Int /\ (bss >= 0 <=> ~ (bss < 0))
  BY SMT
<1>5. file.bss_shndx = bss
  BY <1>2 DEF FileIs
<1>6. DOMAIN A = IF bss < 0 THEN 2 .. 4 ELSE 2 .. 4 \cup {0}
  <2>1. DOMAIN A = MapSyms(file) \cup (IF global_data /\ file.bss_shndx >= 0 THEN {0} ELSE {})
    BY AddedKeys
  <2> HIDE DEF A
  <2>2. CASE bss < 0
    <3>1. ~ (file.bss_shndx >= 0)
      BY <1>4, <1>5, <2>2
    <3> QED BY <1>3, <2>1, <2>2, <3>1
  <2>3. CASE ~ (bss < 0)
    <3>1. global_data /\ file.bss_shndx >= 0
      BY <1>4, <1>5, <2>3
    <3> QED BY <1>3, <2>1, <2>3, <3>1
  <2> QED BY <2>2, <2>3
<1>7. ~ (bss < 0) => A[0].name = ".bss"
  <2>1. 0 \notin MapSyms(file)
    BY <1>3 DEF FileWith
  <2> QED BY <1>4, <1>5, <2>1, AddedKeys
<1>8. \A i \in 2 .. 4 : A[i].name = file.symtab[i].name
  <2>1. \A i \in MapSyms(file) : A[i].name = file.symtab[i].name
    BY AddedNames
  <2> HIDE DEF A
  <2> QED BY <1>3, <2>1
<1>9. /\ \A k \in 1 .. 3 : at[k] \in 2 .. 4
      /\ \A i \in 2 .. 4 : \E k \in 1 .. 3 : i = at[k]
  <2>1. at \in Bijection(1 .. 3, MapSyms(file))
    BY <1>3 DEF FileWith
  <2>2. at \in Bijection(1 .. 3, 2 .. 4)
    BY <1>3, <2>1
  <2> HIDE DEF at
  <2> QED BY <2>2 DEF Bijection, Injection, Surjection
<1>10. \A k \in 1 .. 3 : A[at[k]].name = Declared[k]
  <2> SUFFICES ASSUME NEW k \in 1 .. 3 PROVE A[at[k]].name = Declared[k]
    OBVIOUS
  <2>1. at[k] \in 2 .. 4 /\ file.symtab[at[k]].name = Declared[k]
    BY <1>3, <1>9
  <2> HIDE DEF A, at
  <2> QED BY <1>8, <2>1
<1> HIDE DEF A, at
<1>11. ASSUME NEW i \in 2 .. 4 PROVE \E k \in 1 .. 3 : i = at[k] /\ A[i].name = Declared[k]
  <2>1. PICK k \in 1 .. 3 : i = at[k]
    BY <1>9
  <2>2. A[at[k]].name = Declared[k]
    BY <1>10
  <2> QED BY <2>1, <2>2
<1>12. ASSUME NEW i \in DOMAIN A, NEW l \in DOMAIN A, A[i].name = A[l].name PROVE i = l
  <2>1. CASE i \in 2 .. 4 /\ l \in 2 .. 4
    <3>1. PICK k \in 1 .. 3 : i = at[k] /\ A[i].name = Declared[k]
      BY <1>11, <2>1
    <3>2. PICK m \in 1 .. 3 : l = at[m] /\ A[l].name = Declared[m]
      BY <1>11, <2>1
    <3>3. Declared[k] = Declared[m]
      BY <1>12, <3>1, <3>2
    <3>4. k = m
      BY <3>3, Names3
    <3> QED BY <3>1, <3>2, <3>4
  <2>2. CASE i \in 2 .. 4 /\ l \notin 2 .. 4
    <3>1. A[l].name = ".bss"
      BY <1>6, <1>7, <2>2
    <3>2. PICK k \in 1 .. 3 : A[i].name = Declared[k]
      BY <1>11, <2>2
    <3> QED BY <1>12, <3>1, <3>2, Names3
  <2>3. CASE i \notin 2 .. 4 /\ l \in 2 .. 4
    <3>1. A[i].name = ".bss"
      BY <1>6, <1>7, <2>3
    <3>2. PICK k \in 1 .. 3 : A[l].name = Declared[k]
      BY <1>11, <2>3
    <3> QED BY <1>12, <3>1, <3>2, Names3
  <2>4. CASE i \notin 2 .. 4 /\ l \notin 2 .. 4
    <3>1. CASE bss < 0
      BY <1>6, <2>4, <3>1
    <3>2. CASE ~ (bss < 0)
      <4>1. DOMAIN A = 2 .. 4 \cup {0}
        BY <1>6, <3>2
      <4> QED BY <2>4, <4>1
    <3> QED BY <3>1, <3>2
  <2> QED BY <2>1, <2>2, <2>3, <2>4
<1>13. RelsTo(file, global_data)
  <2> SUFFICES ASSUME NEW j \in DOMAIN file.rels PROVE RefersToMap(file, global_data, file.rels[j])
    BY DEF RelsTo
  <2>1. file.rels[j] \in 2 .. (IF bss < 0 THEN 4 ELSE 5)
    BY <1>2 DEF FileIs
  <2>2. \A i : i \in 2 .. (IF bss < 0 THEN 4 ELSE 5) => i \in 2 .. 4 \/ (~ (bss < 0) /\ i = 5)
    BY SMT
  <2>3. CASE file.rels[j] \in 2 .. 4
    BY <1>3, <2>3 DEF RefersToMap
  <2>4. CASE ~ (bss < 0) /\ file.rels[j] = 5
    <3>1. file.symtab[5] = BssSym(bss) /\ BssSym(bss).shndx = bss
      BY <1>2, <1>4, <2>4, SymFields DEF FileIs
    <3> QED BY <1>4, <1>5, <2>4, <3>1 DEF RefersToMap
  <2> QED BY <2>1, <2>2, <2>3, <2>4
<1>14. Known(file, global_data, perm, bss)
  BY <1>2, <1>3, <1>6, <1>7, <1>9, <1>10, <1>12, <1>13 DEF Known, UniqueNames, A, at
<1> QED BY <1>14 DEF file

\* The object in hand is one of the model's.
ObjectInv == o \in Objects

\* Some object is loaded without a failure.
LEMMA FirstIsObject == FirstObject \in Objects
<1> DEFINE id == [k \in 1 .. 3 |-> k]
           first == [file |-> FileOf(id, -1), global_data |-> TRUE, wanted |-> {}, pinned |-> Pinned({}),
                     faults |-> {}, bad |-> 0]
<1>1. id \in Bijection(1 .. 3, 1 .. 3)
  <2>1. /\ id \in [1 .. 3 -> 1 .. 3] /\ (\A i \in 1 .. 3 : \E k \in 1 .. 3 : id[k] = i)
        /\ (\A j \in 1 .. 3 : \A k \in 1 .. 3 : id[j] = id[k] => j = k)
    OBVIOUS
  <2> HIDE DEF id
  <2> QED BY <2>1, BijectionIs
<1> HIDE DEF id
<1>2. 0 \in 0 .. 6
  BY SMT
<1>5. FileOf(id, -1) \in Files
  <2> DEFINE B == {-1, 4, 6}
  <2>1. -1 \in B
    BY SMT
  <2>2. Files = UNION {{FileOf(perm, bss) : bss \in B} : perm \in Bijection(1 .. 3, 1 .. 3)}
    BY DEF Files
  <2> HIDE DEF B
  <2>3. \A b \in B : FileOf(id, b) \in Files
    BY <1>1, <2>2, SMT
  <2> QED BY <2>1, <2>3
<1>3. first \in Objects
  <2> DEFINE f == FileOf(id, -1)
  <2> HIDE DEF f
  <2>1. f \in Files
    BY <1>5 DEF f
  <2>2. [file |-> f, global_data |-> TRUE, wanted |-> {}, pinned |-> Pinned({}),
                     faults |-> {}, bad |-> 0] \in Objects
    BY <1>2, <2>1 DEF Objects
  <2> QED BY <2>2 DEF f
<1>4. first.bad = 0
  OBVIOUS
<1> HIDE DEF first
<1> QED BY <1>3, <1>4 DEF FirstObject

\* It stays one.
LEMMA ObjectInvariant == Spec => []ObjectInv
<1>1. Init => ObjectInv
  BY FirstIsObject DEF Init, ObjectInv
<1>2. ObjectInv /\ [Next]_vars => ObjectInv'
  BY DEF ObjectInv, Next, AddOption, NextObject, vars
<1> QED BY <1>1, <1>2, PTL DEF Spec

\* Its fields.
LEMMA ObjectKnown ==
  ASSUME ObjectInv, Opens
  PROVE  /\ \E perm \in Bijection(1 .. 3, 1 .. 3) : \E bss \in {-1, 4, 6} : Known(o.file, o.global_data, perm, bss)
         /\ o.global_data \in BOOLEAN
         /\ o.pinned \in {Pinned({}), Pinned({"logger"}), Pinned({"logger", "blacklist", "data"})}
<1>1. /\ o.file \in Files
      /\ o.global_data \in BOOLEAN
      /\ o.pinned \in {Pinned({}), Pinned({"logger"}), Pinned({"logger", "blacklist", "data"})}
  BY DEF ObjectInv, Objects
<1>2. PICK perm \in Bijection(1 .. 3, 1 .. 3), bss \in {-1, 4, 6} : o.file = FileOf(perm, bss)
  BY <1>1 DEF Files
<1>3. perm \in [1 .. 3 -> 1 .. 3]
  BY DEF Bijection, Injection
<1>4. FileIs(FileOf(perm, bss), perm, bss)
  BY <1>3, FileOfIs
<1>5. o.file.bss_shndx = bss
  BY <1>2, <1>4 DEF FileIs
<1>6. o.global_data \/ bss < 0
  BY <1>5 DEF Opens
<1>7. Known(o.file, o.global_data, perm, bss)
  BY <1>1, <1>2, <1>6, FileKnown
<1> QED BY <1>1, <1>7

\* bpf_map__next gives the maps of every file in the order of their
\* declaration.
THEOREM MapsAlwaysInPlace == Spec => []MapsInPlace
<1>1. ASSUME ObjectInv PROVE MapsInPlace
  <2> SUFFICES ASSUME Opens
               PROVE  Names(Opened.maps) = CASE o.file.bss_shndx < 0 -> Declared
                                             [] o.file.bss_shndx = 4 -> <<".bss">> \o Declared
                                             [] OTHER -> Declared \o <<".bss">>
    BY DEF MapsInPlace
  <2>1. PICK perm \in Bijection(1 .. 3, 1 .. 3) : \E bss \in {-1, 4, 6} : Known(o.file, o.global_data, perm, bss)
    BY <1>1, ObjectKnown
  <2>2. PICK bss \in {-1, 4, 6} : Known(o.file, o.global_data, perm, bss)
    BY <2>1
  <2>3. o.global_data \in BOOLEAN
    BY <1>1, ObjectKnown
  <2> DEFINE file == o.file
             gd == o.global_data
             A == Added(file, gd)
             at == SymbolAt(perm)
             order == FileOrder(file, gd, at, 3)
             maps == init_maps(file, gd)
             names == [k \in DOMAIN order |-> A[order[k]].name]
  <2>4. Opened.maps = maps
    <3>1. Opened = ObjectOf(maps, collect_reloc(file, maps), <<>>, file.progs, <<>>)
      BY <2>2, <2>3, OpenIs DEF Known, Opened
    <3> HIDE DEF maps
    <3>2. ObjectOf(maps, collect_reloc(file, maps), <<>>, file.progs, <<>>).maps = maps
      BY SMT DEF ObjectOf
    <3> QED BY <3>1, <3>2
  <2>5. maps = Numbered(A, order)
    <3>1. FileWith(file, at, 3)
      BY <2>2 DEF Known
    <3> QED BY <2>3, <3>1, AnyFile
  <2>6. Names(maps) = names
    <3> HIDE DEF maps, A, order
    <3> QED BY <2>5 DEF Numbered, Names
  <2>7. /\ file.maps_shndx = 5 /\ file.bss_shndx = bss
        /\ \A k \in 1 .. 3 : A[at[k]].name = Declared[k]
        /\ ~ (bss < 0) => A[0].name = ".bss"
    BY <2>2 DEF Known, FileIs
  <2>8. DOMAIN at = 1 .. 3
    BY DEF SymbolAt
  <2>9. Declared = [k \in 1 .. 3 |-> Declared[k]]
    BY SMT DEF Declared
  <2>10. bss = -1 \/ bss = 4 \/ bss = 6
    OBVIOUS
  <2>11. gd \/ bss < 0
    BY <2>7 DEF Opens
  <2> HIDE DEF file, gd, A, at, maps
  <2>12. CASE bss = -1
    <3>1. bss < 0
      BY <2>12, SMT
    <3>2. ~ (bss >= 0)
      BY <2>12, SMT
    <3>3. order = at
      BY <2>7, <3>2 DEF FileOrder
    <3>4. names = [k \in 1 .. 3 |-> Declared[k]]
      <4> HIDE DEF order
      <4> QED BY <2>7, <2>8, <3>3
    <3>5. names = Declared
      <4> HIDE DEF names
      <4> QED BY <2>9, <3>4
    <3> HIDE DEF names
    <3>6. bss # 4
      BY <2>12, SMT
    <3> QED BY <2>4, <2>6, <2>7, <3>1, <3>5, <3>6 DEF file
  <2>13. CASE bss = 4
    <3>1. ~ (bss < 0) /\ bss >= 0 /\ bss < 5
      BY <2>13, SMT
    <3>2. order = [k \in 1 .. 3 + 1 |-> IF k = 1 THEN 0 ELSE at[k - 1]]
      BY <2>7, <2>11, <3>1 DEF FileOrder
    <3>3. 3 + 1 = 4 /\ \A k \in 1 .. 4 : k # 1 => k - 1 \in 1 .. 3
      BY SMT
    <3>4. names = [k \in 1 .. 4 |-> IF k = 1 THEN ".bss" ELSE Declared[k - 1]]
      <4>1. DOMAIN order = 1 .. 4
        BY <3>2, <3>3
      <4>2. ASSUME NEW k \in 1 .. 4 PROVE A[order[k]].name = IF k = 1 THEN ".bss" ELSE Declared[k - 1]
        BY <2>7, <3>1, <3>2, <3>3
      <4> HIDE DEF order
      <4> QED BY <4>1, <4>2
    <3>5. <<".bss">> \o Declared = [k \in 1 .. 4 |-> IF k = 1 THEN ".bss" ELSE Declared[k - 1]]
      BY SMT DEF Declared
    <3> HIDE DEF names
    <3> QED BY <2>4, <2>6, <2>7, <2>13, <3>1, <3>4, <3>5 DEF file
  <2>14. CASE bss = 6
    <3>1. ~ (bss < 0) /\ bss >= 0 /\ ~ (bss < 5) /\ bss # 4
      BY <2>14, SMT
    <3>2. order = [k \in 1 .. 3 + 1 |-> IF k = 3 + 1 THEN 0 ELSE at[k]]
      BY <2>7, <2>11, <3>1 DEF FileOrder
    <3>3. 3 + 1 = 4 /\ \A k \in 1 .. 4 : k # 4 => k \in 1 .. 3
      BY SMT
    <3>4. names = [k \in 1 .. 4 |-> IF k = 4 THEN ".bss" ELSE Declared[k]]
      <4>1. DOMAIN order = 1 .. 4
        BY <3>2, <3>3
      <4>2. ASSUME NEW k \in 1 .. 4 PROVE A[order[k]].name = IF k = 4 THEN ".bss" ELSE Declared[k]
        BY <2>7, <3>1, <3>2, <3>3
      <4> HIDE DEF order
      <4> QED BY <4>1, <4>2
    <3>5. Declared \o <<".bss">> = [k \in 1 .. 4 |-> IF k = 4 THEN ".bss" ELSE Declared[k]]
      BY SMT DEF Declared
    <3> HIDE DEF names
    <3> QED BY <2>4, <2>6, <2>7, <3>1, <3>4, <3>5 DEF file
  <2> QED BY <2>10, <2>12, <2>13, <2>14
<1> QED BY <1>1, ObjectInvariant, PTL

\* A load that fails leaves no descriptor in the object, pins nothing, and
\* leaves open the pins that it opened.
THEOREM FailedLoadAlwaysCloses == Spec => []FailedLoadCloses
<1>1. ASSUME ObjectInv PROVE FailedLoadCloses
  <2> SUFFICES ASSUME Opens, Fails
               PROVE  /\ \A k \in DOMAIN Loaded.obj.maps : Loaded.obj.maps[k].fd = Closed
                      /\ Loaded.obj.progs = <<>> /\ Loaded.pinned = o.pinned
                      /\ \A name \in o.wanted :
                           Loaded.map_fd[name] = IF PinOpens(name) THEN o.pinned[name] ELSE Closed
    BY DEF FailedLoadCloses
  <2>1. PICK perm \in Bijection(1 .. 3, 1 .. 3) : \E bss \in {-1, 4, 6} : Known(o.file, o.global_data, perm, bss)
    BY <1>1, ObjectKnown
  <2>2. PICK bss \in {-1, 4, 6} : Known(o.file, o.global_data, perm, bss)
    BY <2>1
  <2>3. o.global_data \in BOOLEAN
    BY <1>1, ObjectKnown
  <2> DEFINE maps == init_maps(o.file, o.global_data)
             reloc == collect_reloc(o.file, maps)
  <2>4. Opened = ObjectOf(maps, reloc, <<>>, o.file.progs, <<>>) /\ OpenMaps(maps)
    BY <2>2, <2>3, OpenIs DEF Known, Opened
  <2> HIDE DEF maps, reloc
  <2> DEFINE obj == ObjectOf(maps, reloc, <<>>, o.file.progs, <<>>)
  <2>5. XattrFails(Ready(obj, o.pinned, o.wanted, o.faults), o.bad)
    BY <2>4 DEF Fails, Ready
  <2>6. Loaded = bpf_prog_load_xattr_maps(obj, o.pinned, o.wanted, o.faults, 2, o.bad)
    BY <2>4 DEF Loaded
  <2>7. Undone(bpf_prog_load_xattr_maps(obj, o.pinned, o.wanted, o.faults, 2, o.bad), obj, o.pinned, o.wanted, o.faults)
    BY <2>4, <2>5, AnyFailedLoad, SMT
  <2> HIDE DEF obj
  <2>8. Undone(Loaded, obj, o.pinned, o.wanted, o.faults)
    BY <2>6, <2>7
  <2>9. \A name \in o.wanted : PinOpens(name) <=> HasMap(obj, name) /\ OpensPin(name, o.pinned, o.wanted, o.faults)
    BY <2>4 DEF PinOpens, OpensPin, obj
  <2> QED BY <2>8, <2>9 DEF Undone
<1> QED BY <1>1, ObjectInvariant, PTL

\* The pins that a run finds are of another run.
LEMMA PinnedIs ==
  ASSUME NEW names, NEW name \in Paths
  PROVE  Pinned(names)[name] = Closed \/ Pinned(names)[name] = [run |-> 1, name |-> name]
BY DEF Pinned

\* After a load that does not fail each instruction refers to the map with
\* the name of its symbol, reused or new, and what is reported of a wanted one
\* is at its pin.
THEOREM InsnsAlwaysPatched == Spec => []InsnsPatched
<1>1. ASSUME ObjectInv PROVE InsnsPatched
  <2> DEFINE sym(j) == o.file.symtab[o.file.rels[j]]
             name(j) == IF sym(j).name = "counter" THEN ".bss" ELSE sym(j).name
             fd(j) == [run |-> IF Reuses(name(j)) THEN 1 ELSE 2, name |-> name(j)]
  <2> SUFFICES ASSUME Opens, ~Fails, NEW j \in DOMAIN o.file.rels
               PROVE  /\ Loaded.obj.insns[j] = fd(j)
                      /\ name(j) \in o.wanted =>
                           LET reported == Loaded.map_fd[name(j)]
                           IN  /\ Loaded.pinned[name(j)] = IF reported = Closed THEN o.pinned[name(j)] ELSE reported
                               /\ reported # Closed => reported = Loaded.obj.insns[j] \/ (PinOpens(name(j)) /\ ~Reuses(name(j)))
    BY DEF InsnsPatched
  <2>1. PICK perm \in Bijection(1 .. 3, 1 .. 3) : \E bss \in {-1, 4, 6} : Known(o.file, o.global_data, perm, bss)
    BY <1>1, ObjectKnown
  <2>2. PICK bss \in {-1, 4, 6} : Known(o.file, o.global_data, perm, bss)
    BY <2>1
  <2>3. o.global_data \in BOOLEAN
    BY <1>1, ObjectKnown
  <2> DEFINE A == Added(o.file, o.global_data)
             i == o.file.rels[j]
             own == A[MapAt(o.file, i)].name
  <2>4. /\ FileWith(o.file, SymbolAt(perm), 3) /\ RelsTo(o.file, o.global_data) /\ UserMapsFit(o.file)
        /\ UniqueNames(A)
    BY <2>2 DEF Known
  <2>5. ~XattrFails(Ready(bpf_object__open(o.file, o.global_data, 0), o.pinned, o.wanted, o.faults), o.bad)
    BY DEF Fails, Opened, Ready
  <2>6. Loaded = bpf_prog_load_xattr_maps(bpf_object__open(o.file, o.global_data, 0), o.pinned, o.wanted, o.faults, 2, o.bad)
    BY DEF Loaded, Opened
  <2>7. Patched(Loaded, j, own, o.pinned, o.wanted, o.faults, 2)
    BY <2>3, <2>4, <2>5, <2>6, AnyInstruction, SMT
  <2>8. own = name(j) /\ own \in Paths
    <3>1. /\ MapSyms(o.file) = 2 .. 4
          /\ \A k \in 1 .. 3 : A[SymbolAt(perm)[k]].name = Declared[k]
          /\ \A l \in 2 .. 4 : \E k \in 1 .. 3 : l = SymbolAt(perm)[k]
          /\ ~ (bss < 0) => A[0].name = ".bss"
      BY <2>2 DEF Known
    <3>2. i \in 2 .. (IF bss < 0 THEN 4 ELSE 5) /\ (bss >= 0 => o.file.symtab[5] = BssSym(bss))
      BY <2>2 DEF Known, FileIs
    <3>3. \A l : l \in 2 .. (IF bss < 0 THEN 4 ELSE 5) => l \in 2 .. 4 \/ (~ (bss < 0) /\ bss >= 0 /\ l = 5 /\ l \notin 2 .. 4)
      BY SMT
    <3>4. \A l \in MapSyms(o.file) : A[l].name = o.file.symtab[l].name
      BY <2>3, AddedNames
    <3> HIDE DEF A, i
    <3>5. CASE i \in 2 .. 4
      <4>1. own = A[i].name /\ A[i].name = o.file.symtab[i].name
        BY <3>1, <3>4, <3>5 DEF MapAt
      <4>2. PICK k \in 1 .. 3 : i = SymbolAt(perm)[k]
        BY <3>1, <3>5
      <4>3. A[i].name = Declared[k]
        BY <3>1, <4>2
      <4>4. Declared[k] \in Paths /\ Declared[k] # "counter"
        BY Names3
      <4> QED BY <4>1, <4>3, <4>4 DEF i
    <3>6. CASE ~ (bss < 0) /\ bss >= 0 /\ i = 5 /\ i \notin 2 .. 4
      <4>1. own = A[0].name
        BY <3>1, <3>6 DEF MapAt
      <4>2. bss \in Int
        BY SMT
      <4>3. o.file.symtab[i].name = "counter"
        <5>1. o.file.symtab[5] = BssSym(bss)
          BY <3>2, <3>6
        <5>2. BssSym(bss).name = "counter"
          BY <4>2, SymFields
        <5> QED BY <3>6, <5>1, <5>2
      <4>4. own = ".bss"
        BY <3>1, <3>6, <4>1
      <4>5. name(j) = ".bss"
        BY <4>3 DEF i
      <4> QED BY <4>4, <4>5 DEF Paths
    <3> QED BY <3>2, <3>3, <3>5, <3>6
  <2>9. own \in DOMAIN o.pinned /\ (o.pinned[own] = Closed \/ o.pinned[own] = [run |-> 1, name |-> own])
    <3> HIDE DEF own
    <3>1. o.pinned \in {Pinned({}), Pinned({"logger"}), Pinned({"logger", "blacklist", "data"})}
      BY <1>1, ObjectKnown
    <3>2. PICK names : o.pinned = Pinned(names)
      BY <3>1
    <3>3. DOMAIN Pinned(names) = Paths
      BY DEF Pinned
    <3>4. Pinned(names)[own] = Closed \/ Pinned(names)[own] = [run |-> 1, name |-> own]
      BY <2>8, PinnedIs
    <3> QED BY <2>8, <3>2, <3>3, <3>4
  <2> DEFINE opens == OpensPin(own, o.pinned, o.wanted, o.faults)
             reuses == opens /\ <<"bpf_map__reuse_fd", own>> \notin o.faults
  <2>10. HasMap(Opened, own)
    <3> DEFINE maps == init_maps(o.file, o.global_data)
               reloc == collect_reloc(o.file, maps)
    <3>1. Opened = ObjectOf(maps, reloc, <<>>, o.file.progs, <<>>)
      BY <2>3, <2>4, OpenIs DEF Opened
    <3>2. reloc[j] \in DOMAIN maps /\ maps[reloc[j]] = A[MapAt(o.file, o.file.rels[j])]
      BY <2>3, <2>4, AnySymbol
    <3> HIDE DEF maps, reloc, A
    <3>3. ObjectOf(maps, reloc, <<>>, o.file.progs, <<>>).maps = maps
      BY SMT DEF ObjectOf
    <3> QED BY <3>1, <3>2, <3>3 DEF HasMap
  <2> HIDE DEF own
  <2>11. (PinOpens(own) <=> opens) /\ (Reuses(own) <=> reuses)
    BY <2>10 DEF PinOpens, Reuses, OpensPin
  <2>12. FdFor(own, o.pinned, o.wanted, o.faults, 2) = [run |-> IF reuses THEN 1 ELSE 2, name |-> own]
    BY <2>9 DEF FdFor, OpensPin
  <2> HIDE DEF name
  <2>13. /\ Loaded.obj.insns[j] = [run |-> IF reuses THEN 1 ELSE 2, name |-> own]
         /\ own \in o.wanted =>
              LET reported == Loaded.map_fd[own]
              IN  /\ Loaded.pinned[own] = IF reported = Closed THEN o.pinned[own] ELSE reported
                  /\ reported # Closed => reported = Loaded.obj.insns[j] \/ (opens /\ ~reuses)
    BY <2>7, <2>9, <2>12 DEF Patched
  <2> HIDE DEF opens, reuses
  <2> QED BY <2>8, <2>11, <2>13
<1> QED BY <1>1, ObjectInvariant, PTL
=============================================================================
