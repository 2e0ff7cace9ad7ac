------------------------------ MODULE TrayProofs ------------------------------
(***************************************************************************)
(* Proofs about Tray for any profiles, any reports about them, and any     *)
(* sizes of the root menu and of the submenus.                             *)
(***************************************************************************)
EXTENDS Tray, FiniteSetTheorems, SequenceTheorems, TLAPS

-----------------------------------------------------------------------------
(* The names of the profiles, in the order of the menu.                     *)

LEMMA PlacesFinite ==
    /\ Len(NameList) \in Nat
    /\ DOMAIN NameList = 1..Len(NameList)
    /\ Places \subseteq 1..Len(NameList)
    /\ IsFiniteSet(Places)
    /\ Cardinality(Places) \in Nat
<1>1. Len(NameList) \in Nat /\ DOMAIN NameList = 1..Len(NameList)
  BY TrayAssumption
<1>2. Places \subseteq 1..Len(NameList)
  BY <1>1 DEF Places
<1>3. IsFiniteSet(1..Len(NameList))
  BY <1>1, FS_Interval
<1>4. IsFiniteSet(Places)
  BY <1>2, <1>3, FS_Subset
<1>5. Cardinality(Places) \in Nat
  BY <1>4, FS_CardinalityType
<1> QED BY <1>1, <1>2, <1>4, <1>5

\* Ranks are 1 to the number of names, each is taken once.
LEMMA RankBijection ==
    /\ \A i \in Places : Rank(Places, i) \in 1..Cardinality(Places)
    /\ \A i, j \in Places : Rank(Places, i) = Rank(Places, j) => i = j
    /\ \A r \in 1..Cardinality(Places) : \E i \in Places : Rank(Places, i) = r
<1> DEFINE C == 1..Cardinality(Places)
           Upto(i) == {k \in Places : k <= i}
           rank == [i \in Places |-> Rank(Places, i)]
<1>1. ASSUME NEW i \in Places
      PROVE  /\ IsFiniteSet(Upto(i))
             /\ Rank(Places, i) \in C
             /\ Rank(Places, i) = Cardinality(Upto(i))
  <2>1. Upto(i) \in SUBSET Places /\ i \in Upto(i)
    BY PlacesFinite
  <2>2. IsFiniteSet(Upto(i)) /\ Cardinality(Upto(i)) <= Cardinality(Places)
    BY <2>1, PlacesFinite, FS_Subset
  <2>3. Cardinality(Upto(i)) \in Nat /\ Cardinality(Upto(i)) # 0
    BY <2>1, <2>2, FS_CardinalityType, FS_EmptySet
  <2> QED BY <2>2, <2>3, PlacesFinite DEF Rank
<1>2. ASSUME NEW i \in Places, NEW j \in Places, i < j PROVE Rank(Places, i) # Rank(Places, j)
  <2>1. Upto(i) \in SUBSET Upto(j) /\ j \in Upto(j) /\ j \notin Upto(i)
    <3>1. \A k \in Places : k \in Int
      BY PlacesFinite
    <3>2. \A k \in Places : k <= i => k <= j
      BY <1>2, <3>1
    <3>3. j <= j /\ ~(j <= i)
      BY <1>2, <3>1
    <3> QED BY <3>2, <3>3
  <2>2. Cardinality(Upto(i)) # Cardinality(Upto(j))
    BY <1>1, <2>1, FS_Subset
  <2> QED BY <1>1, <2>2
<1>3. \A i, j \in Places : Rank(Places, i) = Rank(Places, j) => i = j
  BY <1>2, PlacesFinite
<1>4. IsFiniteSet(C) /\ Cardinality(C) = Cardinality(Places)
  BY PlacesFinite, FS_Interval
<1>5. rank \in Injection(Places, C)
  BY <1>1, <1>3 DEF Injection, IsInjective
<1>6. rank \in Surjection(Places, C)
  BY <1>4, <1>5, FS_Injection
<1>7. \A r \in C : \E i \in Places : rank[i] = r
  BY <1>6 DEF Surjection
<1> QED BY <1>1, <1>3, <1>7

\* The names are those of the known profiles, each at one index.
LEMMA NamesListed ==
    /\ ProfileNames \in Seq(Known \cap Names)
    /\ Len(ProfileNames) = Cardinality(Places)
    /\ \A i, j \in 1..Len(ProfileNames) : ProfileNames[i] = ProfileNames[j] => i = j
    /\ \A n \in Known \cap Names : \E i \in 1..Len(ProfileNames) : ProfileNames[i] = n
<1> DEFINE at(r) == CHOOSE i \in Places : Rank(Places, i) = r
           C == 1..Cardinality(Places)
<1>1. ASSUME NEW r \in C PROVE at(r) \in Places /\ Rank(Places, at(r)) = r
  BY RankBijection
<1>2. \A i \in Places : Rank(Places, i) \in C /\ at(Rank(Places, i)) = i
  BY <1>1, RankBijection
<1>3. \A i \in Places : NameList[i] \in Known \cap Names
  BY DEF Places, Names
<1>4. ProfileNames = [r \in C |-> NameList[at(r)]]
  BY DEF ProfileNames, NamesAt
<1> HIDE DEF at
<1>5. ProfileNames \in [C -> Known \cap Names]
  BY <1>1, <1>3, <1>4
<1>6. ProfileNames \in Seq(Known \cap Names) /\ Len(ProfileNames) = Cardinality(Places)
  BY <1>5, PlacesFinite
<1>7. ASSUME NEW i \in C, NEW j \in C, ProfileNames[i] = ProfileNames[j] PROVE i = j
  <2>1. at(i) = at(j)
    BY <1>1, <1>4, <1>7, TrayAssumption DEF Places
  <2> QED BY <1>1, <2>1
<1>8. ASSUME NEW n \in Known \cap Names PROVE \E r \in C : ProfileNames[r] = n
  <2>1. PICK i \in DOMAIN NameList : NameList[i] = n
    BY DEF Names
  <2>2. i \in Places
    BY <2>1 DEF Places
  <2> QED BY <1>2, <1>4, <2>1, <2>2
<1> QED BY <1>6, <1>7, <1>8

-----------------------------------------------------------------------------
(* The cuts between the submenus.                                           *)

\* Whole multiples keep their order.
LEMMA Multiples ==
    ASSUME NEW g \in Nat, NEW h \in Nat, g < h
    PROVE  MaxSubmenu * g + MaxSubmenu <= MaxSubmenu * h
<1>1. MaxSubmenu \in Nat /\ h - g - 1 \in Nat
  BY TrayAssumption
<1>2. MaxSubmenu * (h - g - 1) >= 0
  BY <1>1
<1>3. MaxSubmenu * (h - g - 1) = MaxSubmenu * h - MaxSubmenu * g - MaxSubmenu
  BY <1>1
<1> QED BY <1>1, <1>2, <1>3

\* The entries of the list that submenu g shows.
Before(g) == MaxSubmenu * (g - 1)
InChunk(g, i) == Before(g) < i /\ i <= MaxSubmenu * g

Chunks(length) == 1..((length + MaxSubmenu - 1) \div MaxSubmenu)

\* Every index falls into one submenu, and no submenu is empty.
LEMMA ChunkOf ==
    ASSUME NEW length \in Nat
    PROVE  /\ \A i \in 1..length : \E g \in Chunks(length) : InChunk(g, i)
           /\ \A i \in 1..length, g, h \in Chunks(length) :
                 InChunk(g, i) /\ InChunk(h, i) => g = h
           /\ \A g \in Chunks(length) :
                 /\ Before(g) \in Nat /\ Before(g) < length
                 /\ MaxSubmenu * g = Before(g) + MaxSubmenu
<1> USE DEF Before, InChunk
<1> DEFINE G == (length + MaxSubmenu - 1) \div MaxSubmenu
<1>1. MaxSubmenu \in Nat \ {0}
  BY TrayAssumption
<1>2. /\ G \in Nat
      /\ MaxSubmenu * G <= length + MaxSubmenu - 1
      /\ length <= MaxSubmenu * G
  BY <1>1
<1>3. ASSUME NEW g \in Chunks(length)
      PROVE  /\ g - 1 \in Nat /\ g \in Nat
             /\ MaxSubmenu * (g - 1) \in Nat /\ MaxSubmenu * (g - 1) < length
             /\ MaxSubmenu * g = MaxSubmenu * (g - 1) + MaxSubmenu
  <2>1. g \in 1..G
    BY DEF Chunks
  <2>2. g \in Nat /\ g - 1 \in Nat /\ g - 1 < G
    BY <1>2, <2>1
  <2>3. MaxSubmenu * (g - 1) \in Nat /\ MaxSubmenu * g = MaxSubmenu * (g - 1) + MaxSubmenu
    BY <1>1, <2>2
  <2>4. MaxSubmenu * (g - 1) + MaxSubmenu <= MaxSubmenu * G
    BY <1>2, <2>2, Multiples
  <2> QED BY <1>1, <1>2, <2>2, <2>3, <2>4
<1>4. ASSUME NEW i \in 1..length
      PROVE  \E g \in Chunks(length) : MaxSubmenu * (g - 1) < i /\ i <= MaxSubmenu * g
  <2> DEFINE q == (i - 1) \div MaxSubmenu
  <2>1. q \in Nat /\ MaxSubmenu * q <= i - 1 /\ i - 1 < MaxSubmenu * q + MaxSubmenu
    BY <1>1
  <2>2. q < G
    <3> HIDE DEF q, G
    <3>1. CASE G < q
      <4>1. MaxSubmenu * G + MaxSubmenu <= MaxSubmenu * q
        BY <1>2, <2>1, <3>1, Multiples
      <4> QED BY <1>1, <1>2, <2>1, <4>1
    <3>2. CASE G = q
      BY <1>1, <1>2, <2>1, <3>2
    <3> QED BY <1>2, <2>1, <3>1, <3>2
  <2>3. q + 1 \in Chunks(length) /\ (q + 1) - 1 = q
    BY <1>2, <2>1, <2>2 DEF Chunks
  <2>4. MaxSubmenu * (q + 1) = MaxSubmenu * q + MaxSubmenu
    BY <1>3, <2>3
  <2> HIDE DEF q
  <2> QED BY <1>1, <2>1, <2>3, <2>4
<1>5. ASSUME NEW i \in 1..length, NEW g \in Chunks(length), NEW h \in Chunks(length),
             g < h, i <= MaxSubmenu * g
      PROVE  ~(MaxSubmenu * (h - 1) < i)
  <2>1. MaxSubmenu * g + MaxSubmenu <= MaxSubmenu * h
    BY <1>3, <1>5, Multiples
  <2> QED BY <1>1, <1>3, <1>5, <2>1
<1>6. \A g \in Chunks(length) : g \in Int
  BY <1>3
<1> QED BY <1>3, <1>4, <1>5, <1>6

\* The entry k of submenu g is the entry Before(g) + k of the list.
LEMMA SubmenuEntries ==
    ASSUME NEW S, NEW names \in Seq(S)
    PROVE  /\ Submenus(names) = [g \in Chunks(Len(names)) |-> Submenu(names, g)]
           /\ \A g \in Chunks(Len(names)) :
                 \E size \in Nat :
                    /\ DOMAIN Submenu(names, g) = 1..size
                    /\ \A k \in Int :
                          k \in 1..size <=> /\ Before(g) + k \in 1..Len(names)
                                            /\ InChunk(g, Before(g) + k)
                    /\ \A k \in 1..size : Submenu(names, g)[k] = names[Before(g) + k]
<1>1. Submenus(names) = [g \in Chunks(Len(names)) |-> Submenu(names, g)]
  BY DEF Submenus, Chunks
<1>2. ASSUME NEW g \in Chunks(Len(names))
      PROVE  \E size \in Nat :
                /\ DOMAIN Submenu(names, g) = 1..size
                /\ \A k \in Int :
                      k \in 1..size <=> /\ Before(g) + k \in 1..Len(names)
                                        /\ InChunk(g, Before(g) + k)
                /\ \A k \in 1..size : Submenu(names, g)[k] = names[Before(g) + k]
  <2> DEFINE end == MaxSubmenu * g
             last == IF end < Len(names) THEN end ELSE Len(names)
             size == last - Before(g)
  <2>1. Len(names) \in Nat /\ MaxSubmenu \in Nat \ {0}
    BY TrayAssumption
  <2>2. Before(g) \in Nat /\ Before(g) < Len(names) /\ end = Before(g) + MaxSubmenu
    BY <2>1, ChunkOf
  <2>3. Submenu(names, g) = SubSeq(names, Before(g) + 1, last)
    BY DEF Submenu, Before
  <2>4. \A i : InChunk(g, i) <=> Before(g) < i /\ i <= end
    BY DEF InChunk
  <2> HIDE DEF end
  <2>5. end \in Nat /\ last \in Nat /\ Before(g) < last /\ size \in Nat
    BY <2>1, <2>2
  <2>6. \A k \in Int : k \in 1..size <=> /\ Before(g) + k \in 1..Len(names)
                                          /\ InChunk(g, Before(g) + k)
    BY <2>1, <2>2, <2>4, <2>5
  <2>7. \A i \in (Before(g) + 1)..last : names[i] \in S
    BY <2>1, <2>2, <2>5
  <2> HIDE DEF last
  <2>8. /\ SubSeq(names, Before(g) + 1, last) \in Seq(S)
        /\ Len(SubSeq(names, Before(g) + 1, last)) = size
        /\ \A k \in 1..size : SubSeq(names, Before(g) + 1, last)[k] = names[Before(g) + k]
    BY <2>2, <2>5, <2>7, SubSeqProperties
  <2>9. DOMAIN SubSeq(names, Before(g) + 1, last) = 1..size
    BY <2>8
  <2> HIDE DEF size
  <2> QED BY <2>3, <2>5, <2>6, <2>8, <2>9
<1> QED BY <1>1, <1>2

-----------------------------------------------------------------------------
(* The rows of an up-to-date menu.                                          *)

\* The rows shown are those of the profiles known, each in one place.
RowsComplete ==
    /\ \A n \in Known : \E place \in RowPlaces(n) : RowPlaces(n) = {place}
    /\ RowsShown = {Row[n] : n \in Known}

LEMMA FlatMenu ==
    ASSUME Known \subseteq Names, NEW names \in Seq(Known),
           \A i, j \in 1..Len(names) : names[i] = names[j] => i = j,
           \A n \in Known : \E i \in 1..Len(names) : names[i] = n,
           menu.root = Rows(names), menu.submenus = <<>>
    PROVE  RowsComplete
<1>1. DOMAIN menu.root = 1..Len(names) /\ DOMAIN menu.submenus = {}
  BY DEF Rows
<1>2. ASSUME NEW i \in 1..Len(names)
      PROVE  menu.root[i] = Row[names[i]] /\ menu.root[i].name = names[i]
             /\ names[i] \in Known
  <2>1. names[i] \in Known
    OBVIOUS
  <2>2. menu.root[i] = Row[names[i]]
    BY DEF Rows
  <2>3. Row[names[i]].name = names[i]
    BY <2>1 DEF Row
  <2> QED BY <2>1, <2>2, <2>3
<1>3. ASSUME NEW n \in Known
      PROVE  \E place \in RowPlaces(n) : RowPlaces(n) = {place}
  <2>1. PICK i \in 1..Len(names) : names[i] = n
    OBVIOUS
  <2>2. /\ <<0, i>> \in RowPlaces(n)
        /\ \A place \in RowPlaces(n) :
              \E k \in 1..Len(names) : place = <<0, k>> /\ menu.root[k].name = n
    <3>1. menu.root[i].name = n
      BY <1>2, <2>1
    <3> QED BY <1>1, <3>1 DEF RowPlaces
  <2>3. ASSUME NEW k \in 1..Len(names), menu.root[k].name = n PROVE k = i
    <3>1. names[k] = names[i]
      BY <1>2, <2>1, <2>3
    <3> QED BY <3>1
  <2>4. RowPlaces(n) = {<<0, i>>}
    BY <2>2, <2>3
  <2> QED BY <2>4
<1>4. RowsShown = {Row[n] : n \in Known}
  <2>1. RowsShown = {menu.root[i] : i \in 1..Len(names)}
    BY <1>1 DEF RowsShown
  <2> QED BY <1>2, <2>1
<1> QED BY <1>3, <1>4 DEF RowsComplete

LEMMA OverflowMenu ==
    ASSUME Known \subseteq Names, NEW names \in Seq(Known),
           \A i, j \in 1..Len(names) : names[i] = names[j] => i = j,
           \A n \in Known : \E i \in 1..Len(names) : names[i] = n,
           menu.root = <<>>,
           menu.submenus = [g \in DOMAIN Submenus(names) |-> Rows(Submenus(names)[g])]
    PROVE  RowsComplete
<1> DEFINE G == Chunks(Len(names))
           sub == menu.submenus
<1>1. /\ DOMAIN menu.root = {}
      /\ DOMAIN sub = G
      /\ \A g \in G : sub[g] = Rows(Submenu(names, g))
  BY SubmenuEntries
<1> HIDE DEF sub
<1>2. Len(names) \in Nat
  OBVIOUS
<1>3. \A g \in G : Before(g) \in Nat
  BY <1>2, ChunkOf
<1>4. /\ \A i \in 1..Len(names) : \E g \in G : InChunk(g, i)
      /\ \A i \in 1..Len(names), g, h \in G :
            InChunk(g, i) /\ InChunk(h, i) => g = h
  BY <1>2, ChunkOf
<1>5. ASSUME NEW g \in G
      PROVE  /\ DOMAIN sub[g] \subseteq Int
             /\ \A k \in Int : k \in DOMAIN sub[g]
                   <=> /\ Before(g) + k \in 1..Len(names)
                       /\ InChunk(g, Before(g) + k)
             /\ \A k \in DOMAIN sub[g] :
                   /\ names[Before(g) + k] \in Known
                   /\ sub[g][k] = Row[names[Before(g) + k]]
                   /\ sub[g][k].name = names[Before(g) + k]
  <2>1. PICK size \in Nat :
            /\ DOMAIN Submenu(names, g) = 1..size
            /\ \A k \in Int : k \in 1..size
                  <=> /\ Before(g) + k \in 1..Len(names)
                      /\ InChunk(g, Before(g) + k)
            /\ \A k \in 1..size : Submenu(names, g)[k] = names[Before(g) + k]
    BY SubmenuEntries
  <2>2. DOMAIN sub[g] = 1..size /\ 1..size \subseteq Int
    BY <1>1, <2>1 DEF Rows
  <2>3. ASSUME NEW k \in 1..size
        PROVE  /\ names[Before(g) + k] \in Known
               /\ sub[g][k] = Row[names[Before(g) + k]]
               /\ sub[g][k].name = names[Before(g) + k]
    <3>1. Before(g) + k \in 1..Len(names)
      BY <2>1
    <3>2. names[Before(g) + k] \in Known
      BY <3>1
    <3>3. sub[g][k] = Row[names[Before(g) + k]]
      BY <1>1, <2>1 DEF Rows
    <3>4. Row[names[Before(g) + k]].name = names[Before(g) + k]
      BY <3>2 DEF Row
    <3> QED BY <3>2, <3>3, <3>4
  <2>4. \A k \in Int : k \in 1..size <=> /\ Before(g) + k \in 1..Len(names)
                                          /\ InChunk(g, Before(g) + k)
    BY <2>1
  <2> HIDE DEF G
  <2> QED BY <2>2, <2>3, <2>4
<1> HIDE DEF G
<1>6. ASSUME NEW i \in 1..Len(names)
      PROVE  \E g \in G : \E k \in DOMAIN sub[g] :
                Before(g) + k = i /\ sub[g][k].name = names[i]
                /\ sub[g][k] = Row[names[i]]
  <2>1. PICK g \in G : InChunk(g, i)
    BY <1>4
  <2>2. i - Before(g) \in Int /\ Before(g) + (i - Before(g)) = i
    BY <1>3
  <2>3. i - Before(g) \in DOMAIN sub[g]
    BY <1>5, <2>1, <2>2
  <2> QED BY <1>5, <2>2, <2>3
<1>7. ASSUME NEW n \in Known
      PROVE  \E place \in RowPlaces(n) : RowPlaces(n) = {place}
  <2>1. PICK i \in 1..Len(names) : names[i] = n
    OBVIOUS
  <2>2. PICK g \in G : \E k \in DOMAIN sub[g] :
            Before(g) + k = i /\ sub[g][k].name = names[i] /\ sub[g][k] = Row[names[i]]
    BY <1>6
  <2>3. PICK k \in DOMAIN sub[g] : Before(g) + k = i /\ sub[g][k].name = n
    BY <2>1, <2>2
  <2>4. <<g, k>> \in RowPlaces(n)
    BY <1>1, <2>3 DEF RowPlaces, sub
  <2>5. ASSUME NEW h \in G, NEW l \in DOMAIN sub[h], sub[h][l].name = n
        PROVE  h = g /\ l = k
    <3>1. k \in Int /\ l \in Int
      BY <1>5
    <3>2. Before(h) + l \in 1..Len(names) /\ names[Before(h) + l] = n
      BY <1>5, <2>5, <3>1
    <3>3. Before(h) + l = i
      BY <2>1, <3>2
    <3>4. InChunk(g, i) /\ InChunk(h, i)
      BY <1>5, <2>3, <3>1, <3>3
    <3>5. h = g
      BY <1>4, <3>4
    <3> QED BY <1>3, <2>3, <3>1, <3>3, <3>5
  <2>6. \A place \in RowPlaces(n) :
            \E h \in G : \E l \in DOMAIN sub[h] :
               place = <<h, l>> /\ sub[h][l].name = n
    BY <1>1 DEF RowPlaces, sub
  <2>7. \A place \in RowPlaces(n) : place = <<g, k>>
    <3> SUFFICES ASSUME NEW place \in RowPlaces(n) PROVE place = <<g, k>>
      OBVIOUS
    <3>1. PICK h \in G : \E l \in DOMAIN sub[h] : place = <<h, l>> /\ sub[h][l].name = n
      BY <2>6
    <3>2. PICK l \in DOMAIN sub[h] : place = <<h, l>> /\ sub[h][l].name = n
      BY <3>1
    <3> QED BY <2>5, <3>2
  <2>8. RowPlaces(n) = {<<g, k>>}
    BY <2>4, <2>7
  <2> QED BY <2>8
<1>8. RowsShown = {Row[n] : n \in Known}
  <2>1. \A row \in RowsShown : \E g \in G : \E k \in DOMAIN sub[g] :
            row = sub[g][k]
    BY <1>1 DEF RowsShown, sub
  <2>2. \A g \in G : \A k \in DOMAIN sub[g] : sub[g][k] \in RowsShown
    BY <1>1 DEF RowsShown, sub
  <2>3. \A row \in RowsShown : \E n \in Known : row = Row[n]
    BY <1>5, <2>1
  <2>4. \A n \in Known : Row[n] \in RowsShown
    BY <1>6, <2>2
  <2> QED BY <2>3, <2>4
<1> QED BY <1>7, <1>8 DEF RowsComplete

\* However the menu is cut, it has exactly one row for each profile.
LEMMA MenuComplete == Known \subseteq Names /\ menu = Menu => RowsComplete
<1> SUFFICES ASSUME Known \subseteq Names, menu = Menu PROVE RowsComplete
  OBVIOUS
<1> DEFINE names == ProfileNames
<1>1. /\ names \in Seq(Known)
      /\ \A i, j \in 1..Len(names) : names[i] = names[j] => i = j
      /\ \A n \in Known : \E i \in 1..Len(names) : names[i] = n
  <2>1. Known \cap Names = Known
    OBVIOUS
  <2> QED BY <2>1, NamesListed
<1>2. CASE Len(names) > MaxRoot
  <2>1. /\ menu.root = <<>>
        /\ menu.submenus = [g \in DOMAIN Submenus(names) |-> Rows(Submenus(names)[g])]
    BY <1>2 DEF Menu
  <2> QED BY <1>1, <2>1, OverflowMenu
<1>3. CASE ~(Len(names) > MaxRoot)
  <2>1. menu.root = Rows(names) /\ menu.submenus = <<>>
    BY <1>3 DEF Menu
  <2> QED BY <1>1, <2>1, FlatMenu
<1> QED BY <1>2, <1>3

LEMMA MenuCompleteNext == (Known \subseteq Names /\ menu = Menu => RowsComplete)'
BY MenuComplete, PTL

-----------------------------------------------------------------------------
(* What is shown depends on what is known only.                             *)

LEMMA RowsStay ==
    UNCHANGED menu =>
        /\ RowsShown' = RowsShown
        /\ \A n : RowPlaces(n)' = RowPlaces(n)
BY DEF RowsShown, RowPlaces

LEMMA MenuStays == UNCHANGED <<profiles, monitoring, globalError>> => Menu' = Menu
<1> SUFFICES ASSUME UNCHANGED <<profiles, monitoring, globalError>> PROVE Menu' = Menu
  OBVIOUS
<1>1. Known' = Known /\ FirstRowLabel' = FirstRowLabel
  BY DEF Known, FirstRowLabel
<1>2. \A n : ProfileLabel(n)' = ProfileLabel(n) /\ IsActionable(n)' = IsActionable(n)
  BY DEF ProfileLabel, IsActionable, EffectiveState
<1>3. Row' = Row
  BY <1>1, <1>2 DEF Row
<1>4. Places' = Places
  BY <1>1 DEF Places
<1>5. ProfileNames' = ProfileNames
  BY <1>4 DEF ProfileNames
<1>6. \A names : Rows(names)' = Rows(names)
  BY <1>3 DEF Rows
<1> QED BY <1>1, <1>5, <1>6 DEF Menu

LEMMA IconStays == UNCHANGED known => IconState' = IconState
<1> SUFFICES ASSUME UNCHANGED known PROVE IconState' = IconState
  OBVIOUS
<1>1. Known' = Known
  BY DEF Known, known
<1>2. \A n : EffectiveState(n)' = EffectiveState(n)
  BY DEF EffectiveState, known
<1>3. Effective' = Effective
  BY <1>1, <1>2 DEF Effective
<1> QED BY <1>1, <1>3 DEF IconState, known

-----------------------------------------------------------------------------
(* Types.                                                                   *)

KnownOK ==
    /\ Known \subseteq Names
    /\ profiles \in [Known -> [state : States, enabled : BOOLEAN]]

LEMMA NamesFinite ==
    ASSUME NEW S \in SUBSET Names
    PROVE  IsFiniteSet(S) /\ Cardinality(S) \in Nat
<1>1. IsFiniteSet(DOMAIN NameList)
  BY PlacesFinite, FS_Interval
<1>2. NameList \in [DOMAIN NameList -> Names]
  BY TrayAssumption DEF Names
<1>3. \A n \in Names : \E i \in DOMAIN NameList : NameList[i] = n
  BY DEF Names
<1>4. NameList \in Surjection(DOMAIN NameList, Names)
  BY <1>2, <1>3 DEF Surjection
<1>5. IsFiniteSet(Names)
  BY <1>1, <1>4, FS_Surjection
<1> QED BY <1>5, FS_Subset, FS_CardinalityType

\* What is shown of known profiles has its type, the menu included.
LEMMA ViewTypes ==
    ASSUME KnownOK
    PROVE  /\ OkProfiles \in Nat
           /\ Cardinality(Known) \in Nat
           /\ IconState \in IconStates
           /\ Menu.first \in {"show_error", "pause", "resume"}
           /\ menu = Menu => RowsShown \subseteq RowType
<1>1. OkProfiles \in Nat /\ Cardinality(Known) \in Nat
  <2>1. {n \in Known : EffectiveState(n) \in {"ok", "paused_ok"}} \in SUBSET Names
    BY DEF KnownOK
  <2> QED BY <2>1, NamesFinite DEF OkProfiles, KnownOK
<1>2. IconState \in IconStates
  BY DEF IconState, IconStates
<1>3. Menu.first \in {"show_error", "pause", "resume"}
  BY DEF Menu, FirstRowLabel
<1>4. ASSUME NEW n \in Known PROVE Row[n] \in RowType
  <2>1. ProfileLabel(n) \in {"syncing", "show_details", "global_pause", "resume", "pause"}
    BY DEF ProfileLabel
  <2>2. IsActionable(n) \in BOOLEAN
    BY DEF IsActionable
  <2>3. n \in Names
    BY DEF KnownOK
  <2> QED BY <2>1, <2>2, <2>3 DEF Row, RowType
<1>5. menu = Menu => RowsShown \subseteq RowType
  BY <1>4, MenuComplete DEF KnownOK, RowsComplete
<1> QED BY <1>1, <1>2, <1>3, <1>5

LEMMA ViewTypesNext ==
    KnownOK' => /\ OkProfiles' \in Nat
                /\ Cardinality(Known)' \in Nat
                /\ IconState' \in IconStates
                /\ Menu.first' \in {"show_error", "pause", "resume"}
                /\ menu' = Menu' => RowsShown' \subseteq RowType
<1>1. KnownOK => /\ OkProfiles \in Nat
                 /\ Cardinality(Known) \in Nat
                 /\ IconState \in IconStates
                 /\ Menu.first \in {"show_error", "pause", "resume"}
                 /\ menu = Menu => RowsShown \subseteq RowType
  BY ViewTypes
<1>2. (KnownOK => /\ OkProfiles \in Nat
                  /\ Cardinality(Known) \in Nat
                  /\ IconState \in IconStates
                  /\ Menu.first \in {"show_error", "pause", "resume"}
                  /\ menu = Menu => RowsShown \subseteq RowType)'
  BY <1>1, PTL
<1> QED BY <1>2

\* A new report, a toggle and the switches leave the statuses well formed.
LEMMA KnownStep == TypeOK /\ [Next]_vars => KnownOK'
<1> SUFFICES ASSUME TypeOK, [Next]_vars PROVE KnownOK'
  OBVIOUS
<1> USE DEF KnownOK
<1>1. KnownOK
  BY DEF TypeOK
<1>2. ASSUME UNCHANGED profiles PROVE KnownOK'
  BY <1>1, <1>2 DEF Known
<1>3. ASSUME NEW report \in Reports, UpdateProfile(report.name, report.status)
      PROVE  KnownOK'
  <2>1. report.name \in Names /\ report.status \in [state : States, enabled : BOOLEAN]
    BY TrayAssumption
  <2>2. profiles' = [k \in Known \cup {report.name} |->
                        IF k = report.name THEN report.status ELSE profiles[k]]
    BY <1>3 DEF UpdateProfile
  <2>3. Known' = Known \cup {report.name}
    BY <2>2 DEF Known
  <2> QED BY <1>1, <2>1, <2>2, <2>3
<1>4. ASSUME NEW n \in Names, NEW target \in BOOLEAN, ApplyProfileToggle(n, target)
      PROVE  KnownOK'
  <2> DEFINE status == [state |-> IF target /\ profiles[n].state = "ok"
                                     /\ ~profiles[n].enabled
                                  THEN "syncing" ELSE profiles[n].state,
                        enabled |-> target]
  <2>1. n \in Known /\ profiles' = [profiles EXCEPT ![n] = status]
    BY <1>4 DEF ApplyProfileToggle
  <2>2. status \in [state : States, enabled : BOOLEAN]
    BY <1>1, <2>1 DEF States
  <2>3. Known' = Known
    BY <1>1, <2>1 DEF Known
  <2> QED BY <1>1, <2>1, <2>2, <2>3
<1>5. CASE \/ SetInitialized \/ StopMonitoring \/ Close \/ ClickFirstRow
           \/ DelayedRebuild \/ UpdateTooltip \/ UNCHANGED vars
  BY <1>2, <1>5
  DEF vars, known, SetInitialized, StopMonitoring, Close, ClickFirstRow, Post,
      DelayedRebuild, UpdateTooltip
<1>6. ASSUME NEW row \in RowsShown, ClickRow(row) PROVE KnownOK'
  BY <1>2, <1>6 DEF ClickRow, Post, known
<1>7. ASSUME NEW b \in BOOLEAN, SetGlobalError(b) \/ ApplyToggle(b) PROVE KnownOK'
  BY <1>2, <1>7 DEF SetGlobalError, ApplyToggle
<1>8. ASSUME NEW n \in Names \cup {None}, NEW target \in BOOLEAN, DropToggle(n, target)
      PROVE  KnownOK'
  BY <1>2, <1>8 DEF DropToggle, known
<1> HIDE DEF KnownOK
<1> QED BY <1>3, <1>4, <1>5, <1>6, <1>7, <1>8 DEF Next

-----------------------------------------------------------------------------
(* What a step does to what is shown.                                       *)

\* A counter, an icon, a menu or a tooltip that a step does not bring up to date
\* is one that the step did not make stale, or has its timer running.
Refreshed ==
    /\ open' => open
    /\ okCount' = OkProfiles' \/ UNCHANGED <<okCount, profiles>>
    /\ \/ icon' = IconState' /\ open
       \/ UNCHANGED icon /\ (open' => UNCHANGED known)
    /\ \/ menu' = Menu'
       \/ UNCHANGED menu /\ Known' = Known /\ rebuilds' > 0
       \/ UNCHANGED <<menu, profiles, monitoring, globalError, rebuilds>>
    /\ \/ tooltipTimer' /\ UNCHANGED tooltip
       \/ tooltip' = Tooltip(okCount, icon) /\ UNCHANGED <<okCount, icon, known>>
       \/ UNCHANGED tooltip /\ ~open'
       \/ UNCHANGED <<tooltipTimer, tooltip, okCount, icon, known>>

LEMMA RefreshStep == TypeOK /\ [Next]_vars => Refreshed
<1> SUFFICES ASSUME TypeOK, [Next]_vars PROVE Refreshed
  OBVIOUS
<1> USE DEF Refreshed
<1>1. rebuilds \in Nat /\ open \in BOOLEAN /\ tooltipTimer \in BOOLEAN
  BY TrayAssumption DEF TypeOK
<1>2. UNCHANGED profiles => Known' = Known
  BY DEF Known
<1>3. ASSUME NEW report \in Reports, UpdateProfile(report.name, report.status)
      PROVE  Refreshed
  BY <1>1, <1>3 DEF UpdateProfile, Recount, RebuildMenu, UpdateIconState,
                    ThrottledTooltipUpdate
<1>4. ASSUME NEW b \in BOOLEAN, SetInitialized \/ SetGlobalError(b) \/ StopMonitoring
      PROVE  Refreshed
  BY <1>1, <1>4 DEF SetInitialized, SetGlobalError, StopMonitoring, RebuildMenu,
                    UpdateIconState, ThrottledTooltipUpdate
<1>5. ASSUME NEW target \in BOOLEAN, ApplyToggle(target) PROVE Refreshed
  BY <1>1, <1>2, <1>5 DEF ApplyToggle, ScheduleRebuild, UpdateIconState,
                          ThrottledTooltipUpdate
<1>6. ASSUME NEW n \in Names, NEW target \in BOOLEAN, ApplyProfileToggle(n, target)
      PROVE  Refreshed
  <2>1. Known' = Known
    BY <1>6 DEF ApplyProfileToggle, Known, TypeOK
  <2>2. rebuilds' > 0
    BY <1>1, <1>6 DEF ApplyProfileToggle, ScheduleRebuild
  <2> QED
    BY <1>1, <1>6, <2>1, <2>2
    DEF ApplyProfileToggle, Recount, UpdateIconState, ThrottledTooltipUpdate
<1>7. CASE Close \/ DelayedRebuild \/ UpdateTooltip
  BY <1>1, <1>7 DEF Close, DelayedRebuild, UpdateTooltip, RebuildMenu, known, shown
<1>8. CASE ClickFirstRow \/ UNCHANGED vars
  BY <1>1, <1>8 DEF ClickFirstRow, Post, known, shown, events, vars
<1>9. ASSUME NEW row \in RowsShown, ClickRow(row) PROVE Refreshed
  BY <1>1, <1>9 DEF ClickRow, Post, known, shown
<1>10. ASSUME NEW n \in Names \cup {None}, NEW target \in BOOLEAN, DropToggle(n, target)
       PROVE  Refreshed
  BY <1>1, <1>10 DEF DropToggle, known, shown
<1> HIDE DEF Refreshed
<1> QED BY <1>3, <1>4, <1>5, <1>6, <1>7, <1>8, <1>9, <1>10 DEF Next

-----------------------------------------------------------------------------
(* The type invariant.                                                      *)

Flags ==
    /\ open \in BOOLEAN
    /\ monitoring \in BOOLEAN
    /\ initialized \in BOOLEAN
    /\ globalError \in BOOLEAN
    /\ tooltipTimer \in BOOLEAN
    /\ rebuilds \in 0..MaxRebuilds
    /\ pending \in Seq([profile : Names \cup {None}, target : BOOLEAN])

LEMMA FlagsStep == TypeOK /\ [Next]_vars => Flags'
<1> SUFFICES ASSUME TypeOK, [Next]_vars PROVE Flags'
  OBVIOUS
<1> USE DEF Flags
<1>1. Flags
  BY DEF TypeOK
<1>2. MaxRebuilds \in Nat
  BY TrayAssumption
<1>3. pending # <<>> => Tail(pending) \in Seq([profile : Names \cup {None}, target : BOOLEAN])
  BY <1>1
<1>4. ASSUME NEW n \in Names \cup {None}, NEW effect
      PROVE  Append(pending, [profile |-> n, target |-> effect = "resume"])
                \in Seq([profile : Names \cup {None}, target : BOOLEAN])
  <2>1. [profile |-> n, target |-> effect = "resume"]
            \in [profile : Names \cup {None}, target : BOOLEAN]
    OBVIOUS
  <2> QED BY <1>1, <2>1
<1>5. CASE \/ \E report \in Reports : UpdateProfile(report.name, report.status)
           \/ \E error \in BOOLEAN : SetGlobalError(error)
           \/ SetInitialized \/ StopMonitoring \/ Close
           \/ DelayedRebuild \/ UpdateTooltip \/ UNCHANGED vars
  <2>1. /\ UNCHANGED pending
        /\ \/ UNCHANGED rebuilds
           \/ rebuilds > 0 /\ rebuilds' = rebuilds - 1
    BY <1>5
    DEF UpdateProfile, SetGlobalError, SetInitialized, StopMonitoring, Close,
        DelayedRebuild, UpdateTooltip, vars, events
  <2>2. rebuilds' \in 0..MaxRebuilds
    BY <1>1, <1>2, <2>1
  <2>3. /\ open' \in BOOLEAN /\ monitoring' \in BOOLEAN /\ initialized' \in BOOLEAN
        /\ globalError' \in BOOLEAN /\ tooltipTimer' \in BOOLEAN
    BY <1>1, <1>5
    DEF UpdateProfile, SetGlobalError, SetInitialized, StopMonitoring, Close,
        DelayedRebuild, UpdateTooltip, ThrottledTooltipUpdate, vars, known, events
  <2> QED BY <1>1, <2>1, <2>2, <2>3
<1>6. ASSUME NEW n \in Names \cup {None}, NEW effect, Post(n, effect) PROVE Flags'
  <2>1. pending' \in Seq([profile : Names \cup {None}, target : BOOLEAN])
    BY <1>4, <1>6 DEF Post
  <2>2. UNCHANGED <<open, monitoring, initialized, globalError, tooltipTimer, rebuilds>>
    BY <1>6 DEF Post, known
  <2> QED BY <1>1, <2>1, <2>2
<1>7. ASSUME NEW n \in Names \cup {None}, NEW target \in BOOLEAN,
             \/ ApplyToggle(target) \/ ApplyProfileToggle(n, target) \/ DropToggle(n, target)
      PROVE  Flags'
  <2>1. pending' \in Seq([profile : Names \cup {None}, target : BOOLEAN])
    BY <1>3, <1>7 DEF ApplyToggle, ApplyProfileToggle, DropToggle, TakeToggle
  <2>2. rebuilds' \in 0..MaxRebuilds
    BY <1>1, <1>2, <1>7 DEF ApplyToggle, ApplyProfileToggle, DropToggle, ScheduleRebuild
  <2>3. monitoring' \in BOOLEAN /\ tooltipTimer' \in BOOLEAN
    BY <1>1, <1>7 DEF ApplyToggle, ApplyProfileToggle, DropToggle, ThrottledTooltipUpdate,
                      known
  <2>4. UNCHANGED <<open, initialized, globalError>>
    BY <1>7 DEF ApplyToggle, ApplyProfileToggle, DropToggle, known
  <2> QED BY <1>1, <2>1, <2>2, <2>3, <2>4
<1>8. ASSUME NEW row \in RowsShown, ClickRow(row) PROVE Flags'
  <2>1. row.name \in Names
    BY DEF TypeOK, RowType
  <2> QED BY <1>6, <1>8, <2>1 DEF ClickRow
<1> HIDE DEF Flags
<1> QED BY <1>5, <1>6, <1>7, <1>8 DEF Next, ClickFirstRow

LEMMA InitTypeOK == Init => TypeOK
<1> SUFFICES ASSUME Init PROVE TypeOK
  OBVIOUS
<1>1. KnownOK
  BY DEF Init, KnownOK, Known
<1>2. /\ IconState \in IconStates
      /\ Cardinality(Known) \in Nat
      /\ Menu.first \in {"show_error", "pause", "resume"}
      /\ RowsShown \subseteq RowType
  BY <1>1, ViewTypes DEF Init
<1>3. Flags
  <2>1. 0 \in 0..MaxRebuilds
    BY TrayAssumption
  <2>2. <<>> \in Seq([profile : Names \cup {None}, target : BOOLEAN])
    OBVIOUS
  <2> QED BY <2>1, <2>2 DEF Init, Flags
<1>4. /\ okCount \in Nat /\ icon \in IconStates
      /\ menu.first \in {"show_error", "pause", "resume"}
      /\ tooltip.state \in IconStates /\ tooltip.ok \in Nat /\ tooltip.total \in Nat
  BY <1>2 DEF Init, Tooltip
<1> QED BY <1>1, <1>2, <1>3, <1>4 DEF TypeOK, KnownOK, Flags

LEMMA TypeStep == TypeOK /\ [Next]_vars => TypeOK'
<1> SUFFICES ASSUME TypeOK, [Next]_vars PROVE TypeOK'
  OBVIOUS
<1>1. KnownOK' /\ Flags' /\ Refreshed
  BY KnownStep, FlagsStep, RefreshStep
<1>2. okCount' \in Nat /\ icon' \in IconStates
  BY <1>1, ViewTypesNext DEF TypeOK, Refreshed
<1>3. menu.first' \in {"show_error", "pause", "resume"} /\ RowsShown' \subseteq RowType
  BY <1>1, ViewTypesNext, RowsStay DEF TypeOK, Refreshed
<1>4. tooltip'.state \in IconStates /\ tooltip'.ok \in Nat /\ tooltip'.total \in Nat
  <2>1. Cardinality(Known) \in Nat
    BY NamesFinite DEF TypeOK
  <2> QED BY <1>1, <2>1 DEF TypeOK, Refreshed, Tooltip
<1> QED BY <1>1, <1>2, <1>3, <1>4 DEF TypeOK, KnownOK, Flags

\* Every variable of the tray keeps its type: the rows of a stale menu name
\* profiles, and what is posted can be applied.
THEOREM TrayTypeCorrect == Spec => []TypeOK
BY InitTypeOK, TypeStep, PTL DEF Spec

-----------------------------------------------------------------------------
(* Nothing shown stays out of date.                                         *)

\* A pause does not change which profiles count as OK.
Healthy == {n \in Known : profiles[n].state = "ok"}

LEMMA OkProfilesCount == KnownOK => OkProfiles = Cardinality(Healthy)
<1> SUFFICES ASSUME KnownOK PROVE OkProfiles = Cardinality(Healthy)
  OBVIOUS
<1>1. ASSUME NEW n \in Known
      PROVE  EffectiveState(n) \in {"ok", "paused_ok"} <=> profiles[n].state = "ok"
  <2>1. profiles[n].state \in States
    BY DEF KnownOK
  <2> QED BY <2>1 DEF EffectiveState, States
<1>2. {n \in Known : EffectiveState(n) \in {"ok", "paused_ok"}} = Healthy
  BY <1>1 DEF Healthy
<1> QED BY <1>2 DEF OkProfiles

LEMMA OkProfilesCountNext == KnownOK' => OkProfiles' = Cardinality(Healthy)'
<1>1. (KnownOK => OkProfiles = Cardinality(Healthy))'
  BY OkProfilesCount, PTL
<1> QED BY <1>1

\* ViewsAreFresh, with the counter the tooltip is made from.
ViewsInv ==
    open =>
        /\ okCount = OkProfiles
        /\ icon = IconState
        /\ rebuilds = 0 => menu = Menu
        /\ ~tooltipTimer => tooltip = Tooltip(okCount, icon)

LEMMA ViewsStep == TypeOK /\ ViewsInv /\ [Next]_vars => ViewsInv'
<1> SUFFICES ASSUME TypeOK, ViewsInv, [Next]_vars, open' PROVE ViewsInv'
  BY DEF ViewsInv
<1>1. /\ Refreshed /\ open /\ KnownOK /\ KnownOK'
      /\ okCount = OkProfiles /\ icon = IconState
      /\ rebuilds = 0 => menu = Menu
      /\ ~tooltipTimer => tooltip = Tooltip(okCount, icon)
  BY RefreshStep, KnownStep DEF Refreshed, ViewsInv, TypeOK, KnownOK
<1>2. okCount' = OkProfiles'
  <2>1. CASE UNCHANGED <<okCount, profiles>>
    <3>1. Healthy' = Healthy
      BY <2>1 DEF Healthy, Known
    <3> QED BY <1>1, <2>1, <3>1, OkProfilesCount, OkProfilesCountNext
  <2> QED BY <1>1, <2>1 DEF Refreshed
<1>3. icon' = IconState'
  BY <1>1, IconStays DEF Refreshed
<1>4. rebuilds' = 0 => menu' = Menu'
  BY <1>1, MenuStays DEF Refreshed
<1>5. ~tooltipTimer' => tooltip' = Tooltip(okCount, icon)'
  <2>1. UNCHANGED <<okCount, icon, known>> => Tooltip(okCount, icon)' = Tooltip(okCount, icon)
    BY DEF Tooltip, Known, known
  <2> QED BY <1>1, <2>1 DEF Refreshed
<1> QED BY <1>2, <1>3, <1>4, <1>5 DEF ViewsInv

LEMMA ViewsInvariance == Spec => [](TypeOK /\ ViewsInv)
<1>1. Init => ViewsInv
  <2> SUFFICES ASSUME Init PROVE ViewsInv
    OBVIOUS
  <2>1. {n \in Known : EffectiveState(n) \in {"ok", "paused_ok"}} = {}
    BY DEF Init, Known
  <2>2. OkProfiles = 0
    BY <2>1, FS_EmptySet DEF OkProfiles
  <2> QED BY <2>2 DEF Init, ViewsInv
<1> QED BY <1>1, InitTypeOK, TypeStep, ViewsStep, PTL DEF Spec

\* Of an open tray the icon is always right, the menu is unless a rebuild is
\* scheduled, the tooltip unless its timer runs.
THEOREM TrayViewsAreFresh == Spec => []ViewsAreFresh
<1>1. TypeOK /\ ViewsInv => ViewsAreFresh
  <2> SUFFICES ASSUME TypeOK, ViewsInv, open PROVE ViewsAreFresh
    BY DEF ViewsAreFresh
  <2>1. OkProfiles = Cardinality({n \in Known : profiles[n].state = "ok"})
    BY OkProfilesCount DEF TypeOK, KnownOK, Healthy
  <2> QED BY <2>1 DEF ViewsInv, ViewsAreFresh, Tooltip
<1> QED BY <1>1, ViewsInvariance, PTL

-----------------------------------------------------------------------------
(* The icon shows the worst state.                                          *)

LEMMA EffectiveFacts ==
    ASSUME KnownOK
    PROVE  /\ \A state \in {"error", "warning", "syncing"} :
                 state \in Effective <=> \E n \in Known : profiles[n].state = state
           /\ "ok" \in Effective <=>
                 monitoring /\ \E n \in Known : profiles[n].state = "ok" /\ profiles[n].enabled
           /\ Effective \subseteq ShownStates
           /\ Known # {} => Effective # {}
<1>1. ASSUME NEW n \in Known
      PROVE  /\ profiles[n].state \in States /\ profiles[n].enabled \in BOOLEAN
             /\ \A state \in {"error", "warning", "syncing"} :
                   EffectiveState(n) = state <=> profiles[n].state = state
             /\ EffectiveState(n) = "ok" <=>
                   monitoring /\ profiles[n].state = "ok" /\ profiles[n].enabled
             /\ EffectiveState(n) \in ShownStates
  <2>1. profiles[n].state \in States /\ profiles[n].enabled \in BOOLEAN
    BY DEF KnownOK
  <2> QED BY <2>1 DEF EffectiveState, States, ShownStates
<1> QED BY <1>1 DEF Effective

LEMMA IconTells == TypeOK /\ ViewsInv => IconTellsWorst
<1> SUFFICES ASSUME TypeOK, ViewsInv, open PROVE IconTellsWorst
  BY DEF IconTellsWorst
<1> DEFINE states == {profiles[n].state : n \in Known}
           healthy == {n \in Known : profiles[n].state = "ok"}
<1>1. KnownOK /\ icon = IconState
  BY DEF TypeOK, KnownOK, ViewsInv
<1>2. /\ "error" \in Effective <=> "error" \in states
      /\ "warning" \in Effective <=> "warning" \in states
  BY <1>1, EffectiveFacts
<1>3. Known # {} /\ Effective # {"paused_ok"} /\ states = {"ok"}
      => \E n \in healthy : profiles[n].enabled
  <2> SUFFICES ASSUME Known # {}, Effective # {"paused_ok"}, states = {"ok"}
               PROVE  "ok" \in Effective
    BY <1>1, EffectiveFacts
  <2>1. \A n \in Known : profiles[n].state = "ok"
    OBVIOUS
  <2>2. "error" \notin Effective /\ "warning" \notin Effective /\ "syncing" \notin Effective
    BY <1>1, <2>1, EffectiveFacts
  <2>3. Effective \subseteq {"ok", "paused_ok"} /\ Effective # {}
    BY <1>1, <2>2, EffectiveFacts DEF ShownStates, States
  <2> QED BY <2>3
<1>4. globalError \/ "error" \in states => icon = "error"
  BY <1>1, <1>2 DEF IconState
<1>5. icon = "normal" => ~initialized
  BY <1>1 DEF IconState
<1>6. icon \in {"paused", "working"} => initialized /\ "warning" \notin states
  BY <1>1, <1>2 DEF IconState
<1>7. icon = "working" => monitoring /\ Known # {} /\ Effective # {"paused_ok"}
  BY <1>1 DEF IconState
<1>8. icon = "error" => globalError \/ "error" \in states \/ Known = {}
  BY <1>1, <1>2 DEF IconState
<1> QED BY <1>3, <1>4, <1>5, <1>6, <1>7, <1>8 DEF IconTellsWorst

\* No toggle, report or startup order lets a milder state hide a worse one.
THEOREM IconIsWorst == Spec => []IconTellsWorst
BY ViewsInvariance, IconTells, PTL

-----------------------------------------------------------------------------
(* One row for each profile, which does what it says.                       *)

LEMMA MenuHasRows == KnownOK /\ menu = Menu => EveryProfileHasOneRow
<1> SUFFICES ASSUME KnownOK, menu = Menu PROVE EveryProfileHasOneRow
  OBVIOUS
<1>1. RowsComplete
  BY MenuComplete DEF KnownOK
<1>2. \A n \in Known : Row[n].name = n
  BY DEF Row
<1> QED BY <1>1, <1>2 DEF RowsComplete, EveryProfileHasOneRow

LEMMA MenuHasRowsNext == KnownOK' /\ menu' = Menu' => EveryProfileHasOneRow'
<1>1. (KnownOK /\ menu = Menu => EveryProfileHasOneRow)'
  BY MenuHasRows, PTL
<1> QED BY <1>1

\* Also a menu that awaits its rebuild has exactly one row for each profile and
\* none for another: the list changes only together with the menu.
THEOREM OneRowEach == Spec => []EveryProfileHasOneRow
<1>1. Init => EveryProfileHasOneRow
  <2> SUFFICES ASSUME Init PROVE EveryProfileHasOneRow
    OBVIOUS
  <2>1. KnownOK /\ menu = Menu
    BY InitTypeOK DEF TypeOK, KnownOK, Init
  <2> QED BY <2>1, MenuHasRows
<1>2. TypeOK /\ EveryProfileHasOneRow /\ [Next]_vars => EveryProfileHasOneRow'
  <2> SUFFICES ASSUME TypeOK, EveryProfileHasOneRow, [Next]_vars
               PROVE  EveryProfileHasOneRow'
    OBVIOUS
  <2>1. KnownOK' /\ Refreshed
    BY KnownStep, RefreshStep
  <2>2. menu' = Menu' \/ (UNCHANGED menu /\ Known' = Known)
    BY <2>1 DEF Refreshed, Known
  <2>3. CASE UNCHANGED menu /\ Known' = Known
    BY <2>3, RowsStay DEF EveryProfileHasOneRow
  <2> QED BY <2>1, <2>2, <2>3, MenuHasRowsNext
<1> QED BY <1>1, <1>2, InitTypeOK, TypeStep, PTL DEF Spec

LEMMA RowsTell == TypeOK /\ ViewsInv => RowsDoWhatTheySay
<1> SUFFICES ASSUME TypeOK, ViewsInv, open, rebuilds = 0 PROVE RowsDoWhatTheySay
  BY DEF RowsDoWhatTheySay
<1>1. KnownOK /\ menu = Menu
  BY DEF TypeOK, KnownOK, ViewsInv
<1>2. menu.first = FirstRowEffect
  BY <1>1 DEF Menu, FirstRowLabel, FirstRowEffect
<1>3. ASSUME NEW n \in Known
      PROVE  IF IsActionable(n)
             THEN ProfileLabel(n) = RowEffect(n)
             ELSE /\ ProfileLabel(n) \notin {"pause", "resume", "show_details"}
                  /\ RowEffect(n) = "nothing"
  <2>1. profiles[n].state \in States /\ profiles[n].enabled \in BOOLEAN
        /\ monitoring \in BOOLEAN
    BY <1>1 DEF TypeOK, KnownOK
  <2>2. CASE profiles[n].state = "ok"
    BY <2>1, <2>2 DEF IsActionable, ProfileLabel, RowEffect, EffectiveState
  <2>3. CASE profiles[n].state # "ok"
    BY <2>1, <2>3 DEF IsActionable, ProfileLabel, RowEffect, EffectiveState, States
  <2> QED BY <2>2, <2>3
<1>4. RowsShown = {Row[n] : n \in Known}
  BY <1>1, MenuComplete DEF KnownOK, RowsComplete
<1>5. ASSUME NEW row \in RowsShown
      PROVE  IF row.actionable
             THEN row.label = RowEffect(row.name)
             ELSE /\ row.label \notin {"pause", "resume", "show_details"}
                  /\ RowEffect(row.name) = "nothing"
  <2>1. PICK n \in Known : row = Row[n]
    BY <1>4
  <2>2. row.name = n /\ row.label = ProfileLabel(n) /\ row.actionable = IsActionable(n)
    BY <2>1 DEF Row
  <2> QED BY <1>3, <2>2
<1> QED BY <1>2, <1>5 DEF RowsDoWhatTheySay

\* The label, the enablement and the effect of every row of an up-to-date menu
\* agree, for every combination of a profile's state and the two pauses.
THEOREM RowsAreHonest == Spec => []RowsDoWhatTheySay
BY ViewsInvariance, RowsTell, PTL
=============================================================================
