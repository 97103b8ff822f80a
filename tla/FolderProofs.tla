---------------------------- MODULE FolderProofs ----------------------------
(***************************************************************************)
(* The local file browser implements Folder: for every file system and     *)
(* every interleaving of the finder with the clicks, a listing that was    *)
(* not torn is complete, without repetition and sorted.                    *)
(***************************************************************************)
EXTENDS TracksProofs, Functions

Working == {"clear", "read", "halted", "sort", "sorted"}
Filled  == 0 .. total_num_files - 1   \* the slots in use

(* The order of the entries: not being before is total and transitive.     *)
LEMMA OrderTransitive ==
  ASSUME NEW a \in Browser!Entries, NEW b \in Browser!Entries, NEW c \in Browser!Entries,
         ~Browser!Before(b, a), ~Browser!Before(c, b)
  PROVE  ~Browser!Before(c, a)
<1>1. Rank[a.name] \in Nat /\ Rank[b.name] \in Nat /\ Rank[c.name] \in Nat
  BY FolderAssumption DEF Browser!Entries
<1>2. a.isfolder \in BOOLEAN /\ b.isfolder \in BOOLEAN /\ c.isfolder \in BOOLEAN
  BY DEF Browser!Entries
<1> QED
  BY <1>1, <1>2 DEF Browser!Before

LEMMA OrderAsymmetric ==
  ASSUME NEW a \in Browser!Entries, NEW b \in Browser!Entries, Browser!Before(a, b)
  PROVE  ~Browser!Before(b, a)
<1>1. Rank[a.name] \in Nat /\ Rank[b.name] \in Nat
  BY FolderAssumption DEF Browser!Entries
<1>2. a.isfolder \in BOOLEAN /\ b.isfolder \in BOOLEAN
  BY DEF Browser!Entries
<1> QED
  BY <1>1, <1>2 DEF Browser!Before

LEMMA OrderReflexive == ASSUME NEW a \in Browser!Entries PROVE ~Browser!Before(a, a)
  BY OrderAsymmetric

-----------------------------------------------------------------------------
(* Where the finder is, and what was changed under its hands.              *)
BusyInv ==
  /\ finder \in Working => parsing_dir
  /\ finder \in {"read", "sort"} /\ halt => torn
  /\ finder \in {"clear", "read"} /\ ~torn =>
       dir.at = current_path /\ dir.unread \subseteq Contents[current_path]
  /\ finder = "clear" /\ ~torn => dir.unread = Contents[current_path]

EntriesInv == \A i \in 0 .. filled - 1 : list_mem[i] \in Browser!Entries

Distinct == \A i, k \in Filled : i # k => list_mem[i] # list_mem[k]

Shown(x) == x \in Folders \cup Tracks

(* While the folder is read: one slot for each of its entries so far.      *)
ReadInv ==
  finder = "read" /\ ~torn =>
    /\ Distinct
    /\ \A i \in Filled : \E x \in Contents[current_path] \ dir.unread :
         Shown(x) /\ list_mem[i] = Browser!Entry(current_path, x)
    /\ \A x \in Contents[current_path] \ dir.unread :
         Shown(x) => \E i \in Filled : list_mem[i] = Browser!Entry(current_path, x)

(* When it was read: all of it, or as much as there are slots.             *)
WholeInv ==
  finder \in {"halted", "sort", "sorted"} /\ ~torn =>
    /\ Distinct
    /\ \A i \in Filled : list_mem[i] \in Browser!Listed(current_path)
    /\ total_num_files =
         Browser!AtMost(Cardinality(Browser!Listed(current_path)), MaxItems - 1)

(* The bubble sort: what is behind n is in place, the largest so far is in *)
(* hand, and what a pass has left alone is in order.                       *)
InOrder(i, k) == ~Browser!Before(list_mem[k], list_mem[i])

BubbleInv ==
  finder = "sort" =>
    /\ \A i, k \in Filled : i < k /\ n <= k => InOrder(i, k)
    /\ \A i \in Filled : i < j => InOrder(i, j - 1)
    /\ ~swapped => \A i, k \in Filled : i < k /\ k < j => InOrder(i, k)

SortedInv ==
  finder = "sorted" /\ ~torn => \A i, k \in Filled : i < k => InOrder(i, k)

LInv == BusyInv /\ EntriesInv /\ ReadInv /\ WholeInv /\ BubbleInv /\ SortedInv

LEMMA InitLInv == Init => LInv
  BY DEF Init, FilesInit, LInv, BusyInv, EntriesInv, ReadInv, WholeInv, BubbleInv,
         SortedInv, Working

-----------------------------------------------------------------------------
(* The steps of the finder.                                                *)
LEMMA BusyStep == TInv /\ BusyInv /\ Finder => BusyInv' /\ UNCHANGED <<current_path, torn>>
<1> SUFFICES ASSUME TInv, BusyInv, Finder PROVE BusyInv' /\ UNCHANGED <<current_path, torn>>
  OBVIOUS
<1> USE FolderAssumption
    DEF BusyInv, Working, pathvars, TInv, TypeOK, PathTypes, FinderTypes
<1>1. CASE FinderOpen
  BY <1>1 DEF FinderOpen
<1>2. CASE FinderClear
  BY <1>2 DEF FinderClear
<1>3. CASE FinderRead
  BY <1>3 DEF FinderRead
<1>4. CASE FinderEnd
  BY <1>4 DEF FinderEnd
<1>5. CASE FinderHalted
  BY <1>5 DEF FinderHalted
<1>6. CASE FinderCompare
  BY <1>6 DEF FinderCompare
<1>7. CASE FinderPass
  BY <1>7 DEF FinderPass
<1>8. CASE FinderDone
  BY <1>8 DEF FinderDone
<1>9. CASE FinderExit
  BY <1>9 DEF FinderExit
<1> QED
  BY <1>1, <1>2, <1>3, <1>4, <1>5, <1>6, <1>7, <1>8, <1>9 DEF Finder

(* What reading one more entry does to the list.                           *)
LEMMA ReadStep ==
  ASSUME TInv, BusyInv, EntriesInv, FinderRead
  PROVE  \E name \in dir.unread :
           /\ dir' = [dir EXCEPT !.unread = @ \ {name}]
           /\ \/ UNCHANGED listvars /\ (torn \/ ~Shown(name))
              \/ /\ total_num_files' = total_num_files + 1
                 /\ total_num_files \in Slots
                 /\ list_mem'[total_num_files] \in Browser!Entries
                 /\ torn \/ /\ Shown(name)
                            /\ list_mem'[total_num_files] = Browser!Entry(current_path, name)
                 /\ \A i \in Slots : i # total_num_files => list_mem'[i] = list_mem[i]
                 /\ filled' = Max2(filled, total_num_files + 1)
<1>1. PICK name \in dir.unread :
        /\ dir' = [dir EXCEPT !.unread = @ \ {name}]
        /\ \E isfolder \in MayBeFolder(name) : add_file(name, isfolder)
  BY DEF FinderRead
<1>2. PICK isfolder \in MayBeFolder(name) : add_file(name, isfolder)
  BY <1>1
<1> DEFINE e == [at |-> current_path, name |-> name, isfolder |-> isfolder]
<1>3. e \in Browser!Entries
  BY <1>1, <1>2 DEF MayBeFolder, Browser!Entries, TInv, TypeOK, PathTypes, FinderTypes
<1>4. ~torn => e = Browser!Entry(current_path, name) /\ isfolder = (name \in Folders)
  BY <1>2 DEF MayBeFolder, Browser!Entry, BusyInv, FinderRead
<1>5. CASE isfolder \/ name \in Tracks
  <2>1. total_num_files \in Slots /\ list_mem \in [Slots -> Browser!Entries \cup {NoEntry}]
    BY FolderAssumption DEF FinderRead, Slots, TInv, TypeOK, ListTypes
  <2>2. /\ list_mem' = [list_mem EXCEPT ![total_num_files] = e]
        /\ total_num_files' = total_num_files + 1
        /\ filled' = Max2(filled, total_num_files + 1)
    BY <1>2, <1>5 DEF add_file
  <2>3. list_mem'[total_num_files] = e
    BY <2>1, <2>2
  <2>4. \A i \in Slots : i # total_num_files => list_mem'[i] = list_mem[i]
    BY <2>1, <2>2
  <2>5. ~torn => Shown(name)
    BY <1>4, <1>5 DEF Shown
  <2> QED
    BY <1>1, <1>3, <1>4, <2>1, <2>2, <2>3, <2>4, <2>5
<1>6. CASE ~(isfolder \/ name \in Tracks)
  BY <1>1, <1>2, <1>4, <1>6 DEF add_file, Shown
<1> QED
  BY <1>5, <1>6

(* What comparing two neighbours does to the list: it keeps them, or swaps *)
(* them.                                                                   *)
LEMMA CompareStep ==
  ASSUME TInv, EntriesInv, FinderCompare
  PROVE  /\ j - 1 \in Filled /\ j \in Filled /\ Filled' = Filled /\ n' = n /\ j' = j + 1
         /\ n \in 1 .. total_num_files /\ Filled \subseteq 0 .. filled - 1
         /\ \/ /\ Browser!Before(list_mem[j - 1], list_mem[j])
               /\ list_mem' = list_mem /\ swapped' = swapped
            \/ /\ ~Browser!Before(list_mem[j - 1], list_mem[j])
               /\ list_mem'[j - 1] = list_mem[j] /\ list_mem'[j] = list_mem[j - 1]
               /\ \A i \in Slots : i \notin {j - 1, j} => list_mem'[i] = list_mem[i]
               /\ swapped'
<1> USE FolderAssumption DEF FinderCompare, TInv, TypeOK, ListTypes, SortInv
<1>1. /\ n \in 1 .. total_num_files /\ j \in 1 .. n /\ j < n
      /\ total_num_files \in Nat /\ filled \in Nat /\ total_num_files <= filled
      /\ filled < MaxItems /\ MaxItems \in Nat
  OBVIOUS
<1>2. j - 1 \in Filled /\ j \in Filled /\ Filled \subseteq 0 .. filled - 1
  BY <1>1 DEF Filled
<1>3. j - 1 \in Slots /\ j \in Slots /\ j - 1 # j
  BY <1>1 DEF Slots
<1>4. Filled' = Filled /\ n' = n /\ j' = j + 1
  BY DEF Filled
<1>5. CASE Browser!Before(list_mem[j - 1], list_mem[j])
  BY <1>1, <1>2, <1>4, <1>5
<1>6. CASE ~Browser!Before(list_mem[j - 1], list_mem[j])
  <2>1. list_mem' = [list_mem EXCEPT ![j - 1] = list_mem[j], ![j] = list_mem[j - 1]]
    BY <1>6
  <2>2. /\ list_mem'[j - 1] = list_mem[j] /\ list_mem'[j] = list_mem[j - 1]
        /\ \A i \in Slots : i \notin {j - 1, j} => list_mem'[i] = list_mem[i]
    BY <1>3, <2>1
  <2>3. swapped'
    BY <1>6
  <2> QED
    BY <1>1, <1>2, <1>4, <1>6, <2>2, <2>3
<1> QED
  BY <1>5, <1>6

LEMMA FilledInSlots ==
  TInv => /\ Filled \subseteq 0 .. filled - 1 /\ 0 .. filled - 1 \subseteq Slots
          /\ total_num_files \in Nat /\ filled \in Nat /\ total_num_files <= filled
          /\ MaxItems \in Nat /\ filled < MaxItems
  BY FolderAssumption DEF TInv, TypeOK, ListTypes, Slots, Filled

(* Only these steps of the finder touch the list.                          *)
LEMMA ListSteps ==
  Finder => FinderClear \/ FinderRead \/ FinderCompare \/ UNCHANGED listvars
  BY DEF Finder, FinderOpen, FinderEnd, FinderHalted, FinderPass, FinderDone, FinderExit,
         listvars

LEMMA EntriesStep == TInv /\ BusyInv /\ EntriesInv /\ Finder => EntriesInv'
<1> SUFFICES ASSUME TInv, BusyInv, EntriesInv, Finder PROVE EntriesInv'
  OBVIOUS
<1> USE FilledInSlots
<1>1. CASE FinderRead
  <2>1. CASE UNCHANGED listvars
    BY <2>1 DEF EntriesInv, listvars
  <2>2. CASE ~UNCHANGED listvars
    <3>1. /\ total_num_files \in Slots /\ list_mem'[total_num_files] \in Browser!Entries
          /\ \A i \in Slots : i # total_num_files => list_mem'[i] = list_mem[i]
          /\ filled' = Max2(filled, total_num_files + 1)
      BY <1>1, <2>2, ReadStep
    <3>2. ASSUME NEW i \in 0 .. filled' - 1 PROVE list_mem'[i] \in Browser!Entries
      <4>1. i = total_num_files \/ i \in 0 .. filled - 1
        BY <3>1 DEF Max2
      <4> QED
        BY <3>1, <4>1 DEF EntriesInv
    <3> QED
      BY <3>2 DEF EntriesInv
  <2> QED
    BY <2>1, <2>2
<1>2. CASE FinderCompare
  <2>1. filled' = filled
    BY <1>2 DEF FinderCompare
  <2>2. \A i \in 0 .. filled - 1 : list_mem'[i] \in Browser!Entries
    BY <1>2, CompareStep DEF EntriesInv
  <2> QED
    BY <2>1, <2>2 DEF EntriesInv
<1>3. CASE FinderClear
  BY <1>3 DEF FinderClear, EntriesInv
<1>4. CASE UNCHANGED listvars
  BY <1>4 DEF EntriesInv, listvars
<1> QED
  BY <1>1, <1>2, <1>3, <1>4, ListSteps

(* Reading keeps one slot for each entry that was read.                    *)
LEMMA ReadInvStep == TInv /\ BusyInv /\ EntriesInv /\ ReadInv /\ Finder => ReadInv'
<1> SUFFICES ASSUME TInv, BusyInv, EntriesInv, ReadInv, Finder,
                    finder' = "read", ~torn'
             PROVE  (/\ Distinct
                     /\ \A i \in Filled : \E x \in Contents[current_path] \ dir.unread :
                          Shown(x) /\ list_mem[i] = Browser!Entry(current_path, x)
                     /\ \A x \in Contents[current_path] \ dir.unread :
                          Shown(x) => \E i \in Filled :
                                        list_mem[i] = Browser!Entry(current_path, x))'
  BY DEF ReadInv
<1>0. UNCHANGED <<current_path, torn>>
  BY BusyStep
<1> USE FilledInSlots
<1>1. CASE FinderClear
  <2>1. total_num_files' = 0 /\ dir' = dir /\ dir.unread = Contents[current_path]
    BY <1>0, <1>1 DEF FinderClear, BusyInv
  <2> QED
    BY <1>0, <2>1 DEF Filled, Distinct
<1>2. CASE FinderRead
  <2> DEFINE Done == Contents[current_path] \ dir.unread
  <2>1. PICK name \in dir.unread :
           /\ dir' = [dir EXCEPT !.unread = @ \ {name}]
           /\ \/ UNCHANGED listvars /\ ~Shown(name)
              \/ /\ total_num_files' = total_num_files + 1
                 /\ total_num_files \in Slots
                 /\ Shown(name)
                 /\ list_mem'[total_num_files] = Browser!Entry(current_path, name)
                 /\ \A i \in Slots : i # total_num_files => list_mem'[i] = list_mem[i]
    BY <1>0, <1>2, ReadStep
  <2>2. Done' = Done \cup {name} /\ name \notin Done
    <3>1. name \in Contents[current_path] /\ dir'.unread = dir.unread \ {name}
      BY <1>0, <1>2, <2>1 DEF FinderRead, BusyInv, TInv, TypeOK, FinderTypes
    <3> QED
      BY <1>0, <2>1, <3>1
  <2>3. /\ Distinct
        /\ \A i \in Filled : \E x \in Done :
             Shown(x) /\ list_mem[i] = Browser!Entry(current_path, x)
        /\ \A x \in Done :
             Shown(x) => \E i \in Filled : list_mem[i] = Browser!Entry(current_path, x)
    BY <1>0, <1>2 DEF FinderRead, ReadInv
  <2>4. CASE UNCHANGED listvars /\ ~Shown(name)
    BY <1>0, <2>2, <2>3, <2>4 DEF listvars, Filled, Distinct, Shown
  <2>5. CASE ~(UNCHANGED listvars /\ ~Shown(name))
    <3> DEFINE t == total_num_files
    <3>1. /\ Filled' = Filled \cup {t} /\ t \notin Filled
          /\ \A i \in Filled : list_mem'[i] = list_mem[i]
          /\ list_mem'[t] = Browser!Entry(current_path, name)
      BY <2>1, <2>5 DEF Filled
    <3>2. \A i \in Filled : list_mem'[i] # list_mem'[t]
      <4>1. \A x \in Done : Browser!Entry(current_path, x) # Browser!Entry(current_path, name)
        BY <2>2 DEF Browser!Entry
      <4> QED
        BY <2>3, <3>1, <4>1
    <3>3. Distinct'
      BY <2>3, <3>1, <3>2 DEF Distinct
    <3> QED
      BY <1>0, <2>1, <2>2, <2>3, <2>5, <3>1, <3>3 DEF Shown
  <2> QED
    BY <2>4, <2>5
<1> QED
  BY <1>1, <1>2
     DEF Finder, FinderOpen, FinderEnd, FinderHalted, FinderCompare, FinderPass, FinderDone,
         FinderExit

LEMMA ListedFinite == ASSUME NEW f \in Folders PROVE IsFiniteSet(Browser!Listed(f))
<1> DEFINE S == Contents[f] \cap (Folders \cup Tracks)
           m == [name \in S |-> Browser!Entry(f, name)]
<1>1. IsFiniteSet(S)
  BY FolderAssumption, FS_Subset, S \subseteq Contents[f]
<1>2. m \in Surjection(S, Browser!Listed(f))
  BY DEF Surjection, Browser!Listed
<1> QED
  BY <1>1, <1>2, FS_Surjection

(* At the end of the folder, or of the memory, the listing is whole.       *)
LEMMA ListingWhole ==
  ASSUME TInv, BusyInv, ReadInv, finder = "read", ~torn,
         dir.unread = {} \/ total_num_files >= MaxItems - 1
  PROVE  /\ \A i \in Filled : list_mem[i] \in Browser!Listed(current_path)
         /\ total_num_files =
              Browser!AtMost(Cardinality(Browser!Listed(current_path)), MaxItems - 1)
<1> DEFINE L == Browser!Listed(current_path)
           t == total_num_files
           f == [i \in 1 .. t |-> list_mem[i - 1]]
<1>1. t \in Nat /\ MaxItems \in Nat \ {0} /\ t <= MaxItems - 1 /\ current_path \in Folders
  BY FilledInSlots, FolderAssumption DEF TInv, TypeOK, PathTypes
<1>2. \A i \in Filled : list_mem[i] \in L
  BY DEF ReadInv, Shown, Browser!Listed
<1>3. \A i \in 1 .. t : i - 1 \in Filled
  BY <1>1 DEF Filled
<1>4. f \in Injection(1 .. t, L)
  <2>1. f \in [1 .. t -> L]
    BY <1>2, <1>3
  <2>2. ASSUME NEW i \in 1 .. t, NEW k \in 1 .. t, f[i] = f[k] PROVE i = k
    <3>1. i - 1 = k - 1
      BY <1>3, <2>2 DEF ReadInv, Distinct
    <3> QED
      BY <1>1, <3>1
  <2> QED
    BY <2>1, <2>2 DEF Injection, IsInjective
<1>5. IsFiniteSet(L) /\ Cardinality(L) \in Nat
  BY <1>1, ListedFinite, FS_CardinalityType
<1>6. Cardinality(1 .. t) = t
  BY <1>1, FS_Interval
<1>7. t <= Cardinality(L) /\ (t = Cardinality(L) <=> f \in Surjection(1 .. t, L))
  BY <1>4, <1>5, <1>6, FS_Injection
<1>8. CASE dir.unread = {}
  <2>1. ASSUME NEW e \in L PROVE \E i \in 1 .. t : f[i] = e
    <3>1. PICK x \in Contents[current_path] : Shown(x) /\ e = Browser!Entry(current_path, x)
      BY DEF Browser!Listed, Shown
    <3>2. PICK i \in Filled : list_mem[i] = e
      BY <1>8, <3>1 DEF ReadInv
    <3>3. i + 1 \in 1 .. t /\ (i + 1) - 1 = i
      BY <1>1 DEF Filled
    <3> QED
      BY <3>2, <3>3
  <2>2. f \in Surjection(1 .. t, L)
    BY <1>4, <2>1 DEF Surjection, Injection
  <2> QED
    BY <1>1, <1>2, <1>5, <1>7, <2>2 DEF Browser!AtMost
<1>9. CASE total_num_files >= MaxItems - 1
  BY <1>1, <1>2, <1>5, <1>7, <1>9 DEF Browser!AtMost
<1> QED
  BY <1>8, <1>9

LEMMA WholeStep ==
  TInv /\ BusyInv /\ EntriesInv /\ ReadInv /\ WholeInv /\ Finder => WholeInv'
<1> SUFFICES ASSUME TInv, BusyInv, EntriesInv, ReadInv, WholeInv, Finder,
                    finder' \in {"halted", "sort", "sorted"}, ~torn'
             PROVE  (/\ Distinct
                     /\ \A i \in Filled : list_mem[i] \in Browser!Listed(current_path)
                     /\ total_num_files =
                          Browser!AtMost(Cardinality(Browser!Listed(current_path)),
                                         MaxItems - 1))'
  BY DEF WholeInv
<1>0. UNCHANGED <<current_path, torn>>
  BY BusyStep
<1>1. CASE FinderEnd
  BY <1>0, <1>1, ListingWhole DEF FinderEnd, ReadInv, listvars, Filled, Distinct
<1>2. CASE FinderHalted \/ FinderPass
  <2>1. finder \in {"halted", "sort"} /\ UNCHANGED listvars
    BY <1>0, <1>2 DEF FinderHalted, FinderPass, BusyInv
  <2> QED
    BY <1>0, <2>1 DEF WholeInv, listvars, Filled, Distinct
<1>3. CASE FinderCompare
  <2>1. /\ Distinct /\ \A i \in Filled : list_mem[i] \in Browser!Listed(current_path)
        /\ total_num_files' = total_num_files
        /\ total_num_files =
             Browser!AtMost(Cardinality(Browser!Listed(current_path)), MaxItems - 1)
    BY <1>0, <1>3 DEF FinderCompare, WholeInv
  <2>2. /\ j - 1 \in Filled /\ j \in Filled /\ Filled' = Filled /\ Filled \subseteq Slots
        /\ \/ list_mem' = list_mem
           \/ /\ list_mem'[j - 1] = list_mem[j] /\ list_mem'[j] = list_mem[j - 1]
              /\ \A i \in Slots : i \notin {j - 1, j} => list_mem'[i] = list_mem[i]
    BY <1>3, CompareStep, FilledInSlots
  <2>3. Distinct' /\ \A i \in Filled : list_mem'[i] \in Browser!Listed(current_path)
    BY <2>1, <2>2 DEF Distinct
  <2> QED
    BY <1>0, <2>1, <2>2, <2>3
<1> QED
  BY <1>1, <1>2, <1>3
     DEF Finder, FinderOpen, FinderClear, FinderRead, FinderDone, FinderExit

-----------------------------------------------------------------------------
(* The sort.                                                               *)
(* InOrder in the next state, of the same two slots.                       *)
KeptOrder(i, k) == ~Browser!Before(list_mem'[k], list_mem'[i])

LEMMA BubbleStep == TInv /\ EntriesInv /\ BubbleInv /\ Finder => BubbleInv'
<1> SUFFICES ASSUME TInv, EntriesInv, BubbleInv, Finder, finder' = "sort"
             PROVE  BubbleInv'
  BY DEF BubbleInv
<1>0. \A i \in Filled : list_mem[i] \in Browser!Entries /\ InOrder(i, i)
  BY FilledInSlots, OrderReflexive DEF EntriesInv, InOrder
<1> SUFFICES /\ \A i, k \in Filled' : i < k /\ n' <= k => KeptOrder(i, k)
             /\ \A i \in Filled' : i < j' => KeptOrder(i, j' - 1)
             /\ ~swapped' => \A i, k \in Filled' : i < k /\ k < j' => KeptOrder(i, k)
  BY DEF BubbleInv, InOrder, KeptOrder
<1>1. CASE FinderHalted
  <2>1. /\ n' = total_num_files /\ j' = 1 /\ Filled' = Filled /\ list_mem' = list_mem
        /\ total_num_files \in Nat
    BY <1>1, FilledInSlots DEF FinderHalted, listvars, Filled
  <2>2. \A i \in Filled : (i < 1 => i = 0) /\ i \in Nat /\ ~(total_num_files <= i)
    BY <2>1 DEF Filled
  <2>3. \A i \in Filled : KeptOrder(i, i)
    BY <1>0, <2>1 DEF InOrder, KeptOrder
  <2> QED
    BY <2>1, <2>2, <2>3
<1>2. CASE FinderPass
  <2>1. /\ finder = "sort" /\ n' = n - 1 /\ j' = 1 /\ j = n /\ n \in Nat
        /\ Filled' = Filled /\ list_mem' = list_mem
    BY <1>2, FilledInSlots DEF FinderPass, listvars, Filled, TInv, SortInv
  <2>2. \A i, k \in Filled : i < k /\ n - 1 <= k => InOrder(i, k)
    <3> SUFFICES ASSUME NEW i \in Filled, NEW k \in Filled, i < k, n - 1 <= k
                 PROVE  InOrder(i, k)
      OBVIOUS
    <3>1. CASE n <= k
      BY <2>1, <3>1 DEF BubbleInv
    <3>2. CASE k = n - 1
      BY <2>1, <3>2 DEF BubbleInv, Filled
    <3> QED
      BY <2>1, <3>1, <3>2 DEF Filled
  <2>3. \A i \in Filled : i < 1 => i = 0
    BY DEF Filled
  <2>4. \A i, k \in Filled : KeptOrder(i, k) <=> InOrder(i, k)
    BY <2>1 DEF InOrder, KeptOrder
  <2>5. \A i, k \in Filled : i < k => ~(k < 1)
    BY DEF Filled
  <2> QED
    BY <1>0, <2>1, <2>2, <2>3, <2>4, <2>5
<1>3. CASE FinderCompare
  <2>1. /\ j - 1 \in Filled /\ j \in Filled /\ Filled' = Filled /\ n' = n /\ j' = j + 1
        /\ n \in Nat /\ j < n /\ Filled \subseteq Slots
    <3>1. j < n /\ Filled \subseteq Slots
      BY <1>3, FilledInSlots DEF FinderCompare
    <3>2. n \in Nat
      BY <1>3, CompareStep, FilledInSlots
    <3> QED
      BY <1>3, <3>1, <3>2, CompareStep
  <2>2. /\ \A i, k \in Filled : i < k /\ n <= k => InOrder(i, k)
        /\ \A i \in Filled : i < j => InOrder(i, j - 1)
        /\ ~swapped => \A i, k \in Filled : i < k /\ k < j => InOrder(i, k)
    BY <1>3 DEF FinderCompare, BubbleInv
  <2>3. CASE Browser!Before(list_mem[j - 1], list_mem[j])
    <3>1. list_mem' = list_mem /\ swapped' = swapped
      BY <1>3, <2>3 DEF FinderCompare
    <3>2. \A i \in Filled : i < j + 1 => InOrder(i, j)
      <4> SUFFICES ASSUME NEW i \in Filled, i < j + 1 PROVE InOrder(i, j)
        OBVIOUS
      <4>1. CASE i = j
        BY <1>0, <4>1
      <4>2. CASE i < j
        <5>1. InOrder(i, j - 1) /\ InOrder(j - 1, j)
          BY <1>0, <2>1, <2>2, <2>3, <4>2, OrderAsymmetric DEF InOrder
        <5> QED
          BY <1>0, <2>1, <5>1, OrderTransitive DEF InOrder
      <4> QED
        BY <2>1, <4>1, <4>2 DEF Filled
    <3>3. ~swapped => \A i, k \in Filled : i < k /\ k < j + 1 => InOrder(i, k)
      <4> SUFFICES ASSUME ~swapped, NEW i \in Filled, NEW k \in Filled, i < k, k < j + 1
                   PROVE  InOrder(i, k)
        OBVIOUS
      <4>1. k < j \/ (k = j /\ i < j + 1)
        BY <2>1 DEF Filled
      <4> QED
        BY <2>2, <3>2, <4>1
    <3>4. \A i, k \in Filled : KeptOrder(i, k) <=> InOrder(i, k)
      BY <3>1 DEF InOrder, KeptOrder
    <3>5. j' - 1 = j
      BY <2>1 DEF Filled
    <3> QED
      BY <2>1, <2>2, <3>1, <3>2, <3>3, <3>4, <3>5
  <2>4. CASE ~Browser!Before(list_mem[j - 1], list_mem[j])
    <3>1. /\ list_mem'[j - 1] = list_mem[j] /\ list_mem'[j] = list_mem[j - 1]
          /\ \A i \in Filled : i \notin {j - 1, j} => list_mem'[i] = list_mem[i]
          /\ swapped'
      BY <1>3, <2>1, <2>4, CompareStep
    <3>2. \A i, k \in Filled : i < k /\ n <= k => ~Browser!Before(list_mem'[k], list_mem'[i])
      <4> SUFFICES ASSUME NEW i \in Filled, NEW k \in Filled, i < k, n <= k
                   PROVE  ~Browser!Before(list_mem'[k], list_mem'[i])
        OBVIOUS
      <4>1. k \notin {j - 1, j} /\ j - 1 < k /\ j < k
        BY <2>1 DEF Filled
      <4>2. \E m \in Filled : m < k /\ list_mem'[i] = list_mem[m]
        BY <2>1, <3>1, <4>1
      <4> QED
        BY <2>2, <3>1, <4>1, <4>2 DEF InOrder
    <3>3. \A i \in Filled : i < j + 1 => ~Browser!Before(list_mem'[j], list_mem'[i])
      <4> SUFFICES ASSUME NEW i \in Filled, i < j + 1
                   PROVE  ~Browser!Before(list_mem'[j], list_mem'[i])
        OBVIOUS
      <4>1. CASE i = j
        BY <1>0, <2>1, <3>1, <4>1 DEF InOrder
      <4>2. CASE i = j - 1
        BY <2>4, <3>1, <4>2
      <4>3. CASE i < j - 1
        BY <2>1, <2>2, <3>1, <4>3 DEF InOrder, Filled
      <4> QED
        BY <2>1, <4>1, <4>2, <4>3 DEF Filled
    <3>4. j' - 1 = j
      BY <2>1 DEF Filled
    <3> QED
      BY <2>1, <3>1, <3>2, <3>3, <3>4 DEF KeptOrder
  <2> QED
    BY <2>3, <2>4
<1> QED
  BY <1>1, <1>2, <1>3
     DEF Finder, FinderOpen, FinderClear, FinderRead, FinderEnd, FinderDone, FinderExit

LEMMA SortedStep == TInv /\ BusyInv /\ BubbleInv /\ Finder => SortedInv'
<1> SUFFICES ASSUME TInv, BusyInv, BubbleInv, Finder, finder' = "sorted", ~torn',
                    NEW i \in Filled', NEW k \in Filled', i < k
             PROVE  KeptOrder(i, k)
  BY DEF SortedInv, InOrder, KeptOrder
<1>0. ~torn
  BY BusyStep
<1>1. CASE FinderHalted
  <2>1. total_num_files \in Nat /\ ~(total_num_files > 1) /\ Filled' = Filled
    BY <1>1, FilledInSlots DEF FinderHalted, listvars, Filled
  <2>2. i \in Filled /\ k \in Filled
    BY <2>1
  <2>3. FALSE
    BY <2>1, <2>2 DEF Filled
  <2> QED
    BY <2>3
<1>2. CASE FinderPass
  <2>1. finder = "sort" /\ Filled' = Filled /\ list_mem' = list_mem /\ ~swapped
    BY <1>0, <1>2 DEF FinderPass, BusyInv, listvars, Filled
  <2>2. n \in Nat /\ j = n
    BY <1>2, FilledInSlots DEF FinderPass, TInv, SortInv
  <2>3. n <= k \/ k < j
    BY <2>1, <2>2, FilledInSlots DEF Filled
  <2>4. InOrder(i, k)
    BY <2>1, <2>3 DEF BubbleInv
  <2> QED
    BY <2>1, <2>4 DEF InOrder, KeptOrder
<1> QED
  BY <1>1, <1>2
     DEF Finder, FinderOpen, FinderClear, FinderRead, FinderEnd, FinderCompare, FinderDone,
         FinderExit

LEMMA FinderLInv == TInv /\ LInv /\ Finder => LInv'
  BY BusyStep, EntriesStep, ReadInvStep, WholeStep, BubbleStep, SortedStep DEF LInv

-----------------------------------------------------------------------------
(* The GUI thread: what a click means to the browser.                      *)
Quiet   == UNCHANGED <<current_path, parsing_dir, torn, halt>>
Asks    == /\ ~parsing_dir /\ current_path' \in Folders
           /\ parsing_dir' = TRUE /\ torn' = FALSE
Tears   == /\ current_path' \in Devices
           /\ parsing_dir' = parsing_dir /\ torn' = TRUE
Leaves  == torn' = TRUE /\ UNCHANGED <<current_path, parsing_dir>>
Request == Quiet \/ Asks \/ Tears \/ Leaves

LEMMA StartRequests ==
  ASSUME TInv, NEW path \in Folders, NEW dirup, directory_list_start(path, dirup)
  PROVE  Quiet \/ Asks
  BY DEF directory_list_start, Quiet, Asks, pathvars, TInv, TypeOK, PathTypes

LEMMA BrowserRequests ==
  TInv /\ (BrowserClick \/ BrowserStep) => UNCHANGED <<listvars, findervars>> /\ Request
<1> SUFFICES ASSUME TInv, BrowserClick \/ BrowserStep
             PROVE  UNCHANGED <<listvars, findervars>> /\ Request
  OBVIOUS
<1> USE DEF Request
<1>1. CASE ClickLocalBrowser
  BY <1>1, StartRequests DEF ClickLocalBrowser, TInv, TypeOK, PathTypes
<1>2. CASE ClickDirUp
  BY <1>2, StartRequests DEF ClickDirUp, Parents
<1>3. CASE ClickDevice
  BY <1>3 DEF ClickDevice, Tears
<1>4. CASE ClickNext \/ ClickBack \/ ClickItem \/ SetPosition \/ LeaveJoin
  BY <1>4 DEF ClickNext, ClickBack, ClickItem, SetPosition, LeaveJoin, Quiet, pathvars
<1>5. CASE OpenFolder
  <2>1. CASE UNCHANGED <<pathvars, halt>>
    BY <1>5, <2>1 DEF OpenFolder, Quiet, pathvars
  <2> QED
    BY <1>5, <2>1, StartRequests DEF OpenFolder
<1>6. CASE Leave
  BY <1>6 DEF Leave, Leaves
<1>7. CASE StartDevice
  BY <1>7, StartRequests DEF StartDevice, TInv, TypeOK, PathTypes
<1> QED
  BY <1>1, <1>2, <1>3, <1>4, <1>5, <1>6, <1>7 DEF BrowserClick, BrowserStep

LEMMA RequestLInv ==
  ASSUME TInv, LInv, UNCHANGED <<listvars, findervars>>, Request
  PROVE  LInv'
<1> USE DEF listvars, findervars
<1>1. UNCHANGED <<list_mem, total_num_files, filled, dir, finder, n, j, swapped>>
  OBVIOUS
<1>2. EntriesInv' /\ BubbleInv' /\ Filled' = Filled
  BY <1>1 DEF LInv, EntriesInv, BubbleInv, InOrder, Filled
<1>3. Distinct' <=> Distinct
  BY <1>1, <1>2 DEF Distinct
<1>4. CASE Quiet
  BY <1>1, <1>2, <1>3, <1>4
     DEF Quiet, LInv, BusyInv, ReadInv, WholeInv, SortedInv, InOrder
<1>5. CASE Asks
  <2>1. finder' \notin Working
    BY <1>1, <1>5 DEF Asks, LInv, BusyInv
  <2> QED
    BY <1>2, <2>1 DEF LInv, BusyInv, ReadInv, WholeInv, SortedInv, Working
<1>6. CASE Tears \/ Leaves
  BY <1>1, <1>2, <1>6
     DEF Tears, Leaves, LInv, BusyInv, ReadInv, WholeInv, SortedInv
<1> QED
  BY <1>4, <1>5, <1>6 DEF Request

(* The steps of the player leave the browser alone.                        *)
LEMMA TracksRequests ==
  TrackStep \/ TrackClick \/ TrackOver \/ UNCHANGED vars =>
    UNCHANGED <<listvars, findervars>> /\ Quiet
  BY DEF TrackStep, TrackClick, TrackOver, vars, filesvars, OpenTrack, Resolve, StartPlaying,
         NextTrack, ClickNextTrack, ClickPriorTrack, ClickReplay, pathvars, Quiet

LEMMA NextRequests ==
  ASSUME TInv, [Next]_vars
  PROVE  Finder \/ (UNCHANGED <<listvars, findervars>> /\ Request)
  BY BrowserRequests, TracksRequests DEF Next, FilesStep, Request

LEMMA LInvHolds == Spec => []LInv
<1>1. TInv /\ LInv /\ [Next]_vars => LInv'
  BY NextRequests, FinderLInv, RequestLInv
<1> QED
  BY <1>1, InitLInv, TInvHolds, PTL DEF Spec

-----------------------------------------------------------------------------
(* The refinement.                                                         *)
listing == IF parsing_dir THEN <<>> ELSE list

(* The instance has the same cardinality.                                  *)
LEMMA SameCardinality == \A S : Browser!Cardinality(S) = Cardinality(S)
  BY Zenon DEF Cardinality, Browser!Cardinality

LEMMA CompleteListing ==
  ASSUME TInv, LInv, finder = "sorted"
  PROVE  list \in Seq(Browser!Entries) /\ (torn \/ Browser!IsListingOf(current_path, list))
<1> DEFINE t == total_num_files
<1>1. t \in Nat /\ \A i \in 1 .. t : i - 1 \in Filled
  BY FilledInSlots DEF Filled
<1>2. \A i \in 1 .. t : list[i] = list_mem[i - 1] /\ list_mem[i - 1] \in Browser!Entries
  BY <1>1, FilledInSlots DEF list, LInv, EntriesInv
<1>3. list \in Seq(Browser!Entries) /\ Len(list) = t
  <2>1. list \in [1 .. t -> Browser!Entries]
    BY <1>2 DEF list
  <2> QED
    BY <1>1, <2>1
<1>4. ASSUME ~torn PROVE Browser!IsListingOf(current_path, list)
  <2>1. /\ Distinct
        /\ \A i \in Filled : list_mem[i] \in Browser!Listed(current_path)
        /\ t = Browser!AtMost(Cardinality(Browser!Listed(current_path)), MaxItems - 1)
        /\ \A i, k \in Filled : i < k => InOrder(i, k)
    BY <1>4 DEF LInv, WholeInv, SortedInv
  <2>2. \A i, k \in 1 .. t : i < k => list[i] # list[k] /\ ~Browser!Before(list[k], list[i])
    <3> SUFFICES ASSUME NEW i \in 1 .. t, NEW k \in 1 .. t, i < k
                 PROVE  list[i] # list[k] /\ ~Browser!Before(list[k], list[i])
      OBVIOUS
    <3>1. i - 1 # k - 1 /\ i - 1 < k - 1
      BY <1>1
    <3> QED
      BY <1>1, <1>2, <2>1, <3>1 DEF Distinct, InOrder
  <2>3. \A i \in 1 .. t : list[i] \in Browser!Listed(current_path)
    BY <1>1, <1>2, <2>1
  <2>4. Len(list) = Browser!AtMost(Cardinality(Browser!Listed(current_path)), MaxItems - 1)
    BY <1>3, <2>1
  <2>5. \A i \in 1 .. Len(list) : list[i] \in Browser!Listed(current_path)
    BY <1>3, <2>3
  <2>6. \A i, k \in 1 .. Len(list) :
          i < k => list[i] # list[k] /\ ~Browser!Before(list[k], list[i])
    BY <1>3, <2>2
  <2> QED
    BY <2>4, <2>5, <2>6, SameCardinality, Zenon DEF Browser!IsListingOf
<1> QED
  BY <1>3, <1>4

LEMMA FinderSimulates ==
  ASSUME TInv, LInv, Finder
  PROVE  Browser!Complete \/ UNCHANGED <<current_path, parsing_dir, torn, listing>>
<1>1. UNCHANGED <<current_path, torn>>
  BY BusyStep DEF LInv
<1>2. CASE FinderDone
  <2>1. /\ finder = "sorted" /\ parsing_dir' = FALSE /\ UNCHANGED listvars
        /\ parsing_dir
    BY <1>2 DEF FinderDone, LInv, BusyInv, Working
  <2>2. list' = list
    BY <2>1 DEF list, listvars
  <2>3. list \in Seq(Browser!Entries) /\ (torn \/ Browser!IsListingOf(current_path, list))
    BY <2>1, CompleteListing
  <2>4. (IF parsing_dir THEN <<>> ELSE list)' = list
    BY <2>1, <2>2
  <2> QED
    BY <1>1, <2>1, <2>3, <2>4 DEF Browser!Complete
<1>3. CASE ~FinderDone
  <2>1. parsing_dir' = parsing_dir
    BY <1>3 DEF Finder, FinderOpen, FinderClear, FinderRead, FinderEnd, FinderHalted,
                FinderCompare, FinderPass, FinderExit, pathvars
  <2>2. CASE parsing_dir
    BY <1>1, <2>1, <2>2 DEF listing
  <2>3. CASE ~parsing_dir
    <3>1. UNCHANGED listvars
      BY <1>3, <2>3
         DEF Finder, FinderOpen, FinderClear, FinderRead, FinderEnd, FinderHalted,
             FinderCompare, FinderPass, FinderExit, LInv, BusyInv, Working
    <3> QED
      BY <1>1, <2>1, <3>1 DEF listing, list, listvars
  <2> QED
    BY <2>2, <2>3
<1> QED
  BY <1>2, <1>3

LEMMA RequestSimulates ==
  ASSUME TInv, UNCHANGED <<listvars, findervars>>, Request
  PROVE  \/ \E f \in Folders : Browser!Request(f) \/ Browser!Tear(f)
         \/ Browser!Leave
         \/ UNCHANGED <<current_path, parsing_dir, torn, listing>>
<1>0. list' = list
  BY DEF list, listvars
<1>1. CASE Quiet
  BY <1>0, <1>1 DEF Quiet, listing
<1>2. CASE Asks
  BY <1>2 DEF Asks, Browser!Request, TInv, TypeOK, PathTypes
<1>3. CASE Tears
  BY <1>0, <1>3, FolderAssumption DEF Tears, listing, Browser!Tear, TInv, TypeOK, PathTypes
<1>4. CASE Leaves
  BY <1>0, <1>4 DEF Leaves, Browser!Leave
<1> QED
  BY <1>1, <1>2, <1>3, <1>4 DEF Request

LEMMA InitSimulates == Init => Browser!Init
  BY DEF Init, FilesInit, Browser!Init, list

(* The browser implements Folder (localfiles.cpp: finder_thread,           *)
(* directory_list, add_file, reset_location): whatever the user clicks     *)
(* while a folder is read and sorted, a list that no device button tore is *)
(* the sorted listing of the whole folder, up to MAX_FILE_ITEMS.           *)
THEOREM FolderImplemented == Spec => RefinesFolder
<1>1. TInv /\ LInv /\ [Next]_vars =>
        [Browser!Next]_<<current_path, parsing_dir, torn,
                         IF parsing_dir THEN <<>> ELSE list>>
  BY NextRequests, FinderSimulates, RequestSimulates DEF Browser!Next, listing
<1> QED
  BY <1>1, InitSimulates, TInvHolds, LInvHolds, PTL DEF Spec, RefinesFolder, Browser!Spec
=============================================================================
