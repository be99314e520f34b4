------------------------- MODULE HostRestartProofs -------------------------
(* Proofs about HostRestart, for any archives, workers and faults.         *)
EXTENDS HostRestart, TLAPS

USE DEF Items

LEMMA OrderFacts ==
  /\ Len(Order) = 5
  /\ \A k \in 1..5 : Order[k] \in Items
  /\ \A j, k \in 1..5 : Order[j] = Order[k] => j = k
  /\ \A i \in Items : \E k \in 1..5 : Order[k] = i
BY DEF Order

-----------------------------------------------------------------------------
(* Every step of main and ApplyPending keeps RestoreInv.                   *)

LEMMA StartKeeps ==
  ASSUME RestoreInv, Start
  PROVE  RestoreInv'
PROOF
<1> USE RestoreAssumption, OrderFacts
<1>1. TypeOK'
  BY DEF RestoreInv, TypeOK, Start, Contents, None, Boots, Goto, files,
     history
<1>2. Position'
  BY DEF RestoreInv, Position, TypeOK, Start, None, InArchive, Item, Last,
     Contents, Boots, Goto, files, history
<1>3. NothingMissing'
  BY DEF RestoreInv, NothingMissing, TypeOK, Start, None, Contents, Boots,
     Goto, files, history
<1>4. FreshDirectory'
  BY DEF RestoreInv, FreshDirectory, TypeOK, Position, Start, None, Contents,
     Boots, InArchive, Item, Last, Goto, files, history
<1>5. ReplacedIsSaved'
  BY DEF RestoreInv, ReplacedIsSaved, TypeOK, Position, Start, InArchive,
     Saved, Contents, None, Boots, Item, Last, Goto, files, history
<1>6. ReplacedIsInPlace'
  BY DEF RestoreInv, ReplacedIsInPlace, TypeOK, Position, Start, InArchive,
     Contents, None, Boots, Item, Last, Goto, files, history
<1>7. OriginalsKept'
  BY DEF RestoreInv, OriginalsKept, TypeOK, Start, Contents, None, Boots,
     Goto, files, history
<1> QED  BY <1>1, <1>2, <1>3, <1>4, <1>5, <1>6, <1>7 DEF RestoreInv

LEMMA QuarantineKeeps ==
  ASSUME RestoreInv, Quarantine
  PROVE  RestoreInv'
PROOF
<1> USE RestoreAssumption, OrderFacts
<1>1. TypeOK'
  <2>1. pending \in {"damaged"} \cup Archives
    BY DEF RestoreInv, TypeOK, Position, Quarantine, At
  <2>2. aside' \subseteq {"damaged"} \cup Archives /\ pending' \in {None, pending}
    BY <2>1 DEF RestoreInv, TypeOK, Quarantine
  <2>3. boot' \in Boots /\ boot'.pc = "open" /\ life = "starting" /\ hit' = hit \cup {"fail"}
        /\ UNCHANGED <<life, live, wal, attempt, rollback, cmd, before>>
    BY DEF RestoreInv, TypeOK, Quarantine, Boots, At, Goto
  <2> QED  BY <2>2, <2>3 DEF RestoreInv, TypeOK
<1>2. Position'
  BY DEF RestoreInv, Position, TypeOK, Quarantine, None, InArchive, Item,
     Last, Contents, Boots, At, Goto
<1>3. NothingMissing'
  BY DEF RestoreInv, NothingMissing, TypeOK, Quarantine, None, Contents,
     Boots, At, Goto
<1>4. FreshDirectory'
  BY DEF RestoreInv, FreshDirectory, TypeOK, Position, Quarantine, None,
     Contents, Boots, InArchive, Item, Last, At, Goto
<1>5. ReplacedIsSaved'
  BY DEF RestoreInv, ReplacedIsSaved, TypeOK, Position, Quarantine, InArchive,
     Saved, Contents, None, Boots, Item, Last, At, Goto
<1>6. ReplacedIsInPlace'
  BY DEF RestoreInv, ReplacedIsInPlace, TypeOK, Position, Quarantine,
     InArchive, Contents, None, Boots, Item, Last, At, Goto
<1>7. OriginalsKept'
  BY DEF RestoreInv, OriginalsKept, TypeOK, Quarantine, Contents, None, Boots,
     At, Goto
<1> QED  BY <1>1, <1>2, <1>3, <1>4, <1>5, <1>6, <1>7 DEF RestoreInv

LEMMA PrepareFailsKeeps ==
  ASSUME RestoreInv, PrepareFails
  PROVE  RestoreInv'
PROOF
<1> USE RestoreAssumption, OrderFacts
<1>1. TypeOK'
  BY DEF RestoreInv, TypeOK, PrepareFails, Contents, None, Boots, At, Goto,
     files
<1>2. Position'
  BY DEF RestoreInv, Position, TypeOK, PrepareFails, None, InArchive, Item,
     Last, Contents, Boots, At, Goto, files
<1>3. NothingMissing'
  BY DEF RestoreInv, NothingMissing, TypeOK, PrepareFails, None, Contents,
     Boots, At, Goto, files
<1>4. FreshDirectory'
  BY DEF RestoreInv, FreshDirectory, TypeOK, Position, PrepareFails, None,
     Contents, Boots, InArchive, Item, Last, At, Goto, files
<1>5. ReplacedIsSaved'
  BY DEF RestoreInv, ReplacedIsSaved, TypeOK, Position, PrepareFails,
     InArchive, Saved, Contents, None, Boots, Item, Last, At, Goto, files
<1>6. ReplacedIsInPlace'
  BY DEF RestoreInv, ReplacedIsInPlace, TypeOK, Position, PrepareFails,
     InArchive, Contents, None, Boots, Item, Last, At, Goto, files
<1>7. OriginalsKept'
  BY DEF RestoreInv, OriginalsKept, TypeOK, PrepareFails, Contents, None,
     Boots, At, Goto, files
<1> QED  BY <1>1, <1>2, <1>3, <1>4, <1>5, <1>6, <1>7 DEF RestoreInv

LEMMA PrepareKeeps ==
  ASSUME RestoreInv, Prepare
  PROVE  RestoreInv'
PROOF
<1> USE RestoreAssumption, OrderFacts
<1>1. TypeOK'
  <2>1. pending \in Archives
    BY DEF RestoreInv, TypeOK, Position, Prepare, At
  <2>2. boot' \in Boots
    BY <2>1 DEF RestoreInv, TypeOK, Prepare, Boots
  <2>3. attempt' \in 1..MaxAttempts /\ boot'.pc = "preserve" /\ boot'.archive = pending'
    BY DEF RestoreInv, TypeOK, Boots, Prepare, At
  <2> QED  BY <2>1, <2>2, <2>3 DEF RestoreInv, TypeOK, Boots, Prepare, At,
     history
<1>2. Position'
  BY DEF RestoreInv, Position, TypeOK, Prepare, None, InArchive, Item, Last,
     Contents, Boots, At, history
<1>3. NothingMissing'
  BY DEF RestoreInv, NothingMissing, TypeOK, Prepare, None, Contents, Boots,
     At, history
<1>4. FreshDirectory'
  BY DEF RestoreInv, FreshDirectory, TypeOK, Position, Prepare, None,
     Contents, Boots, InArchive, Item, Last, At, history
<1>5. ReplacedIsSaved'
  BY DEF RestoreInv, ReplacedIsSaved, TypeOK, Position, Prepare, InArchive,
     Saved, Contents, None, Boots, Item, Last, At, history
<1>6. ReplacedIsInPlace'
  BY DEF RestoreInv, ReplacedIsInPlace, TypeOK, Position, Prepare, InArchive,
     Contents, None, Boots, Item, Last, At, history
<1>7. OriginalsKept'
  <2>1. /\ life' = life /\ life # "up" /\ attempt \in Nat /\ attempt' = attempt + 1
        /\ live' = live /\ rollback' = rollback /\ before' = before
    BY DEF RestoreInv, TypeOK, Boots, Prepare, At, history
  <2>2. 1..attempt \subseteq 1..attempt'
    BY <2>1
  <2> QED  BY <2>1, <2>2 DEF RestoreInv, OriginalsKept
<1> QED  BY <1>1, <1>2, <1>3, <1>4, <1>5, <1>6, <1>7 DEF RestoreInv

LEMMA SkipKeeps ==
  ASSUME RestoreInv, Skip
  PROVE  RestoreInv'
PROOF
<1> USE RestoreAssumption, OrderFacts
<1>1. TypeOK'
  BY DEF RestoreInv, TypeOK, Skip, Contents, None, Boots, At, InArchive, Item,
     files, history
<1>2. Position'
  BY DEF RestoreInv, Position, TypeOK, Skip, None, InArchive, Item, Last,
     Contents, Boots, At, files, history
<1>3. NothingMissing'
  BY DEF RestoreInv, NothingMissing, TypeOK, Skip, None, Contents, Boots, At,
     InArchive, Item, files, history
<1>4. FreshDirectory'
  BY DEF RestoreInv, FreshDirectory, TypeOK, Position, Skip, None, Contents,
     Boots, InArchive, Item, Last, At, files, history
<1>5. ReplacedIsSaved'
  BY DEF RestoreInv, ReplacedIsSaved, TypeOK, Position, Skip, InArchive,
     Saved, Contents, None, Boots, Item, Last, At, files, history
<1>6. ReplacedIsInPlace'
  BY DEF RestoreInv, ReplacedIsInPlace, TypeOK, Position, Skip, InArchive,
     Contents, None, Boots, Item, Last, At, files, history
<1>7. OriginalsKept'
  BY DEF RestoreInv, OriginalsKept, TypeOK, Skip, Contents, None, Boots, At,
     InArchive, Item, files, history
<1> QED  BY <1>1, <1>2, <1>3, <1>4, <1>5, <1>6, <1>7 DEF RestoreInv

LEMMA PreserveKeeps ==
  ASSUME RestoreInv, Preserve
  PROVE  RestoreInv'
PROOF
<1>a. /\ life = "starting" /\ life' = life /\ boot.pc = "preserve"
      /\ boot.at \in 1..5 /\ Item \in Items
      /\ Item = Order[boot.at] /\ InArchive(Item)
      /\ MaxAttempts \in Nat /\ attempt \in 1..MaxAttempts
      /\ attempt' = attempt /\ before' = before
      /\ live \in [Items -> Contents]
      /\ rollback \in [1..MaxAttempts -> [Items -> Contents]]
      /\ boot'.pc = "activate"
      /\ boot'.at = boot.at /\ boot'.archive = boot.archive
      /\ None \in Contents
  BY RestoreAssumption, OrderFacts DEF Preserve, RestoreInv, TypeOK, Boots,
     At, Item, history, Contents
<1>b. /\ live' \in [Items -> Contents] /\ rollback' \in [1..MaxAttempts -> [Items -> Contents]]
      /\ \A i \in Items : i # Item => live'[i] = live[i]
      /\ \A r \in 1..MaxAttempts, i \in Items :
           r # attempt \/ i # Item => rollback'[r][i] = rollback[r][i]
      /\ live[Item] # None => rollback'[attempt][Item] = live[Item]
  <2>1. CASE live[Item] = None
    BY <1>a, <2>1 DEF Preserve
  <2>2. CASE live[Item] # None
    <3>1. /\ rollback' = [rollback EXCEPT ![attempt][Item] = live[Item]]
          /\ live' = [live EXCEPT ![Item] = None]
      BY <2>2 DEF Preserve
    <3> QED  BY <1>a, <3>1
  <2> QED  BY <2>1, <2>2
<1>c. ASSUME NEW i \in Items, Saved(i)  PROVE  Saved(i)'
  <2>1. PICK r \in 1..attempt : rollback[r][i] = before[i]
    BY <1>c DEF Saved
  <2>2. rollback[attempt][Item] = None /\ before[i] # None
    BY <1>a, OrderFacts DEF RestoreInv, FreshDirectory, NothingMissing
  <2>3. r \in 1..MaxAttempts /\ (r # attempt \/ i # Item)
    BY <1>a, <2>1, <2>2
  <2> QED  BY <1>a, <1>b, <2>1, <2>3 DEF Saved
<1>d. \E r \in 1..attempt' : rollback'[r][Item] = before'[Item]
  <2>1. CASE Saved(Item)
    BY <1>a, <1>c, <2>1 DEF Saved
  <2>2. CASE before[Item] = live[Item]
    <3>1. live[Item] # None
      BY <1>a, <2>2 DEF RestoreInv, NothingMissing
    <3> QED  BY <1>a, <1>b, <2>2, <3>1 DEF Saved
  <2> QED  BY <1>a, <2>1, <2>2 DEF RestoreInv, OriginalsKept, Saved
<1> USE RestoreAssumption, OrderFacts
<1>1. TypeOK'
  <2>1. boot' \in Boots
    BY <1>a DEF RestoreInv, TypeOK, Preserve, Boots
  <2> QED  BY <1>a, <1>b, <2>1 DEF RestoreInv, TypeOK, Preserve, history
<1>2. Position'
  BY DEF RestoreInv, Position, TypeOK, Preserve, None, InArchive, Item, Last,
     Contents, Boots, At, history
<1>3. NothingMissing'
  BY DEF RestoreInv, NothingMissing, TypeOK, Preserve, None, Contents, Boots,
     At, InArchive, Item, history
<1>4. FreshDirectory'
  <2>1. \A k \in 1..5 : k > boot.at => Order[k] # Item /\ Order[k] \in Items
    BY <1>a
  <2> QED  BY <1>a, <1>b, <2>1 DEF FreshDirectory, RestoreInv
<1>5. ReplacedIsSaved'
  <2> SUFFICES ASSUME NEW k \in 1..5, k <= boot.at, InArchive(Order[k])
               PROVE  Saved(Order[k])'
    BY <1>a DEF ReplacedIsSaved, InArchive
  <2>1. CASE k = boot.at
    BY <1>a, <1>d, <2>1 DEF Saved
  <2>2. CASE k < boot.at
    BY <1>a, <1>c, <2>2 DEF RestoreInv, ReplacedIsSaved
  <2> QED  BY <1>a, <2>1, <2>2
<1>6. ReplacedIsInPlace'
  BY DEF RestoreInv, ReplacedIsInPlace, TypeOK, Position, Preserve, InArchive,
     Contents, None, Boots, Item, Last, At, history
<1>7. OriginalsKept'
  <2> SUFFICES ASSUME NEW i \in Items
               PROVE  before'[i] = live'[i] \/ Saved(i)'
    BY <1>a DEF OriginalsKept, Saved
  <2>1. CASE i = Item
    BY <1>d, <2>1 DEF Saved
  <2>2. CASE i # Item /\ before[i] = live[i]
    BY <1>a, <1>b, <2>2
  <2>3. CASE Saved(i)
    BY <1>c, <2>3
  <2> QED  BY <1>a, <2>1, <2>2, <2>3 DEF RestoreInv, OriginalsKept, Saved
<1> QED  BY <1>1, <1>2, <1>3, <1>4, <1>5, <1>6, <1>7 DEF RestoreInv

LEMMA PreserveFailsKeeps ==
  ASSUME RestoreInv, PreserveFails
  PROVE  RestoreInv'
PROOF
<1> USE RestoreAssumption, OrderFacts
<1>1. TypeOK'
  BY DEF RestoreInv, TypeOK, PreserveFails, Contents, None, Boots, At,
     InArchive, Item, Goto, files
<1>2. Position'
  BY DEF RestoreInv, Position, TypeOK, PreserveFails, None, InArchive, Item,
     Last, Contents, Boots, At, Goto, files
<1>3. NothingMissing'
  BY DEF RestoreInv, NothingMissing, TypeOK, PreserveFails, None, Contents,
     Boots, At, InArchive, Item, Goto, files
<1>4. FreshDirectory'
  BY DEF RestoreInv, FreshDirectory, TypeOK, Position, PreserveFails, None,
     Contents, Boots, InArchive, Item, Last, At, Goto, files
<1>5. ReplacedIsSaved'
  BY DEF RestoreInv, ReplacedIsSaved, TypeOK, Position, PreserveFails,
     InArchive, Saved, Contents, None, Boots, Item, Last, At, Goto, files
<1>6. ReplacedIsInPlace'
  BY DEF RestoreInv, ReplacedIsInPlace, TypeOK, Position, PreserveFails,
     InArchive, Contents, None, Boots, Item, Last, At, Goto, files
<1>7. OriginalsKept'
  BY DEF RestoreInv, OriginalsKept, TypeOK, PreserveFails, Contents, None,
     Boots, At, InArchive, Item, Goto, files
<1> QED  BY <1>1, <1>2, <1>3, <1>4, <1>5, <1>6, <1>7 DEF RestoreInv

LEMMA ActivateKeeps ==
  ASSUME RestoreInv, Activate
  PROVE  RestoreInv'
PROOF
<1>a. /\ life = "starting" /\ life' = life /\ boot.pc = "activate"
      /\ boot.at \in 1..5 /\ Item \in Items /\ Item = Order[boot.at]
      /\ attempt' = attempt /\ rollback' = rollback /\ before' = before
      /\ live \in [Items -> Contents] /\ boot.archive \in Archives
      /\ live' = [live EXCEPT ![Item] = boot.archive]
  BY RestoreAssumption, OrderFacts DEF Activate, RestoreInv, TypeOK, Boots,
     Position, At, Item, history
<1> USE RestoreAssumption, OrderFacts
<1>1. TypeOK'
  <2>1. live' \in [Items -> Contents]
    BY <1>a DEF Contents
  <2>2. boot' \in Boots
    <3>1. boot \in Boots /\ boot' = [boot EXCEPT !.pc = "preserve", !.at = @ + 1]
      BY DEF RestoreInv, TypeOK, Activate
    <3>2. boot' = [pc |-> "preserve", archive |-> boot.archive, at |-> boot.at + 1,
                   had |-> boot.had]
      BY <3>1 DEF Boots
    <3> QED  BY <1>a, <3>1, <3>2 DEF Boots
  <2> QED  BY <1>a, <2>1, <2>2 DEF RestoreInv, TypeOK, Activate, history
<1>2. Position'
  BY DEF RestoreInv, Position, TypeOK, Activate, None, InArchive, Item, Last,
     Contents, Boots, At, history
<1>3. NothingMissing'
  BY DEF RestoreInv, NothingMissing, TypeOK, Activate, None, Contents, Boots,
     At, Item, history
<1>4. FreshDirectory'
  BY DEF RestoreInv, FreshDirectory, TypeOK, Position, Activate, None,
     Contents, Boots, InArchive, Item, Last, At, history
<1>5. ReplacedIsSaved'
  BY DEF RestoreInv, ReplacedIsSaved, TypeOK, Position, Activate, InArchive,
     Saved, Contents, None, Boots, Item, Last, At, history
<1>6. ReplacedIsInPlace'
  BY DEF RestoreInv, ReplacedIsInPlace, TypeOK, Position, Activate, InArchive,
     Contents, None, Boots, Item, Last, At, history
<1>7. OriginalsKept'
  <2>1. Saved(Item)
    BY <1>a DEF RestoreInv, ReplacedIsSaved, Position
  <2> SUFFICES ASSUME NEW i \in Items
               PROVE  \/ before[i] = live'[i]
                      \/ \E r \in 1..attempt : rollback[r][i] = before[i]
    BY <1>a DEF OriginalsKept
  <2>2. CASE i = Item
    BY <2>1, <2>2 DEF Saved
  <2>3. CASE i # Item
    BY <1>a, <2>3 DEF RestoreInv, OriginalsKept
  <2> QED  BY <2>2, <2>3
<1> QED  BY <1>1, <1>2, <1>3, <1>4, <1>5, <1>6, <1>7 DEF RestoreInv

LEMMA ActivateFailsKeeps ==
  ASSUME RestoreInv, ActivateFails
  PROVE  RestoreInv'
PROOF
<1>a. /\ life = "starting" /\ life' = life /\ boot.pc = "activate"
      /\ boot.at \in 1..5 /\ Item \in Items /\ InArchive(Item)
      /\ MaxAttempts \in Nat /\ attempt \in 1..MaxAttempts
      /\ attempt' = attempt /\ before' = before
      /\ live \in [Items -> Contents]
      /\ rollback \in [1..MaxAttempts -> [Items -> Contents]]
      /\ None \in Contents /\ boot'.pc = "undo" /\ boot'.archive = boot.archive
  BY RestoreAssumption, OrderFacts DEF ActivateFails, RestoreInv, TypeOK,
     Boots, Position, At, Item, Last, Goto, history, Contents
<1>b. \/ UNCHANGED <<live, rollback>>
      \/ /\ live' = [live EXCEPT ![Item] = rollback[attempt][Item]]
         /\ rollback' = [rollback EXCEPT ![attempt][Item] = None]
  BY DEF ActivateFails
<1>c. /\ live' \in [Items -> Contents]
      /\ rollback' \in [1..MaxAttempts -> [Items -> Contents]]
  <2>1. CASE UNCHANGED <<live, rollback>>
    BY <1>a, <2>1
  <2>2. CASE ~UNCHANGED <<live, rollback>>
    <3>1. rollback[attempt] \in [Items -> Contents] /\ rollback[attempt][Item] \in Contents
      BY <1>a
    <3>2. live' = [live EXCEPT ![Item] = rollback[attempt][Item]]
      BY <1>b, <2>2
    <3>3. rollback' = [rollback EXCEPT ![attempt][Item] = None]
      BY <1>b, <2>2
    <3>4. live' \in [Items -> Contents]
      BY <1>a, <3>1, <3>2
    <3>5. [rollback[attempt] EXCEPT ![Item] = None] \in [Items -> Contents]
      BY <1>a, <3>1
    <3>6. rollback' \in [1..MaxAttempts -> [Items -> Contents]]
      BY <1>a, <3>3, <3>5
    <3> QED  BY <3>4, <3>6
  <2> QED  BY <2>1, <2>2
<1>d. /\ \A i \in Items : i # Item => live'[i] = live[i]
      /\ \A r \in 1..MaxAttempts, i \in Items :
           r # attempt \/ i # Item => rollback'[r][i] = rollback[r][i]
  <2>1. CASE UNCHANGED <<live, rollback>>
    BY <2>1
  <2>2. CASE ~UNCHANGED <<live, rollback>>
    BY <1>a, <1>b, <2>2
  <2> QED  BY <2>1, <2>2
<1>e. Saved(Item)
  BY <1>a, OrderFacts DEF RestoreInv, ReplacedIsSaved, Position, Item, Last
<1>f. ASSUME NEW i \in Items, Saved(i), i # Item  PROVE  Saved(i)'
  <2>1. PICK r \in 1..attempt : rollback[r][i] = before[i]
    BY <1>f DEF Saved
  <2> QED  BY <1>a, <1>d, <1>f, <2>1 DEF Saved
<1>g. \/ before[Item] = live'[Item]
      \/ \E r \in 1..attempt' : rollback'[r][Item] = before'[Item]
  <2>1. PICK r \in 1..attempt : rollback[r][Item] = before[Item]
    BY <1>e DEF Saved
  <2>2. CASE UNCHANGED <<live, rollback>>
    BY <1>a, <1>e, <2>2 DEF Saved
  <2>3. CASE r = attempt /\ live' = [live EXCEPT ![Item] = rollback[attempt][Item]]
    BY <1>a, <2>1, <2>3
  <2>4. CASE r # attempt
    BY <1>a, <1>d, <2>1, <2>4 DEF Saved
  <2> QED  BY <1>b, <2>2, <2>3, <2>4
<1> USE RestoreAssumption, OrderFacts
<1>1. TypeOK'
  <2>1. boot' \in Boots
    <3>1. /\ boot \in Boots
          /\ boot' = [boot EXCEPT !.pc = "undo"]
          /\ boot.pc = "undoRename" => boot.at > 1
      BY DEF RestoreInv, TypeOK, Position, ActivateFails, Goto
    <3>2. boot' = [pc |-> "undo", archive |-> boot.archive, at |-> boot.at,
                   had |-> boot.had]
      BY <3>1 DEF Boots
    <3> QED  BY <1>a, <3>1, <3>2 DEF Boots
  <2>2. hit' \subseteq {"crash", "fail", "undo"}
    BY DEF RestoreInv, TypeOK, ActivateFails
  <2> QED  BY <1>a, <1>c, <2>1, <2>2 DEF RestoreInv, TypeOK, ActivateFails
<1>2. Position'
  BY DEF RestoreInv, Position, TypeOK, ActivateFails, None, InArchive, Item,
     Last, Contents, Boots, At, Goto
<1>3. NothingMissing'
  BY DEF RestoreInv, NothingMissing, TypeOK, ActivateFails, None, Contents,
     Boots, At, Item, Goto
<1>4. FreshDirectory'
  BY <1>a, <1>d DEF FreshDirectory, RestoreInv
<1>5. ReplacedIsSaved'
  <2> SUFFICES ASSUME NEW k \in 1..5, k < boot.at, InArchive(Order[k])
               PROVE  Saved(Order[k])'
    BY <1>a DEF ReplacedIsSaved, InArchive, ActivateFails, Goto
  <2>1. Order[k] # Item /\ Order[k] \in Items
    BY <1>a DEF Item
  <2> QED  BY <1>a, <1>f, <2>1 DEF RestoreInv, ReplacedIsSaved
<1>6. ReplacedIsInPlace'
  BY DEF RestoreInv, ReplacedIsInPlace, TypeOK, Position, ActivateFails,
     InArchive, Contents, None, Boots, Item, Last, At, Goto
<1>7. OriginalsKept'
  <2> SUFFICES ASSUME NEW i \in Items
               PROVE  before'[i] = live'[i] \/ Saved(i)'
    BY <1>a DEF OriginalsKept, Saved
  <2>1. CASE i = Item
    BY <1>a, <1>g, <2>1 DEF Saved
  <2>2. CASE i # Item /\ before[i] = live[i]
    BY <1>a, <1>d, <2>2
  <2>3. CASE i # Item /\ Saved(i)
    BY <1>f, <2>3
  <2> QED  BY <1>a, <2>1, <2>2, <2>3 DEF RestoreInv, OriginalsKept, Saved
<1> QED  BY <1>1, <1>2, <1>3, <1>4, <1>5, <1>6, <1>7 DEF RestoreInv

LEMMA FinishKeeps ==
  ASSUME RestoreInv, Finish
  PROVE  RestoreInv'
PROOF
<1> USE RestoreAssumption, OrderFacts
<1>1. TypeOK'
  BY DEF RestoreInv, TypeOK, Finish, Contents, None, Boots, At, Goto, history
<1>2. Position'
  BY DEF RestoreInv, Position, TypeOK, Finish, None, InArchive, Item, Last,
     Contents, Boots, At, Goto, history
<1>3. NothingMissing'
  BY DEF RestoreInv, NothingMissing, TypeOK, Finish, None, Contents, Boots,
     At, Goto, history
<1>4. FreshDirectory'
  BY DEF RestoreInv, FreshDirectory, TypeOK, Position, Finish, None, Contents,
     Boots, InArchive, Item, Last, At, Goto, history
<1>5. ReplacedIsSaved'
  BY DEF RestoreInv, ReplacedIsSaved, TypeOK, Position, Finish, InArchive,
     Saved, Contents, None, Boots, Item, Last, At, Goto, history
<1>6. ReplacedIsInPlace'
  BY DEF RestoreInv, ReplacedIsInPlace, TypeOK, Position, Finish, InArchive,
     Contents, None, Boots, Item, Last, At, Goto, history
<1>7. OriginalsKept'
  BY DEF RestoreInv, OriginalsKept, TypeOK, Finish, Contents, None, Boots, At,
     Goto, history
<1> QED  BY <1>1, <1>2, <1>3, <1>4, <1>5, <1>6, <1>7 DEF RestoreInv

LEMMA UndoSkipKeeps ==
  ASSUME RestoreInv, UndoSkip
  PROVE  RestoreInv'
PROOF
<1> USE RestoreAssumption, OrderFacts
<1>1. TypeOK'
  BY DEF RestoreInv, TypeOK, UndoSkip, Contents, None, Boots, At, InArchive,
     Last, files, history
<1>2. Position'
  BY DEF RestoreInv, Position, TypeOK, UndoSkip, None, InArchive, Item, Last,
     Contents, Boots, At, files, history
<1>3. NothingMissing'
  BY DEF RestoreInv, NothingMissing, TypeOK, UndoSkip, None, Contents, Boots,
     At, InArchive, Last, files, history
<1>4. FreshDirectory'
  BY DEF RestoreInv, FreshDirectory, TypeOK, Position, UndoSkip, None,
     Contents, Boots, InArchive, Item, Last, At, files, history
<1>5. ReplacedIsSaved'
  BY DEF RestoreInv, ReplacedIsSaved, TypeOK, Position, UndoSkip, InArchive,
     Saved, Contents, None, Boots, Item, Last, At, files, history
<1>6. ReplacedIsInPlace'
  BY DEF RestoreInv, ReplacedIsInPlace, TypeOK, Position, UndoSkip, InArchive,
     Contents, None, Boots, Item, Last, At, files, history
<1>7. OriginalsKept'
  BY DEF RestoreInv, OriginalsKept, TypeOK, UndoSkip, Contents, None, Boots,
     At, InArchive, Last, files, history
<1> QED  BY <1>1, <1>2, <1>3, <1>4, <1>5, <1>6, <1>7 DEF RestoreInv

LEMMA UndoRemoveKeeps ==
  ASSUME RestoreInv, UndoRemove
  PROVE  RestoreInv'
PROOF
<1> USE RestoreAssumption, OrderFacts
<1>1. TypeOK'
  BY DEF RestoreInv, TypeOK, UndoRemove, Contents, None, Boots, At, InArchive,
     Last, Goto
<1>2. Position'
  BY DEF RestoreInv, Position, TypeOK, UndoRemove, None, InArchive, Item,
     Last, Contents, Boots, At, Goto
<1>3. NothingMissing'
  BY DEF RestoreInv, NothingMissing, TypeOK, UndoRemove, None, Contents,
     Boots, At, InArchive, Last, Goto
<1>4. FreshDirectory'
  BY DEF RestoreInv, FreshDirectory, TypeOK, Position, UndoRemove, None,
     Contents, Boots, InArchive, Item, Last, At, Goto
<1>5. ReplacedIsSaved'
  BY DEF RestoreInv, ReplacedIsSaved, TypeOK, Position, UndoRemove, InArchive,
     Saved, Contents, None, Boots, Item, Last, At, Goto
<1>6. ReplacedIsInPlace'
  BY DEF RestoreInv, ReplacedIsInPlace, TypeOK, Position, UndoRemove,
     InArchive, Contents, None, Boots, Item, Last, At, Goto
<1>7. OriginalsKept'
  <2>1. /\ life' = life /\ attempt' = attempt /\ rollback' = rollback /\ before' = before
        /\ Last \in Items /\ live \in [Items -> Contents]
        /\ \A i \in Items : i # Last => live'[i] = live[i]
    BY DEF RestoreInv, TypeOK, Boots, UndoRemove, At, Last
  <2>2. Saved(Last)
    BY DEF RestoreInv, ReplacedIsSaved, UndoRemove, At, Last, TypeOK, Boots
  <2> SUFFICES ASSUME NEW i \in Items, life # "up"
               PROVE  before[i] = live'[i] \/ Saved(i)
    BY <2>1 DEF OriginalsKept, Saved
  <2> QED  BY <2>1, <2>2 DEF RestoreInv, OriginalsKept, Saved
<1> QED  BY <1>1, <1>2, <1>3, <1>4, <1>5, <1>6, <1>7 DEF RestoreInv

LEMMA UndoRenameKeeps ==
  ASSUME RestoreInv, UndoRename
  PROVE  RestoreInv'
PROOF
<1>a. /\ life = "starting" /\ life' = life /\ boot.pc = "undoRename"
      /\ boot.at \in 1..5 /\ Last \in Items /\ InArchive(Last)
      /\ MaxAttempts \in Nat /\ attempt \in 1..MaxAttempts
      /\ attempt' = attempt /\ before' = before
      /\ live \in [Items -> Contents]
      /\ rollback \in [1..MaxAttempts -> [Items -> Contents]]
      /\ None \in Contents /\ boot'.pc = "undo" /\ boot'.archive = boot.archive
  BY RestoreAssumption, OrderFacts DEF UndoRename, RestoreInv, TypeOK, Boots,
     Position, At, Item, Last, Goto, history, Contents
<1>b. \/ UNCHANGED <<live, rollback>>
      \/ /\ live' = [live EXCEPT ![Last] = rollback[attempt][Last]]
         /\ rollback' = [rollback EXCEPT ![attempt][Last] = None]
  BY DEF UndoRename
<1>c. /\ live' \in [Items -> Contents]
      /\ rollback' \in [1..MaxAttempts -> [Items -> Contents]]
  <2>1. CASE UNCHANGED <<live, rollback>>
    BY <1>a, <2>1
  <2>2. CASE ~UNCHANGED <<live, rollback>>
    <3>1. rollback[attempt] \in [Items -> Contents] /\ rollback[attempt][Last] \in Contents
      BY <1>a
    <3>2. live' = [live EXCEPT ![Last] = rollback[attempt][Last]]
      BY <1>b, <2>2
    <3>3. rollback' = [rollback EXCEPT ![attempt][Last] = None]
      BY <1>b, <2>2
    <3>4. live' \in [Items -> Contents]
      BY <1>a, <3>1, <3>2
    <3>5. [rollback[attempt] EXCEPT ![Last] = None] \in [Items -> Contents]
      BY <1>a, <3>1
    <3>6. rollback' \in [1..MaxAttempts -> [Items -> Contents]]
      BY <1>a, <3>3, <3>5
    <3> QED  BY <3>4, <3>6
  <2> QED  BY <2>1, <2>2
<1>d. /\ \A i \in Items : i # Last => live'[i] = live[i]
      /\ \A r \in 1..MaxAttempts, i \in Items :
           r # attempt \/ i # Last => rollback'[r][i] = rollback[r][i]
  <2>1. CASE UNCHANGED <<live, rollback>>
    BY <2>1
  <2>2. CASE ~UNCHANGED <<live, rollback>>
    BY <1>a, <1>b, <2>2
  <2> QED  BY <2>1, <2>2
<1>e. Saved(Last)
  BY <1>a, OrderFacts DEF RestoreInv, ReplacedIsSaved, Position, Item, Last
<1>f. ASSUME NEW i \in Items, Saved(i), i # Last  PROVE  Saved(i)'
  <2>1. PICK r \in 1..attempt : rollback[r][i] = before[i]
    BY <1>f DEF Saved
  <2> QED  BY <1>a, <1>d, <1>f, <2>1 DEF Saved
<1>g. \/ before[Last] = live'[Last]
      \/ \E r \in 1..attempt' : rollback'[r][Last] = before'[Last]
  <2>1. PICK r \in 1..attempt : rollback[r][Last] = before[Last]
    BY <1>e DEF Saved
  <2>2. CASE UNCHANGED <<live, rollback>>
    BY <1>a, <1>e, <2>2 DEF Saved
  <2>3. CASE r = attempt /\ live' = [live EXCEPT ![Last] = rollback[attempt][Last]]
    BY <1>a, <2>1, <2>3
  <2>4. CASE r # attempt
    BY <1>a, <1>d, <2>1, <2>4 DEF Saved
  <2> QED  BY <1>b, <2>2, <2>3, <2>4
<1> USE RestoreAssumption, OrderFacts
<1>1. TypeOK'
  <2>1. boot' \in Boots
    <3>1. /\ boot \in Boots
          /\ boot' = [boot EXCEPT !.pc = "undo", !.at = @ - 1]
          /\ boot.pc = "undoRename" => boot.at > 1
      BY DEF RestoreInv, TypeOK, Position, UndoRename, Goto
    <3>2. boot' = [pc |-> "undo", archive |-> boot.archive, at |-> boot.at - 1,
                   had |-> boot.had]
      BY <3>1 DEF Boots
    <3> QED  BY <1>a, <3>1, <3>2 DEF Boots
  <2>2. hit' \subseteq {"crash", "fail", "undo"}
    BY DEF RestoreInv, TypeOK, UndoRename
  <2> QED  BY <1>a, <1>c, <2>1, <2>2 DEF RestoreInv, TypeOK, UndoRename
<1>2. Position'
  BY DEF RestoreInv, Position, TypeOK, UndoRename, None, InArchive, Item,
     Last, Contents, Boots, At
<1>3. NothingMissing'
  BY DEF RestoreInv, NothingMissing, TypeOK, UndoRename, None, Contents,
     Boots, At, Last
<1>4. FreshDirectory'
  BY <1>a, <1>d DEF FreshDirectory, RestoreInv
<1>5. ReplacedIsSaved'
  <2>1. boot.at > 1 /\ boot'.at = boot.at - 1
    BY <1>a DEF UndoRename, RestoreInv, Position, TypeOK, Boots
  <2> SUFFICES ASSUME NEW k \in 1..5, k < boot.at - 1, InArchive(Order[k])
               PROVE  Saved(Order[k])'
    BY <1>a, <2>1 DEF ReplacedIsSaved, InArchive
  <2>2. Order[k] # Last /\ Order[k] \in Items
    BY <1>a, <2>1 DEF Last
  <2> QED  BY <1>a, <1>f, <2>2 DEF RestoreInv, ReplacedIsSaved
<1>6. ReplacedIsInPlace'
  BY DEF RestoreInv, ReplacedIsInPlace, TypeOK, Position, UndoRename,
     InArchive, Contents, None, Boots, Item, Last, At
<1>7. OriginalsKept'
  <2> SUFFICES ASSUME NEW i \in Items
               PROVE  before'[i] = live'[i] \/ Saved(i)'
    BY <1>a DEF OriginalsKept, Saved
  <2>1. CASE i = Last
    BY <1>a, <1>g, <2>1 DEF Saved
  <2>2. CASE i # Last /\ before[i] = live[i]
    BY <1>a, <1>d, <2>2
  <2>3. CASE i # Last /\ Saved(i)
    BY <1>f, <2>3
  <2> QED  BY <1>a, <2>1, <2>2, <2>3 DEF RestoreInv, OriginalsKept, Saved
<1> QED  BY <1>1, <1>2, <1>3, <1>4, <1>5, <1>6, <1>7 DEF RestoreInv

LEMMA UndoEndsKeeps ==
  ASSUME RestoreInv, UndoEnds
  PROVE  RestoreInv'
PROOF
<1> USE RestoreAssumption, OrderFacts
<1>1. TypeOK'
  BY DEF RestoreInv, TypeOK, UndoEnds, Contents, None, Boots, At, Goto, files,
     history
<1>2. Position'
  BY DEF RestoreInv, Position, TypeOK, UndoEnds, None, InArchive, Item, Last,
     Contents, Boots, At, Goto, files, history
<1>3. NothingMissing'
  BY DEF RestoreInv, NothingMissing, TypeOK, UndoEnds, None, Contents, Boots,
     At, Goto, files, history
<1>4. FreshDirectory'
  BY DEF RestoreInv, FreshDirectory, TypeOK, Position, UndoEnds, None,
     Contents, Boots, InArchive, Item, Last, At, Goto, files, history
<1>5. ReplacedIsSaved'
  BY DEF RestoreInv, ReplacedIsSaved, TypeOK, Position, UndoEnds, InArchive,
     Saved, Contents, None, Boots, Item, Last, At, Goto, files, history
<1>6. ReplacedIsInPlace'
  BY DEF RestoreInv, ReplacedIsInPlace, TypeOK, Position, UndoEnds, InArchive,
     Contents, None, Boots, Item, Last, At, Goto, files, history
<1>7. OriginalsKept'
  BY DEF RestoreInv, OriginalsKept, TypeOK, UndoEnds, Contents, None, Boots,
     At, Goto, files, history
<1> QED  BY <1>1, <1>2, <1>3, <1>4, <1>5, <1>6, <1>7 DEF RestoreInv

LEMMA OpenKeeps ==
  ASSUME RestoreInv, Open
  PROVE  RestoreInv'
PROOF
<1> USE RestoreAssumption, OrderFacts
<1>1. TypeOK'
  BY DEF RestoreInv, TypeOK, Open, Contents, None, Boots, At, NoBoot, Opened,
     history
<1>2. Position'
  BY DEF RestoreInv, Position, TypeOK, Open, None, InArchive, Item, Last,
     Contents, Boots, At, NoBoot, Opened, history
<1>3. NothingMissing'
  BY DEF RestoreInv, NothingMissing, TypeOK, Open, None, Contents, Boots, At,
     NoBoot, Opened, history
<1>4. FreshDirectory'
  BY DEF RestoreInv, FreshDirectory, TypeOK, Position, Open, None, Contents,
     Boots, InArchive, Item, Last, At, NoBoot, Opened, history
<1>5. ReplacedIsSaved'
  BY DEF RestoreInv, ReplacedIsSaved, TypeOK, Position, Open, InArchive,
     Saved, Contents, None, Boots, Item, Last, At, NoBoot, Opened, history
<1>6. ReplacedIsInPlace'
  BY DEF RestoreInv, ReplacedIsInPlace, TypeOK, Position, Open, InArchive,
     Contents, None, Boots, Item, Last, At, NoBoot, Opened, history
<1>7. OriginalsKept'
  BY DEF RestoreInv, OriginalsKept, TypeOK, Open, Contents, None, Boots, At,
     NoBoot, Opened, history
<1> QED  BY <1>1, <1>2, <1>3, <1>4, <1>5, <1>6, <1>7 DEF RestoreInv

LEMMA StopsKeeps ==
  ASSUME RestoreInv, Stops
  PROVE  RestoreInv'
PROOF
<1> USE RestoreAssumption, OrderFacts
<1>1. TypeOK'
  BY DEF RestoreInv, TypeOK, Stops, Contents, None, Boots, GoesDown,
     NoCommand, NoBoot
<1>2. Position'
  BY DEF RestoreInv, Position, TypeOK, Stops, None, InArchive, Item, Last,
     Contents, Boots, GoesDown, NoCommand, NoBoot
<1>3. NothingMissing'
  BY DEF RestoreInv, NothingMissing, TypeOK, Stops, None, Contents, Boots,
     GoesDown, NoCommand, NoBoot
<1>4. FreshDirectory'
  BY DEF RestoreInv, FreshDirectory, TypeOK, Position, Stops, None, Contents,
     Boots, InArchive, Item, Last, GoesDown, NoCommand, NoBoot
<1>5. ReplacedIsSaved'
  BY DEF RestoreInv, ReplacedIsSaved, TypeOK, Position, Stops, InArchive,
     Saved, Contents, None, Boots, Item, Last, GoesDown, NoCommand, NoBoot
<1>6. ReplacedIsInPlace'
  BY DEF RestoreInv, ReplacedIsInPlace, TypeOK, Position, Stops, InArchive,
     Contents, None, Boots, Item, Last, GoesDown, NoCommand, NoBoot
<1>7. OriginalsKept'
  BY DEF RestoreInv, OriginalsKept, TypeOK, Stops, Contents, None, Boots,
     GoesDown, NoCommand, NoBoot
<1> QED  BY <1>1, <1>2, <1>3, <1>4, <1>5, <1>6, <1>7 DEF RestoreInv

LEMMA CrashKeeps ==
  ASSUME RestoreInv, Crash
  PROVE  RestoreInv'
PROOF
<1> USE RestoreAssumption, OrderFacts
<1>1. TypeOK'
  <2>1. /\ pending' \in {None, "damaged"} \cup Archives
        /\ before' \in [Items -> Contents]
        /\ hit' \subseteq {"crash", "fail", "undo"}
    BY DEF RestoreInv, TypeOK, Crash
  <2> QED  BY <2>1 DEF RestoreInv, TypeOK, Crash, GoesDown, Boots, NoBoot,
     NoCommand
<1>2. Position'
  BY DEF RestoreInv, Position, TypeOK, Crash, None, InArchive, Item, Last,
     Contents, Boots, GoesDown, NoCommand, NoBoot
<1>3. NothingMissing'
  BY DEF RestoreInv, NothingMissing, TypeOK, Crash, None, Contents, Boots,
     GoesDown, NoCommand, NoBoot
<1>4. FreshDirectory'
  BY DEF RestoreInv, FreshDirectory, TypeOK, Position, Crash, None, Contents,
     Boots, InArchive, Item, Last, GoesDown, NoCommand, NoBoot
<1>5. ReplacedIsSaved'
  BY DEF RestoreInv, ReplacedIsSaved, TypeOK, Position, Crash, InArchive,
     Saved, Contents, None, Boots, Item, Last, GoesDown, NoCommand, NoBoot
<1>6. ReplacedIsInPlace'
  BY DEF RestoreInv, ReplacedIsInPlace, TypeOK, Position, Crash, InArchive,
     Contents, None, Boots, Item, Last, GoesDown, NoCommand, NoBoot
<1>7. OriginalsKept'
  BY DEF RestoreInv, OriginalsKept, TypeOK, Crash, Contents, None, Boots,
     GoesDown, NoCommand, NoBoot
<1> QED  BY <1>1, <1>2, <1>3, <1>4, <1>5, <1>6, <1>7 DEF RestoreInv

-----------------------------------------------------------------------------
(* The rest of the host's steps.                                           *)

\* While the host runs, only the staged archive and the command change.
LEMMA RunningKeeps ==
  ASSUME RestoreInv, Running
  PROVE  RestoreInv'
PROOF
<1>1. /\ life = "up" /\ boot.pc = "idle"
      /\ UNCHANGED <<life, live, boot, aside, attempt, rollback, before, hit>>
  BY DEF RestoreInv, TypeOK, Boots, Running, Commit, BeginStage, RemoveOldStage,
         FinishStage, StageFails, RespondFails, files, history
<1>2. TypeOK'
  <2>1. cmd.archive \in {None} \cup Archives /\ (cmd.pc # "idle" => cmd.archive # None)
    BY DEF RestoreInv, TypeOK
  <2>2. wal' \in Contents /\ pending' \in {None, "damaged"} \cup Archives
    BY <1>1, <2>1 DEF RestoreInv, TypeOK, Contents, Running, Commit, BeginStage,
       RemoveOldStage, FinishStage, StageFails, RespondFails, files
  <2>3. /\ cmd' \in [pc : {"idle", "remove", "rename", "respond"},
                     archive : {None} \cup Archives]
        /\ cmd'.pc # "idle" => cmd'.archive # None
    BY <1>1, <2>1, RestoreAssumption
    DEF RestoreInv, TypeOK, Running, Commit, BeginStage, RemoveOldStage,
        FinishStage, StageFails, RespondFails, NoCommand, None
  <2> QED  BY <1>1, <2>2, <2>3 DEF RestoreInv, TypeOK
<1>3. Position' /\ NothingMissing' /\ FreshDirectory'
  BY <1>1 DEF RestoreInv, Position, NothingMissing, FreshDirectory
<1>4. ReplacedIsSaved' /\ ReplacedIsInPlace' /\ OriginalsKept'
  BY <1>1 DEF RestoreInv, ReplacedIsSaved, ReplacedIsInPlace, OriginalsKept
<1> QED  BY <1>2, <1>3, <1>4 DEF RestoreInv

LEMMA RestoreInit ==
  ASSUME Init
  PROVE  RestoreInv
PROOF
<1> USE RestoreAssumption, OrderFacts
<1>1. TypeOK
  BY DEF Init, TypeOK, Boots, NoBoot, NoCommand, Contents, None
<1>2. Position /\ NothingMissing
  BY DEF Init, Position, NothingMissing, NoBoot, None
<1>3. FreshDirectory /\ ReplacedIsSaved /\ ReplacedIsInPlace
  BY DEF Init, FreshDirectory, ReplacedIsSaved, ReplacedIsInPlace, NoBoot
<1>4. OriginalsKept
  BY DEF Init, OriginalsKept
<1> QED  BY <1>1, <1>2, <1>3, <1>4 DEF RestoreInv

LEMMA RestoreSame ==
  ASSUME RestoreInv, UNCHANGED <<life, restoreVars>>
  PROVE  RestoreInv'
BY DEF RestoreInv, restoreVars, files, history, TypeOK, Position, NothingMissing,
       FreshDirectory, ReplacedIsSaved, ReplacedIsInPlace, OriginalsKept, Saved,
       InArchive, Item, Last

LEMMA ApplyingKeeps ==
  ASSUME RestoreInv, Applying \/ Open
  PROVE  RestoreInv'
BY QuarantineKeeps, PrepareFailsKeeps, PrepareKeeps, SkipKeeps, PreserveKeeps,
   PreserveFailsKeeps, ActivateKeeps, ActivateFailsKeeps, FinishKeeps,
   UndoSkipKeeps, UndoRemoveKeeps, UndoRenameKeeps, UndoEndsKeeps, OpenKeeps
DEF Applying

LEMMA RestoreStep ==
  ASSUME RestoreInv, [HostNext]_hostVars
  PROVE  RestoreInv'
PROOF
<1>1. CASE Running
  BY <1>1, RunningKeeps
<1>2. CASE UNCHANGED <<life, restoreVars>>
  BY <1>2, RestoreSame
<1>3. CASE StartProgram
  BY <1>3, StartKeeps DEF StartProgram
<1>4. CASE Applying \/ Open
  BY <1>4, ApplyingKeeps
<1>5. CASE EndProgram
  BY <1>5, StopsKeeps, CrashKeeps DEF EndProgram
<1> QED  BY <1>1, <1>2, <1>3, <1>4, <1>5 DEF HostNext, HostStep, hostVars

-----------------------------------------------------------------------------
(* A restore is applied wholly or not at all.                              *)

HIDE DEF Items

\* What the lemmas below need of RestoreInv.
LEMMA RestoreFacts ==
  ASSUME RestoreInv
  PROVE  /\ live \in [Items -> Contents] /\ before \in [Items -> Contents]
         /\ boot \in Boots /\ boot.at \in 1..6 /\ boot.had \in [Items -> BOOLEAN]
         /\ MaxAttempts \in Nat /\ attempt \in 0..MaxAttempts
         /\ rollback \in [1..MaxAttempts -> [Items -> Contents]]
         /\ hit \subseteq {"crash", "fail", "undo"}
         /\ life \in {"up", "down", "starting"}
         /\ life # "starting" => boot.pc = "idle"
         /\ boot.pc \in {"preserve", "activate", "undo", "undoRename"} =>
              /\ boot.archive = pending /\ pending \in Archives
              /\ attempt \in 1..MaxAttempts
         /\ None \notin Archives /\ "damaged" \notin Archives
BY RestoreAssumption, OrderFacts DEF RestoreInv, TypeOK, Boots, None

LEMMA DownIsWhole ==
  ASSUME WholeInv, Stops \/ Crash
  PROVE  UndoneAfterFailure' /\ AfterCrashes' /\ AfterFailures'
PROOF
<1>1. /\ life' = "down" /\ boot'.pc = "idle" /\ live' = live
      /\ RestoreInv /\ AfterCrashes
  BY DEF Stops, Crash, GoesDown, NoBoot, WholeInv
<1>2. UndoneAfterFailure'
  BY <1>1 DEF UndoneAfterFailure
<1>3. CASE before' = live
  <2>1. Applied'
    BY <1>1, <1>3 DEF Applied
  <2>2. AfterCrashes'
    BY <1>1, <1>3, <2>1 DEF AfterCrashes
  <2>3. AfterFailures'
    BY <1>1, <1>3, <2>1 DEF AfterFailures
  <2> QED  BY <1>2, <2>2, <2>3
<1>4. CASE before' # live
  <2>1. /\ life = "starting" /\ before' = before /\ hit' = hit \cup {"crash"}
        /\ pending' \in {pending, "damaged"}
    BY <1>1, <1>4, RestoreFacts DEF Stops, Crash
  <2>2. AfterFailures'
    BY <2>1 DEF AfterFailures
  <2>3. AfterCrashes'
    <3>1. ASSUME hit \subseteq {"crash"}, pending' \in Archives, NEW i \in Items \ Parts[pending']
          PROVE  live'[i] = before'[i]
      BY <1>1, <2>1, <3>1, RestoreFacts DEF AfterCrashes
    <3>2. ASSUME hit \subseteq {"crash"}, pending' = None
          PROVE  Applied'
      BY <1>1, <2>1, <3>2, RestoreFacts DEF AfterCrashes, Applied, Whole, None
    <3> QED  BY <1>1, <2>1, <3>1, <3>2 DEF AfterCrashes
  <2> QED  BY <1>2, <2>2, <2>3
<1> QED  BY <1>2, <1>3, <1>4

LEMMA StartIsWhole ==
  ASSUME WholeInv, Start
  PROVE  UndoneAfterFailure' /\ AfterCrashes' /\ AfterFailures'
PROOF
<1>1. /\ life = "down" /\ boot.pc = "idle"
      /\ UNCHANGED <<live, pending, attempt, rollback, before, hit>>
      /\ boot'.pc = IF pending = None THEN "open" ELSE "check"
      /\ AfterCrashes /\ AfterFailures
  BY RestoreFacts DEF Start, Goto, files, history, WholeInv, Boots
<1>2. UndoneAfterFailure'
  BY <1>1 DEF UndoneAfterFailure
<1>3. AfterCrashes'
  BY <1>1 DEF AfterCrashes, Applied, Whole
<1>4. AfterFailures'
  BY <1>1 DEF AfterFailures, Applied
<1> QED  BY <1>2, <1>3, <1>4

LEMMA CheckIsWhole ==
  ASSUME WholeInv, Quarantine \/ PrepareFails
  PROVE  UndoneAfterFailure' /\ AfterCrashes' /\ AfterFailures'
PROOF
<1>1. /\ life = "starting" /\ boot.pc = "check" /\ boot'.pc = "open"
      /\ UNCHANGED <<live, before>>
      /\ hit' = hit \cup {"fail"}
      /\ AfterFailures
  BY RestoreFacts DEF Quarantine, PrepareFails, At, Goto, files, WholeInv, Boots
<1>2. UndoneAfterFailure'
  BY <1>1 DEF UndoneAfterFailure
<1>3. AfterCrashes'
  BY <1>1 DEF AfterCrashes
<1>4. AfterFailures'
  BY <1>1 DEF AfterFailures, Applied
<1> QED  BY <1>2, <1>3, <1>4

\* As long as nothing but the counter changes and no attempt ends.
LEMMA StillBehindCrashes ==
  ASSUME AfterCrashes, life = "starting", pending' = pending, before' = before,
         hit' = hit, boot'.pc # "open", pending # None,
         \A i \in Items : live'[i] = live[i] \/ (pending \in Archives /\ i \in Parts[pending])
  PROVE  AfterCrashes'
BY DEF AfterCrashes

LEMMA PrepareIsWhole ==
  ASSUME WholeInv, Prepare
  PROVE  UndoneAfterFailure' /\ AfterCrashes' /\ AfterFailures'
PROOF
<1>1. /\ life = "starting" /\ boot.pc = "check" /\ boot.at = 1
      /\ boot'.pc = "preserve" /\ boot'.at = 1
      /\ UNCHANGED <<live, pending, rollback, before, hit>>
      /\ pending # None
      /\ AfterCrashes /\ AfterFailures
  BY RestoreFacts DEF Prepare, At, history, WholeInv, Boots, RestoreInv, Position
<1>2. UndoneAfterFailure'
  BY <1>1 DEF UndoneAfterFailure
<1>3. AfterCrashes'
  BY <1>1, StillBehindCrashes
<1>4. AfterFailures'
  <2>1. \A k \in 1..5 : ~Replaced(k)'
    BY <1>1 DEF Replaced
  <2> QED  BY <1>1, <2>1, OrderFacts DEF AfterFailures
<1> QED  BY <1>2, <1>3, <1>4

LEMMA SkipIsWhole ==
  ASSUME WholeInv, Skip
  PROVE  UndoneAfterFailure' /\ AfterCrashes' /\ AfterFailures'
PROOF
<1>1. /\ life = "starting" /\ boot.pc = "preserve" /\ boot'.pc = "preserve"
      /\ boot.at \in 1..5 /\ boot'.at = boot.at + 1
      /\ boot'.archive = boot.archive /\ boot'.had = boot.had
      /\ ~InArchive(Order[boot.at])
      /\ UNCHANGED <<live, pending, attempt, rollback, before, hit>>
      /\ pending # None
      /\ AfterCrashes /\ AfterFailures
  BY RestoreFacts, OrderFacts DEF Skip, At, Item, files, history, WholeInv, Boots
<1>2. UndoneAfterFailure'
  BY <1>1 DEF UndoneAfterFailure
<1>3. AfterCrashes'
  BY <1>1, StillBehindCrashes
<1>4. AfterFailures'
  <2>1. \A k \in 1..5 : Replaced(k)' <=> Replaced(k)
    BY <1>1 DEF Replaced, InArchive
  <2> QED  BY <1>1, <2>1, OrderFacts DEF AfterFailures
<1> QED  BY <1>2, <1>3, <1>4

\* What has been replaced is of the archive that is staged.
LEMMA ItemIsStaged ==
  ASSUME WholeInv, boot.pc \in {"preserve", "activate", "undo", "undoRename"},
         NEW i \in Items, InArchive(i)
  PROVE  pending \in Archives /\ i \in Parts[pending]
BY RestoreFacts DEF WholeInv, InArchive

LEMMA PreserveIsWhole ==
  ASSUME WholeInv, Preserve
  PROVE  UndoneAfterFailure' /\ AfterCrashes' /\ AfterFailures'
PROOF
<1>1. /\ life = "starting" /\ boot.pc = "preserve" /\ boot'.pc = "activate"
      /\ boot.at \in 1..5 /\ boot'.at = boot.at
      /\ boot'.archive = boot.archive
      /\ Item \in Items /\ InArchive(Item) /\ Item = Order[boot.at]
      /\ boot'.had = [boot.had EXCEPT ![Item] = live[Item] # None]
      /\ attempt \in 1..MaxAttempts
      /\ UNCHANGED <<pending, attempt, before, hit>>
      /\ pending # None
      /\ AfterCrashes /\ AfterFailures
  BY RestoreFacts, OrderFacts DEF Preserve, At, Item, history, WholeInv, Boots
<1>2. /\ \A i \in Items : i # Item => /\ live'[i] = live[i]
                                      /\ rollback'[attempt][i] = rollback[attempt][i]
                                      /\ boot'.had[i] = boot.had[i]
      /\ live[Item] # None => /\ rollback'[attempt][Item] = live[Item]
                              /\ boot'.had[Item]
  <2>1. CASE live[Item] = None
    BY <1>1, <2>1, RestoreFacts DEF Preserve, WholeInv
  <2>2. CASE live[Item] # None
    <3>1. /\ rollback' = [rollback EXCEPT ![attempt][Item] = live[Item]]
          /\ live' = [live EXCEPT ![Item] = None]
      BY <2>2 DEF Preserve
    <3> QED  BY <1>1, <2>2, <3>1, RestoreFacts DEF WholeInv
  <2> QED  BY <2>1, <2>2
<1>3. UndoneAfterFailure'
  BY <1>1 DEF UndoneAfterFailure
<1>4. AfterCrashes'
  BY <1>1, <1>2, StillBehindCrashes, ItemIsStaged
<1>5. AfterFailures'
  <2>1. ASSUME hit \subseteq {"fail"}, NEW k \in 1..5
        PROVE  IF Replaced(k)'
                 THEN boot'.had[Order[k]] /\ rollback'[attempt][Order[k]] = before[Order[k]]
                 ELSE live'[Order[k]] = before[Order[k]]
    <3>1. CASE k = boot.at
      <4>1. Replaced(k)' /\ ~Replaced(k)
        BY <1>1, <3>1 DEF Replaced, InArchive
      <4>2. live[Item] = before[Item]
        BY <1>1, <2>1, <3>1, <4>1, OrderFacts DEF AfterFailures
      <4>3. live[Item] # None
        BY <1>1, <4>2 DEF WholeInv, RestoreInv, NothingMissing
      <4> QED  BY <1>1, <1>2, <3>1, <4>1, <4>2, <4>3
    <3>2. CASE k # boot.at
      <4>1. (Replaced(k)' <=> Replaced(k)) /\ Order[k] \in Items /\ Order[k] # Item
        BY <1>1, <3>2, OrderFacts DEF Replaced, InArchive
      <4>2. IF Replaced(k)
              THEN boot.had[Order[k]] /\ rollback[attempt][Order[k]] = before[Order[k]]
              ELSE live[Order[k]] = before[Order[k]]
        BY <1>1, <2>1, OrderFacts DEF AfterFailures
      <4> QED  BY <1>2, <4>1, <4>2
    <3> QED  BY <3>1, <3>2
  <2> QED  BY <1>1, <2>1, OrderFacts DEF AfterFailures
<1> QED  BY <1>3, <1>4, <1>5

LEMMA ActivateIsWhole ==
  ASSUME WholeInv, Activate
  PROVE  UndoneAfterFailure' /\ AfterCrashes' /\ AfterFailures'
PROOF
<1>1. /\ life = "starting" /\ boot.pc = "activate" /\ boot'.pc = "preserve"
      /\ boot.at \in 1..5 /\ boot'.at = boot.at + 1
      /\ boot'.archive = boot.archive /\ boot'.had = boot.had
      /\ Item \in Items /\ InArchive(Item) /\ Item = Order[boot.at]
      /\ UNCHANGED <<pending, attempt, rollback, before, hit>>
      /\ pending # None
      /\ AfterCrashes /\ AfterFailures
  BY RestoreFacts, OrderFacts DEF Activate, At, Item, history, WholeInv, Boots,
     RestoreInv, Position
<1>2. \A i \in Items : i # Item => live'[i] = live[i]
  BY <1>1, RestoreFacts DEF Activate, WholeInv
<1>3. UndoneAfterFailure'
  BY <1>1 DEF UndoneAfterFailure
<1>4. AfterCrashes'
  BY <1>1, <1>2, StillBehindCrashes, ItemIsStaged
<1>5. AfterFailures'
  <2>1. \A k \in 1..5 : /\ Replaced(k)' <=> Replaced(k)
                        /\ ~Replaced(k) => Order[k] \in Items /\ Order[k] # Item
    BY <1>1, OrderFacts DEF Replaced, InArchive
  <2> QED  BY <1>1, <1>2, <2>1, OrderFacts DEF AfterFailures
<1> QED  BY <1>3, <1>4, <1>5

LEMMA PreserveFailsIsWhole ==
  ASSUME WholeInv, PreserveFails
  PROVE  UndoneAfterFailure' /\ AfterCrashes' /\ AfterFailures'
PROOF
<1>1. /\ life = "starting" /\ boot.pc = "preserve" /\ boot'.pc = "undo"
      /\ boot'.at = boot.at /\ boot'.archive = boot.archive /\ boot'.had = boot.had
      /\ UNCHANGED <<live, pending, attempt, rollback, before>>
      /\ hit' = hit \cup {"fail"}
      /\ AfterFailures
  BY RestoreFacts DEF PreserveFails, At, Goto, files, WholeInv, Boots
<1>2. UndoneAfterFailure'
  BY <1>1 DEF UndoneAfterFailure
<1>3. AfterCrashes'
  BY <1>1 DEF AfterCrashes
<1>4. AfterFailures'
  <2>1. \A k \in 1..5 : Replaced(k)' <=> Replaced(k)
    BY <1>1 DEF Replaced, InArchive
  <2> QED  BY <1>1, <2>1, OrderFacts DEF AfterFailures
<1> QED  BY <1>2, <1>3, <1>4

LEMMA ActivateFailsIsWhole ==
  ASSUME WholeInv, ActivateFails
  PROVE  UndoneAfterFailure' /\ AfterCrashes' /\ AfterFailures'
PROOF
<1>1. /\ life = "starting" /\ boot.pc = "activate" /\ boot'.pc = "undo"
      /\ boot.at \in 1..5
      /\ boot'.at = boot.at /\ boot'.archive = boot.archive /\ boot'.had = boot.had
      /\ Item \in Items /\ InArchive(Item) /\ Item = Order[boot.at]
      /\ attempt \in 1..MaxAttempts
      /\ UNCHANGED <<pending, attempt, before>>
      /\ AfterFailures
  BY RestoreFacts, OrderFacts DEF ActivateFails, At, Goto, Item, WholeInv, Boots,
     RestoreInv, Position
<1>2. hit' \in {hit \cup {"fail"}, hit \cup {"undo"}}
  BY DEF ActivateFails
<1>3. UndoneAfterFailure'
  BY <1>2 DEF UndoneAfterFailure
<1>4. AfterCrashes'
  BY <1>2 DEF AfterCrashes
<1>5. AfterFailures'
  <2> SUFFICES ASSUME hit' \subseteq {"fail"}, NEW k \in 1..5
               PROVE  IF Replaced(k)'
                        THEN /\ boot.had[Order[k]]
                             /\ rollback'[attempt][Order[k]] = before[Order[k]]
                        ELSE live'[Order[k]] = before[Order[k]]
    BY <1>1, OrderFacts DEF AfterFailures
  <2>1. \A j \in 1..5 : IF Replaced(j)
                          THEN boot.had[Order[j]] /\ rollback[attempt][Order[j]] = before[Order[j]]
                          ELSE live[Order[j]] = before[Order[j]]
    BY <1>1, <1>2, OrderFacts DEF AfterFailures
  <2>2. boot.had[Item] /\ rollback[attempt][Item] = before[Item]
    BY <1>1, <2>1 DEF Replaced
  <2>3. /\ live' = [live EXCEPT ![Item] = rollback[attempt][Item]]
        /\ rollback' = [rollback EXCEPT ![attempt][Item] = None]
    BY <1>2, <2>2 DEF ActivateFails
  <2>4. /\ live'[Item] = before[Item]
        /\ \A i \in Items : i # Item => /\ live'[i] = live[i]
                                        /\ rollback'[attempt][i] = rollback[attempt][i]
    BY <1>1, <2>2, <2>3, RestoreFacts DEF WholeInv
  <2>5. CASE k = boot.at
    BY <1>1, <2>4, <2>5 DEF Replaced
  <2>6. CASE k # boot.at
    <3>1. (Replaced(k)' <=> Replaced(k)) /\ Order[k] \in Items /\ Order[k] # Item
      BY <1>1, <2>6, OrderFacts DEF Replaced, InArchive
    <3> QED  BY <2>1, <2>4, <3>1
  <2> QED  BY <2>5, <2>6
<1> QED  BY <1>3, <1>4, <1>5

LEMMA FinishIsWhole ==
  ASSUME WholeInv, Finish
  PROVE  UndoneAfterFailure' /\ AfterCrashes' /\ AfterFailures'
PROOF
<1>1. /\ life = "starting" /\ boot.pc = "preserve" /\ boot'.pc = "open"
      /\ boot.at = 6 /\ pending' \in {None, pending}
      /\ boot.archive = pending /\ pending \in Archives
      /\ UNCHANGED <<live, before, hit>>
      /\ AfterCrashes /\ AfterFailures
  BY RestoreFacts, OrderFacts DEF Finish, At, Goto, history, WholeInv, Boots
<1>2. \A i \in Items : i \in Parts[pending] => live[i] = pending
  <2> SUFFICES ASSUME NEW i \in Items, i \in Parts[pending]
               PROVE  live[i] = pending
    OBVIOUS
  <2>1. PICK k \in 1..5 : Order[k] = i
    BY OrderFacts
  <2> QED
    BY <1>1, <2>1, OrderFacts DEF WholeInv, RestoreInv, ReplacedIsInPlace, InArchive
<1>3. ASSUME \A i \in Items \ Parts[pending] : live[i] = before[i]
      PROVE  Applied'
  BY <1>1, <1>2, <1>3 DEF Applied, Whole
<1>4. UndoneAfterFailure'
  BY <1>1 DEF UndoneAfterFailure
<1>5. AfterCrashes'
  BY <1>1, <1>3, RestoreFacts DEF AfterCrashes, WholeInv
<1>6. AfterFailures'
  <2>1. ASSUME hit \subseteq {"fail"}, NEW i \in Items \ Parts[pending]
        PROVE  live[i] = before[i]
    <3>1. PICK k \in 1..5 : Order[k] = i
      BY OrderFacts
    <3>2. ~Replaced(k)
      BY <1>1, <2>1, <3>1 DEF Replaced, InArchive
    <3> QED  BY <1>1, <2>1, <3>1, <3>2, OrderFacts DEF AfterFailures
  <2> QED  BY <1>1, <1>3, <2>1 DEF AfterFailures
<1> QED  BY <1>4, <1>5, <1>6

\* rollbackApplied starts only after a failure.
LEMMA UndoingIsWhole ==
  ASSUME WholeInv, UndoSkip \/ UndoRemove \/ UndoRename \/ UndoEnds
  PROVE  UndoneAfterFailure' /\ AfterCrashes' /\ AfterFailures'
PROOF
<1>1. /\ life = "starting" /\ boot.pc \in {"undo", "undoRename"}
      /\ hit \subseteq hit' /\ before' = before /\ pending' = pending
      /\ attempt' = attempt /\ attempt \in 1..MaxAttempts
      /\ boot'.archive = boot.archive /\ boot'.had = boot.had
      /\ hit \cap {"fail", "undo"} # {}
      /\ AfterFailures
  BY RestoreFacts DEF UndoSkip, UndoRemove, UndoRename, UndoEnds, At, Goto, files,
     history, WholeInv, Boots, UndoneAfterFailure
<1>2. UndoneAfterFailure'
  BY <1>1 DEF UndoneAfterFailure
<1>3. AfterCrashes'
  BY <1>1 DEF AfterCrashes
<1> SUFFICES ASSUME hit' \subseteq {"fail"}
             PROVE  AfterFailures'
  BY <1>2, <1>3 DEF AfterFailures
<1>4. \A k \in 1..5 : IF Replaced(k)
                        THEN boot.had[Order[k]] /\ rollback[attempt][Order[k]] = before[Order[k]]
                        ELSE live[Order[k]] = before[Order[k]]
  BY <1>1, OrderFacts DEF AfterFailures
\* In all but the last step it is enough to look at the items.
<1>5. ASSUME boot'.pc \in {"undo", "undoRename"},
             \A k \in 1..5 : IF Replaced(k)'
               THEN boot.had[Order[k]] /\ rollback'[attempt][Order[k]] = before[Order[k]]
               ELSE live'[Order[k]] = before[Order[k]]
      PROVE  AfterFailures'
  BY <1>1, <1>5, OrderFacts DEF AfterFailures
<1>6. CASE UndoSkip
  <2>1. /\ boot'.pc = "undo" /\ boot.pc = "undo" /\ boot.at \in 2..6 /\ boot'.at = boot.at - 1
        /\ ~InArchive(Order[boot.at - 1]) /\ UNCHANGED <<live, rollback>>
    BY <1>6, RestoreFacts DEF UndoSkip, At, Last, files, WholeInv, Boots
  <2>2. \A k \in 1..5 : Replaced(k)' <=> Replaced(k)
    BY <1>1, <2>1 DEF Replaced, InArchive
  <2> QED  BY <1>4, <1>5, <2>1, <2>2
<1>7. CASE UndoRemove
  <2>1. /\ boot'.pc = "undoRename" /\ boot.pc = "undo" /\ boot.at \in 2..6 /\ boot'.at = boot.at
        /\ InArchive(Last) /\ Last = Order[boot.at - 1] /\ Last \in Items
        /\ rollback' = rollback
    BY <1>7, RestoreFacts, OrderFacts DEF UndoRemove, At, Goto, Last, WholeInv, Boots
  <2>2. \A i \in Items : i # Last => live'[i] = live[i]
    BY <1>7, <2>1, RestoreFacts DEF UndoRemove, WholeInv
  <2>3. \A k \in 1..5 : /\ Replaced(k)' <=> Replaced(k)
                        /\ ~Replaced(k) => Order[k] # Last /\ Order[k] \in Items
    BY <1>1, <2>1, OrderFacts DEF Replaced, InArchive
  <2> QED  BY <1>4, <1>5, <2>1, <2>2, <2>3
<1>8. CASE UndoRename
  <2>1. /\ boot'.pc = "undo" /\ boot.pc = "undoRename" /\ boot.at \in 2..6
        /\ boot'.at = boot.at - 1
        /\ InArchive(Last) /\ Last = Order[boot.at - 1] /\ Last \in Items
    BY <1>8, RestoreFacts, OrderFacts DEF UndoRename, At, Last, WholeInv, Boots,
       RestoreInv, Position
  <2>2. boot.had[Last] /\ rollback[attempt][Last] = before[Last]
    BY <1>4, <2>1 DEF Replaced
  <2>3. /\ live' = [live EXCEPT ![Last] = rollback[attempt][Last]]
        /\ rollback' = [rollback EXCEPT ![attempt][Last] = None]
    BY <1>8, <2>2 DEF UndoRename
  <2>4. /\ live'[Last] = before[Last]
        /\ \A i \in Items : i # Last => /\ live'[i] = live[i]
                                        /\ rollback'[attempt][i] = rollback[attempt][i]
    BY <1>1, <2>1, <2>2, <2>3, RestoreFacts DEF WholeInv
  <2>5. ASSUME NEW k \in 1..5
        PROVE  IF Replaced(k)'
                 THEN boot.had[Order[k]] /\ rollback'[attempt][Order[k]] = before[Order[k]]
                 ELSE live'[Order[k]] = before[Order[k]]
    <3>1. CASE k = boot.at - 1
      BY <2>1, <2>4, <3>1 DEF Replaced
    <3>2. CASE k # boot.at - 1
      <4>1. (Replaced(k)' <=> Replaced(k)) /\ Order[k] \in Items /\ Order[k] # Last
        BY <1>1, <2>1, <3>2, OrderFacts DEF Replaced, InArchive
      <4> QED  BY <1>4, <2>4, <4>1
    <3> QED  BY <3>1, <3>2
  <2> QED  BY <1>5, <2>1, <2>5
<1>9. CASE UndoEnds
  <2>1. boot'.pc = "open" /\ boot.pc = "undo" /\ boot.at = 1 /\ live' = live
    BY <1>9, RestoreFacts DEF UndoEnds, At, Goto, files, WholeInv, Boots
  <2>2. \A i \in Items : live[i] = before[i]
    BY <1>4, <2>1, OrderFacts DEF Replaced
  <2>3. live = before
    BY <2>2, RestoreFacts DEF WholeInv
  <2> QED  BY <1>1, <2>1, <2>3 DEF AfterFailures, Applied
<1> QED  BY <1>6, <1>7, <1>8, <1>9

LEMMA WholeStep ==
  ASSUME WholeInv, [HostNext]_hostVars
  PROVE  WholeInv'
PROOF
<1>1. RestoreInv'
  BY RestoreStep DEF WholeInv
<1>2. CASE Running \/ Open
  <2>1. life' = "up"
    BY <1>2 DEF Running, Commit, BeginStage, RemoveOldStage, FinishStage, StageFails,
       RespondFails, Open
  <2>2. boot'.pc = "idle"
    BY <1>1, <2>1, RestoreFacts
    DEF RestoreInv, TypeOK
  <2> QED  BY <1>1, <2>1, <2>2 DEF WholeInv, UndoneAfterFailure, AfterCrashes, AfterFailures
<1>3. CASE UNCHANGED <<life, restoreVars>>
  BY <1>1, <1>3 DEF WholeInv, UndoneAfterFailure, AfterCrashes, AfterFailures, Applied,
     Whole, Replaced, InArchive, restoreVars, files, history
<1>4. CASE StartProgram
  BY <1>1, <1>4, StartIsWhole DEF StartProgram, WholeInv
<1>5. CASE Applying
  BY <1>1, <1>5, CheckIsWhole, PrepareIsWhole, SkipIsWhole, PreserveIsWhole,
     PreserveFailsIsWhole, ActivateIsWhole, ActivateFailsIsWhole, FinishIsWhole,
     UndoingIsWhole
  DEF Applying, WholeInv
<1>6. CASE EndProgram
  BY <1>1, <1>6, DownIsWhole DEF EndProgram, WholeInv
<1> QED
  BY <1>2, <1>3, <1>4, <1>5, <1>6 DEF HostNext, HostStep, hostVars

-----------------------------------------------------------------------------
(* The update of the program.                                              *)

Jobs ==
  [pc : {"idle", "lock", "check", "download", "verify", "copy", "replace"},
   force : BOOLEAN, version : Versions \cup {Damaged},
   got : Versions \cup {Damaged}]

LEMMA UpdateInitial ==
  ASSUME HostInit
  PROVE  UpdateInv
PROOF
<1>1. /\ life = "up" /\ running = 1 /\ executable = 1 /\ previous = 0 /\ latest = 1
      /\ restarting = FALSE /\ lock = Nobody /\ late = FALSE
      /\ job = [w \in Workers |-> NoJob]
  BY DEF HostInit, Init, UpdateInit, Damaged
<1>2. 1 \in Versions /\ NoJob \in Jobs
  BY UpdateAssumption DEF Versions, NoJob, Jobs, Damaged
<1>3. UpdateTypeOK
  BY <1>1, <1>2 DEF UpdateTypeOK, Jobs, Damaged
<1>4. UpdateInProgress
  BY <1>1 DEF UpdateInProgress, Locked, NoJob
<1> QED  BY <1>1, <1>3, <1>4 DEF UpdateInv, WayBack

\* What each step of a command does to the program and to its own record.
LEMMA UpdateStepKeeps ==
  ASSUME UpdateInv, life = "up", life' = life, UpdateStep
  PROVE  UpdateInv'
PROOF
<1> USE UpdateAssumption DEF Damaged
<1>1. PICK w \in Workers :
        \/ \E force \in BOOLEAN : Command(w, force)
        \/ TryLock(w) \/ Check(w) \/ Download(w) \/ Verify(w) \/ Copy(w)
        \/ Replace(w) \/ UpdateFails(w)
  BY DEF UpdateStep
<1>2. /\ job \in [Workers -> Jobs] /\ job[w] \in Jobs
      /\ running \in Versions /\ executable \in Versions /\ latest \in Versions
      /\ 0 \notin Versions /\ NoJob \in Jobs /\ NoJob.pc = "idle"
      /\ executable # running => restarting
      /\ executable # running /\ ~late => previous = running
  BY DEF UpdateInv, UpdateTypeOK, Jobs, Versions, NoJob, WayBack
<1>3. \A v \in Workers :
        /\ Locked(v) => lock = v
        /\ Locked(v) /\ restarting => late
        /\ job[v].pc \in {"download", "verify", "copy", "replace"} => job[v].version # 0
        /\ job[v].pc \in {"copy", "replace"} => job[v].got = job[v].version
        /\ job[v].pc = "replace" /\ ~late => previous = running
  BY DEF UpdateInv, UpdateInProgress
\* It is enough to show what concerns this worker, the lock and the program.
<1>4. ASSUME NEW j \in Jobs, job' = [job EXCEPT ![w] = j],
             UNCHANGED <<running, latest>>,
             restarting' \in BOOLEAN, late' \in BOOLEAN, late => late',
             executable' \in Versions, previous' \in Versions \cup {0},
             lock' \in Workers \cup {Nobody},
             executable' # running => restarting',
             executable' # running /\ ~late' => previous' = running,
             j.pc \in {"check", "download", "verify", "copy", "replace"} =>
               lock' = w /\ (restarting' => late'),
             j.pc \in {"download", "verify", "copy", "replace"} => j.version # 0,
             j.pc \in {"copy", "replace"} => j.got = j.version,
             j.pc = "replace" /\ ~late' => previous' = running,
             \A v \in Workers : v # w /\ Locked(v) =>
               /\ lock' = v /\ (restarting' => late')
               /\ previous' = previous
      PROVE  UpdateInv'
  <2>1. UpdateTypeOK'
    BY <1>2, <1>4 DEF UpdateInv, UpdateTypeOK, Jobs
  <2>2. ASSUME NEW v \in Workers
        PROVE  /\ Locked(v)' => lock' = v
               /\ job'[v].pc \in {"download", "verify", "copy", "replace"} =>
                    job'[v].version # 0
               /\ job'[v].pc \in {"copy", "replace"} => job'[v].got = job'[v].version
               /\ Locked(v)' /\ restarting' => late'
               /\ job'[v].pc = "replace" /\ ~late' => previous' = running'
    <3>1. CASE v = w
      <4>1. job'[v] = j
        BY <1>2, <1>4, <3>1
      <4> QED  BY <1>4, <3>1, <4>1 DEF Locked
    <3>2. CASE v # w
      <4>1. job'[v] = job[v] /\ (Locked(v)' <=> Locked(v))
        BY <1>2, <1>4, <3>2 DEF Locked
      <4>2. job[v].pc = "replace" => Locked(v)
        BY DEF Locked
      <4> QED  BY <1>3, <1>4, <3>2, <4>1, <4>2
    <3> QED  BY <3>1, <3>2
  <2>3. UpdateInProgress'
    BY <2>2 DEF UpdateInProgress
  <2>4. WayBack'
    BY <1>4 DEF WayBack
  <2> QED  BY <1>4, <2>1, <2>3, <2>4 DEF UpdateInv
<1>5. \A v \in Workers : v # w /\ Locked(v) => lock = v
  BY <1>3
<1>6. ASSUME Locked(w), lock' = Nobody, job' = [job EXCEPT ![w] = NoJob],
             UNCHANGED <<running, latest, late, previous>>,
             executable' \in Versions, restarting' \in BOOLEAN,
             executable' # running => restarting',
             executable' # running /\ ~late => previous = running
      PROVE  UpdateInv'
  <2>1. \A v \in Workers : v # w => ~Locked(v)
    BY <1>3, <1>6
  <2>2. previous \in Versions \cup {0} /\ late \in BOOLEAN
    BY DEF UpdateInv, UpdateTypeOK
  <2> QED  BY <1>2, <1>4, <1>6, <2>1, <2>2
<1> DEFINE Same == UNCHANGED <<running, executable, previous, latest, restarting, late>>
<1>7. previous \in Versions \cup {0} /\ restarting \in BOOLEAN /\ late \in BOOLEAN
      /\ lock \in Workers \cup {Nobody}
  BY DEF UpdateInv, UpdateTypeOK
<1>8. ASSUME NEW force \in BOOLEAN, Command(w, force)
      PROVE  UpdateInv'
  <2> DEFINE j == [job[w] EXCEPT !.pc = "lock", !.force = force]
  <2>1. Same /\ lock' = lock /\ job' = [job EXCEPT ![w] = j] /\ j \in Jobs /\ j.pc = "lock"
    BY <1>2, <1>8 DEF Command, programs, Jobs
  <2> HIDE DEF j
  <2> QED  BY <1>2, <1>3, <1>4, <1>5, <1>7, <2>1
<1>9. CASE TryLock(w)
  <2>1. /\ UNCHANGED <<running, executable, previous, latest, restarting>>
        /\ late' = (late \/ restarting)
    BY <1>9 DEF TryLock, programs
  <2>2. CASE lock = Nobody
    <3> DEFINE j == [job[w] EXCEPT !.pc = "check"]
    <3>1. lock' = w /\ job' = [job EXCEPT ![w] = j] /\ j \in Jobs /\ j.pc = "check"
      BY <1>2, <1>9, <2>2 DEF TryLock, To, Jobs
    <3>2. \A v \in Workers : ~Locked(v)
      BY <1>3, <2>2 DEF Nobody
    <3> HIDE DEF j
    <3> QED  BY <1>2, <1>4, <1>7, <2>1, <3>1, <3>2
  <2>3. CASE lock # Nobody
    <3>1. lock' = lock /\ job' = [job EXCEPT ![w] = NoJob]
      BY <1>9, <2>3 DEF TryLock
    <3> QED  BY <1>2, <1>3, <1>4, <1>5, <1>7, <2>1, <3>1
  <2> QED  BY <2>2, <2>3
<1>10. CASE Check(w)
  <2>1. Same /\ Locked(w)
    BY <1>10 DEF Check, programs, On, Locked
  <2>2. CASE latest > running \/ job[w].force
    <3> DEFINE j == [job[w] EXCEPT !.pc = "download", !.version = latest]
    <3>1. /\ lock' = lock /\ job' = [job EXCEPT ![w] = j] /\ j \in Jobs
          /\ j.pc = "download" /\ j.version = latest
      BY <1>2, <1>10, <2>2 DEF Check, Jobs
    <3> HIDE DEF j
    <3> QED  BY <1>2, <1>3, <1>4, <1>5, <1>7, <2>1, <3>1
  <2>3. CASE ~(latest > running \/ job[w].force)
    BY <1>2, <1>6, <1>7, <1>10, <2>1, <2>3 DEF Check, Ends
  <2> QED  BY <2>2, <2>3
<1>11. CASE Download(w)
  <2>1. PICK v \in Versions \cup {0} :
          job' = [job EXCEPT ![w].pc = "verify", ![w].got = v]
    BY <1>2, <1>11 DEF Download, Jobs
  <2> DEFINE j == [job[w] EXCEPT !.pc = "verify", !.got = v]
  <2>2. /\ Same /\ Locked(w) /\ lock' = lock
        /\ job' = [job EXCEPT ![w] = j] /\ j \in Jobs
        /\ j.pc = "verify"
        /\ j.version = job[w].version /\ job[w].pc = "download"
    BY <1>2, <1>11, <2>1 DEF Download, programs, On, Locked, Jobs
  <2> HIDE DEF j
  <2> QED  BY <1>2, <1>3, <1>4, <1>5, <1>7, <2>2
<1>12. CASE Verify(w)
  <2> DEFINE j == [job[w] EXCEPT !.pc = "copy"]
  <2>1. /\ Same /\ Locked(w) /\ lock' = lock
        /\ job' = [job EXCEPT ![w] = j] /\ j \in Jobs
        /\ j.pc = "copy" /\ j.version = job[w].version /\ j.got = j.version
        /\ job[w].pc = "verify"
    BY <1>2, <1>12 DEF Verify, programs, On, To, Locked, Jobs
  <2> HIDE DEF j
  <2> QED  BY <1>2, <1>3, <1>4, <1>5, <1>7, <2>1
<1>13. CASE Copy(w)
  <2> DEFINE j == [job[w] EXCEPT !.pc = "replace"]
  <2>1. /\ UNCHANGED <<running, executable, latest, restarting, late>>
        /\ previous' = executable
        /\ Locked(w) /\ lock' = lock
        /\ job' = [job EXCEPT ![w] = j] /\ j \in Jobs
        /\ j.pc = "replace" /\ j.version = job[w].version /\ j.got = job[w].got
        /\ job[w].pc = "copy"
    BY <1>2, <1>13 DEF Copy, programs, On, To, Locked, Jobs
  <2>2. \A v \in Workers : v # w => ~Locked(v)
    BY <1>3, <2>1
  <2>3. ~late => executable = running
    BY <1>2, <1>3, <2>1
  <2> HIDE DEF j
  <2> QED  BY <1>2, <1>3, <1>4, <1>7, <2>1, <2>2, <2>3
<1>14. CASE Replace(w)
  <2>1. /\ UNCHANGED <<running, previous, latest, late>>
        /\ executable' = job[w].got /\ restarting' = TRUE
        /\ Locked(w) /\ lock' = Nobody /\ job' = [job EXCEPT ![w] = NoJob]
        /\ job[w].pc = "replace"
    BY <1>14 DEF Replace, On, Locked, Ends
  <2>2. job[w].got \in Versions
    BY <1>2, <1>3, <2>1 DEF Jobs
  <2> QED  BY <1>2, <1>3, <1>6, <2>1, <2>2
<1>15. CASE UpdateFails(w)
  <2>1. Same /\ Locked(w) /\ lock' = Nobody /\ job' = [job EXCEPT ![w] = NoJob]
    BY <1>15 DEF UpdateFails, On, Locked, Ends, programs
  <2> QED  BY <1>2, <1>6, <1>7, <2>1
<1> QED
  BY <1>1, <1>8, <1>9, <1>10, <1>11, <1>12, <1>13, <1>14, <1>15

LEMMA UpdateKeeps ==
  ASSUME UpdateInv, [HostNext]_hostVars
  PROVE  UpdateInv'
PROOF
<1> USE UpdateAssumption DEF Damaged
<1>1. CASE UpdateStep /\ life = "up" /\ UNCHANGED <<life, restoreVars>>
  BY <1>1, UpdateStepKeeps
<1>2. CASE Publish /\ UNCHANGED <<life, restoreVars>>
  <2>1. latest' \in Versions
    BY <1>2 DEF Publish, UpdateInv, UpdateTypeOK, Versions
  <2> QED
    BY <1>2, <2>1 DEF Publish, programs, UpdateInv, UpdateTypeOK,
       UpdateInProgress,
       WayBack, Locked
<1>3. CASE StartProgram
  <2>1. /\ life = "down" /\ life' = "starting"
        /\ running' = executable /\ late' = FALSE
        /\ UNCHANGED <<executable, previous, latest, restarting, lock, job>>
    BY <1>3 DEF StartProgram, Start, Begins, programs
  <2>2. \A w \in Workers : ~Locked(w) /\ job[w].pc = "idle"
    BY <2>1 DEF UpdateInv, NoJob, Locked
  <2> QED
    BY <2>1, <2>2 DEF UpdateInv, UpdateTypeOK, UpdateInProgress, WayBack, Locked
<1>4. CASE EndProgram
  <2>1. /\ life' = "down" /\ restarting' = FALSE /\ lock' = Nobody
        /\ job' = [w \in Workers |-> NoJob]
        /\ UNCHANGED <<running, executable, previous, latest, late>>
    BY <1>4 DEF EndProgram, Stops, Crash, GoesDown, Halts, programs
  <2>2. NoJob \in Jobs
    BY DEF NoJob, Jobs
  <2>3. UpdateTypeOK'
    BY <2>1, <2>2 DEF UpdateInv, UpdateTypeOK, Jobs, Nobody
  <2>4. UpdateInProgress'
    BY <2>1 DEF UpdateInProgress, Locked, NoJob
  <2> QED  BY <2>1, <2>3, <2>4 DEF UpdateInv, WayBack
<1>5. CASE UNCHANGED updateVars /\ (Running \/ Applying \/ Open \/ UNCHANGED <<life, restoreVars>>)
  <2>1. UNCHANGED <<running, executable, previous, latest, restarting, lock, job, late>>
    BY <1>5 DEF updateVars, programs
  <2>2. UpdateTypeOK' /\ UpdateInProgress' /\ WayBack'
    BY <2>1 DEF UpdateInv, UpdateTypeOK, UpdateInProgress, WayBack, Locked
  <2>3. life' = life \/ (life = "starting" /\ life' = "up")
    BY <1>5 DEF Running, Commit, BeginStage, RemoveOldStage, FinishStage,
       StageFails,
       RespondFails, Applying, Quarantine, PrepareFails, Prepare, Skip, Preserve,
       PreserveFails, Activate, ActivateFails, Finish, UndoSkip, UndoRemove,
       UndoRename, UndoEnds, Open, At
  <2> QED  BY <2>1, <2>2, <2>3 DEF UpdateInv
<1> QED
  BY <1>1, <1>2, <1>3, <1>4, <1>5 DEF HostNext, HostStep, hostVars

-----------------------------------------------------------------------------
(* The theorems.                                                           *)

\* The strengthened invariants hold in every behaviour of the host.
THEOREM HostInvariance == HostSpec => [](RestoreInv /\ UpdateInv)
PROOF
<1>1. HostInit => RestoreInv /\ UpdateInv
  BY RestoreInit, UpdateInitial DEF HostInit
<1>2. RestoreInv /\ UpdateInv /\ [HostNext]_hostVars => (RestoreInv /\ UpdateInv)'
  BY RestoreStep, UpdateKeeps
<1> QED  BY <1>1, <1>2, PTL DEF HostSpec

\* Files, commands and the restore in progress keep their types, and what is
\* being applied stays staged until it is in place (backup.go:306-410).
THEOREM TypeCorrect == HostSpec => []TypeOK
PROOF
<1>1. RestoreInv => TypeOK
  BY DEF RestoreInv
<1> QED  BY <1>1, HostInvariance, PTL

\* Whatever crashes and fails, and however often a restore is tried, what the
\* host had when it last ran is at its place or in a rollback directory until it
\* runs again (backup.go:374-427).
THEOREM OriginalsStay == HostSpec => []OriginalsKept
PROOF
<1>1. RestoreInv => OriginalsKept
  BY DEF RestoreInv
<1> QED  BY <1>1, HostInvariance, PTL

\* A staged archive is never lost: it is given up when every item of it is in
\* place, for another one, or to be kept aside because unpacking it failed
\* (backup.go:280, 319-323, 406).
THEOREM StagedStays == HostSpec => StagedUntilApplied
PROOF
<1>1. ASSUME RestoreInv, [HostNext]_hostVars
      PROVE  [\A a \in Archives : pending = a /\ pending' = None =>
                \/ \A i \in Parts[a] : live[i] = a
                \/ cmd.pc = "remove"
                \/ boot.pc = "check" /\ a \in aside' /\ UNCHANGED <<live, rollback>>]_vars
  <2> SUFFICES ASSUME NEW a \in Archives, pending = a, pending' = None
               PROVE  \/ \A i \in Parts[a] : live[i] = a
                      \/ cmd.pc = "remove"
                      \/ boot.pc = "check" /\ a \in aside' /\ UNCHANGED <<live, rollback>>
    OBVIOUS
  <2>1. a # None /\ a # "damaged" /\ Parts[a] \subseteq Items
    BY RestoreAssumption
  <2>2. Finish \/ RemoveOldStage \/ Quarantine
    BY <1>1, <2>1 DEF HostNext, HostStep, hostVars, Running, Commit, BeginStage,
       FinishStage, StageFails, RespondFails, StartProgram, Start, Applying,
       PrepareFails, Prepare, Skip, Preserve, PreserveFails, Activate,
       ActivateFails, UndoSkip, UndoRemove, UndoRename, UndoEnds, Open, EndProgram,
       Stops, Crash, GoesDown, files, history, restoreVars, RestoreInv, TypeOK, None
  <2>3. CASE RemoveOldStage
    BY <2>3 DEF RemoveOldStage
  <2>4. CASE Finish
    <3>1. boot.pc = "preserve" /\ boot.at > 5 /\ boot.archive = a
      BY <1>1, <2>4, OrderFacts DEF Finish, At, RestoreInv, TypeOK, Boots, None
    <3>2. ASSUME NEW i \in Parts[a]  PROVE live[i] = a
      <4>1. PICK k \in 1..5 : Order[k] = i
        BY <2>1, OrderFacts
      <4>2. boot.at \in 1..6
        BY OrderFacts, <1>1 DEF RestoreInv, TypeOK, Boots
      <4>3. k \in 1..Len(Order) /\ k < boot.at /\ InArchive(Order[k])
        BY <3>1, <4>1, <4>2, OrderFacts DEF InArchive
      <4> QED  BY <1>1, <3>1, <4>1, <4>3 DEF RestoreInv, ReplacedIsInPlace
    <3> QED  BY <3>2
  <2>5. CASE Quarantine
    BY <2>1, <2>5 DEF Quarantine, At, None
  <2> QED  BY <2>2, <2>3, <2>4, <2>5
<1> QED  BY <1>1, HostInvariance, PTL DEF HostSpec, StagedUntilApplied

\* The database is opened over what was there when the host last ran or over
\* what is there with every item of one archive in place of its own, if only
\* crashes, or only failures, came between (backup.go:306-427).
THEOREM RestoreIsWhole == HostSpec => []AllOrNothing
PROOF
<1>1. HostInit => WholeInv
  BY RestoreInit DEF HostInit, Init, NoBoot, WholeInv, UndoneAfterFailure,
     AfterCrashes, AfterFailures
<1>2. WholeInv /\ [HostNext]_hostVars => WholeInv'
  BY WholeStep
<1>3. WholeInv => AllOrNothing
  BY RestoreFacts DEF WholeInv, AllOrNothing, At, AfterCrashes, AfterFailures, Applied
<1> QED  BY <1>1, <1>2, <1>3, PTL DEF HostSpec

\* For any number of workers and releases, only a program whose checksum was
\* verified is ever started (updater.go:169-205).
THEOREM UpdatesAreSafe == HostSpec => []OnlyVerified
PROOF
<1>1. UpdateInv => OnlyVerified
  BY UpdateAssumption DEF UpdateInv, UpdateTypeOK, OnlyVerified, Versions,
     Damaged
<1> QED  BY <1>1, HostInvariance, PTL

\* For any number of workers and releases, the program that runs can be put back
\* until another is started, unless a command got the mutex after the update
\* (updater.go:169-205, core.go:257-331).
THEOREM WayBackStays == HostSpec => []WayBack
PROOF
<1>1. UpdateInv => WayBack
  BY DEF UpdateInv
<1> QED  BY <1>1, HostInvariance, PTL
=============================================================================
