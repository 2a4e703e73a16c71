---------------------------- MODULE PublishProof -----------------------------
(***************************************************************************)
(* Proofs about Publish, for every number of runs, one after the other or  *)
(* at the same time, of pieces and of clock ticks, and every retention.    *)
(* DirectoryInv is inductive.  OwnPieces and PieceInOneBlock depend on the *)
(* blocks only, RunInv and the two conjuncts on leftovers on where the     *)
(* runs are; WorkIsOnDisk needs them all.                                  *)
(***************************************************************************)
EXTENDS Publish, WellFoundedInduction, TLAPS

LEMMA RunFacts ==
    /\ \A r \in Runs : r \in Nat
    /\ \A p \in Pieces : p = <<p[1], p[2]>> /\ p[1] \in Runs /\ p[2] \in 1 .. MaxPieces
    /\ \A r \in Runs, i \in 1 .. MaxPieces : <<r, i>> \in Pieces
    /\ \A b : b \in Blocks <=> b \subseteq Pieces /\ b # {}
<1>1. \A r \in Runs : r \in Nat
  BY DEF Runs
<1>2. \A p \in Pieces : p = <<p[1], p[2]>> /\ p[1] \in Runs /\ p[2] \in 1 .. MaxPieces
  <2> SUFFICES ASSUME NEW p \in Runs \X (1 .. MaxPieces)
               PROVE  p = <<p[1], p[2]>> /\ p[1] \in Runs /\ p[2] \in 1 .. MaxPieces
    BY DEF Pieces
  <2> QED OBVIOUS
<1>3. \A r \in Runs, i \in 1 .. MaxPieces : <<r, i>> \in Pieces
  BY DEF Pieces
<1>4. \A b : b \in Blocks <=> b \subseteq Pieces /\ b # {}
  BY DEF Blocks
<1> QED BY <1>1, <1>2, <1>3, <1>4

LEMMA Greatest ==
    ASSUME NEW n \in Nat, NEW S, S \subseteq 1 .. n, S # {}
    PROVE  \E m \in S : \A k \in S : k <= m
<1> DEFINE T == {n - k : k \in S}
<1>1. T \subseteq Nat /\ T # {}
  <2>1. \A k \in S : k \in 1 .. n
    OBVIOUS
  <2>2. \A k \in S : n - k \in Nat
    BY <2>1
  <2> QED BY <2>2
<1>2. PICK x \in T : \A y \in T : <<y, x>> \notin OpToRel(<, Nat)
  BY <1>1, NatLessThanWellFounded, WFMin
<1>3. \A y \in T : <<y, x>> \in Nat \X Nat
  BY <1>1
<1>4. \A y \in T : ~(y < x)
  BY <1>2, <1>3 DEF OpToRel
<1>5. PICK m \in S : x = n - m
  OBVIOUS
<1>6. \A k \in S : ~(n - k < n - m)
  BY <1>4, <1>5
<1> QED BY <1>6

(* A block ends with one of its pieces.                                    *)
LEMMA BlockEnds ==
    ASSUME NEW b \in Blocks
    PROVE  /\ EndOf(b) \in 1 .. MaxPieces
           /\ \E p \in b : p[2] = EndOf(b)
           /\ \A p \in b : p[2] <= EndOf(b)
<1> DEFINE S == {p[2] : p \in b}
<1>1. S \subseteq 1 .. MaxPieces /\ S # {}
  <2>1. b # {} /\ \A p \in b : p[2] \in 1 .. MaxPieces
    BY RunFacts
  <2> QED BY <2>1
<1>2. \E m \in S : \A k \in S : k <= m
  BY <1>1, BoundAssumption, Greatest
<1>3. \E i \in 1 .. MaxPieces : (\E p \in b : p[2] = i) /\ (\A p \in b : p[2] <= i)
  BY <1>1, <1>2
<1> QED BY <1>3 DEF EndOf

LEMMA InitInv == Init => DirectoryInv /\ OutputIsFinishedWork
<1> SUFFICES ASSUME Init PROVE DirectoryInv /\ OutputIsFinishedWork
  OBVIOUS
<1>1. TypeOK
  <2>1. clock \in 0 .. MaxTime /\ time \in [Runs -> 0 .. MaxTime]
    BY BoundAssumption DEF Init
  <2> QED BY <2>1 DEF Init, TypeOK
<1>2. RunInv
  <2>1. \A r \in Runs : at[r] = "off" /\ time[r] = 0 /\ ~tmpExists[r] /\ made[r] = {}
                          /\ old[r] = {}
    BY DEF Init
  <2>2. out = {} /\ clock = 0 /\ "off" \notin Active
    BY DEF Init, Active
  <2> QED BY <2>1, <2>2 DEF RunInv
<1>3. OwnPieces /\ PieceInOneBlock
  BY DEF Init, OwnPieces, PieceInOneBlock, Dirs
<1>4. NoLeftovers /\ LeftoversAreOld /\ RefusedOnlyAtFirst
  BY DEF Init, NoLeftovers, LeftoversAreOld, RefusedOnlyAtFirst, Active
<1>5. WorkIsOnDisk
  BY DEF Init, WorkIsOnDisk, UnexpiredOnDisk
<1>6. OutputIsFinishedWork
  BY DEF Init, OutputIsFinishedWork, OfRun
<1> QED BY <1>1, <1>2, <1>3, <1>4, <1>5, <1>6 DEF DirectoryInv

-----------------------------------------------------------------------------
LEMMA TypeStep == DirectoryInv /\ Next => TypeOK'
<1> SUFFICES ASSUME DirectoryInv, Next PROVE TypeOK'
  OBVIOUS
<1>0. TypeOK
  BY DEF DirectoryInv
<1>1. CASE Tick
  <2>1. clock' \in 0 .. MaxTime
    BY <1>0, <1>1, BoundAssumption DEF Tick, TypeOK
  <2> QED BY <1>0, <1>1, <2>1 DEF Tick, TypeOK, settings
<1>2. ASSUME NEW r \in Runs, Start(r) PROVE TypeOK'
  BY <1>0, <1>2 DEF Start, Moves, Leftovers, TypeOK, settings, Active
<1>3. ASSUME NEW r \in Runs, Refused(r) \/ Scanned(r) \/ Fails(r) \/ Crash(r) PROVE TypeOK'
  BY <1>0, <1>3 DEF Refused, Scanned, Fails, Crash, Moves, TypeOK, settings, Active
<1>4. ASSUME NEW r \in Runs, RemoveOld(r) PROVE TypeOK'
  BY <1>0, <1>4 DEF RemoveOld, TypeOK, settings, Active
<1>5. ASSUME NEW r \in Runs, Flush(r) PROVE TypeOK'
  <2>1. PICK i \in 1 .. MaxPieces :
           /\ made' = [made EXCEPT ![r] = made[r] \cup {<<r, i>>}]
           /\ app' = [app EXCEPT ![r] = app[r] \cup {{<<r, i>>}}]
    BY <1>5 DEF Flush
  <2>2. <<r, i>> \in Pieces /\ {<<r, i>>} \in Blocks
    BY RunFacts
  <2>3. made' \in [Runs -> SUBSET Pieces]
    BY <1>0, <2>1, <2>2 DEF TypeOK
  <2>4. app' \in [Runs -> SUBSET Blocks]
    <3> DEFINE new == {<<r, i>>}
    <3>1. new \in Blocks /\ app' = [app EXCEPT ![r] = app[r] \cup {new}]
      BY <2>1, <2>2
    <3> HIDE DEF new
    <3> QED BY <1>0, <3>1 DEF TypeOK
  <2>5. tmpExists' \in [Runs -> BOOLEAN]
    BY <1>0, <1>5 DEF Flush, TypeOK
  <2> QED BY <1>0, <1>5, <2>3, <2>4, <2>5 DEF Flush, TypeOK, settings
<1>6. ASSUME NEW r \in Runs, CloseBegins(r) \/ CloseEnds(r) PROVE TypeOK'
  BY <1>0, <1>6 DEF CloseBegins, CloseEnds, Moves, TypeOK, settings, Active
<1>7. ASSUME NEW r \in Runs, CloseMoves(r) PROVE TypeOK'
  BY <1>0, <1>7 DEF CloseMoves, TypeOK, settings
<1>8. ASSUME NEW r \in Runs, Compact(r) PROVE TypeOK'
  <2>1. PICK overlapping \in SUBSET Kept(tmp[r]) :
           tmp' = [tmp EXCEPT ![r] = (Kept(tmp[r]) \ overlapping)
                                        \cup ({UNION overlapping} \ {{}})]
    BY <1>8 DEF Compact
  <2>2. Kept(tmp[r]) \subseteq Blocks
    BY <1>0 DEF Kept, TypeOK
  <2>3. {UNION overlapping} \ {{}} \subseteq Blocks
    BY <2>1, <2>2, RunFacts
  <2> QED BY <1>0, <1>8, <2>1, <2>2, <2>3 DEF Compact, Moves, TypeOK, settings, Active
<1>9. ASSUME NEW r \in Runs, PublishBegins(r) \/ PublishEnds(r) PROVE TypeOK'
  BY <1>0, <1>9 DEF PublishBegins, PublishEnds, Moves, TypeOK, settings, Active
<1>10. ASSUME NEW r \in Runs, PublishMoves(r) PROVE TypeOK'
  BY <1>0, <1>10 DEF PublishMoves, TypeOK, settings
<1>11. CASE Ended
  BY <1>0, <1>11 DEF Ended, vars, settings, TypeOK
<1> QED BY <1>1, <1>2, <1>3, <1>4, <1>5, <1>6, <1>7, <1>8, <1>9, <1>10, <1>11 DEF Next

-----------------------------------------------------------------------------
(* The blocks: whose they are, and that no two have a piece in common.     *)
BlocksInv == OwnPieces /\ PieceInOneBlock

(* Two runs have no block in common.                                       *)
LEMMA ForeignBlocks ==
    ASSUME TypeOK, OwnPieces, NEW r \in Runs, NEW s \in Runs, r # s, NEW b \in Dirs(r)
    PROVE  b \notin Dirs(s)
<1>1. b # {} /\ b \subseteq made[r]
  BY RunFacts DEF TypeOK, OwnPieces, Dirs
<1>2. \A p \in b : p[1] = r
  BY <1>1 DEF OwnPieces
<1>3. b \in Dirs(s) => \A p \in b : p[1] = s
  BY DEF OwnPieces
<1> QED BY <1>1, <1>2, <1>3

(* Blocks are removed, or moved from one directory to another.             *)
LEMMA BlocksStay ==
    ASSUME TypeOK, BlocksInv, made' = made,
           \A r \in Runs : Dirs(r)' \subseteq Dirs(r) /\ app'[r] \cap tmp'[r] = {},
           out' = out \/ \E r \in Runs : \E b \in Dirs(r) \ Dirs(r)' : out' = out \cup {b}
    PROVE  BlocksInv'
<1>1. CASE out' = out
  BY <1>1 DEF BlocksInv, OwnPieces, PieceInOneBlock
<1>2. ASSUME NEW r \in Runs, NEW b \in Dirs(r) \ Dirs(r)', out' = out \cup {b}
      PROVE  BlocksInv'
  <2>1. b \subseteq made[r] /\ \A p \in b : p[1] = r
    BY DEF BlocksInv, OwnPieces
  <2>2. OwnPieces'
    BY <1>2, <2>1 DEF BlocksInv, OwnPieces
  <2>3. \A s \in Runs : b \notin Dirs(s)'
    BY ForeignBlocks DEF BlocksInv
  <2>4. /\ \A q, s \in Runs : \A c \in Dirs(q), d \in Dirs(s) : c # d => c \cap d = {}
        /\ \A q \in Runs : \A c \in Dirs(q), d \in out : c \cap d = {}
        /\ \A c, d \in out : c # d => c \cap d = {}
    BY DEF BlocksInv, PieceInOneBlock
  <2>5. \A q, s \in Runs : \A c \in Dirs(q)', d \in Dirs(s)' : c # d => c \cap d = {}
    BY <2>4
  <2>6. \A q \in Runs : \A c \in Dirs(q)', d \in out' : c \cap d = {}
    BY <1>2, <2>3, <2>4
  <2>7. \A c, d \in out' : c # d => c \cap d = {}
    BY <1>2, <2>4
  <2>8. PieceInOneBlock'
    BY <2>5, <2>6, <2>7 DEF PieceInOneBlock
  <2> QED BY <2>2, <2>8 DEF BlocksInv
<1> QED BY <1>1, <1>2

(* A block that has a piece of none of the others is made of blocks of a   *)
(* run that go away, or of a new piece.                                    *)
LEMMA BlockIsMade ==
    ASSUME TypeOK, BlocksInv, NEW r \in Runs, NEW new \in Blocks, out' = out,
           \A s \in Runs : s # r => Dirs(s)' = Dirs(s) /\ app'[s] \cap tmp'[s] = {}
                                  /\ made'[s] = made[s],
           made[r] \subseteq made'[r], made'[r] \subseteq {r} \X (1 .. MaxPieces),
           new \subseteq made'[r], app'[r] \cap tmp'[r] = {},
           \A b \in Dirs(r)' : b = new \/ (b \in Dirs(r) /\ b \cap new = {}),
           \A s \in Runs \ {r} : \A b \in Dirs(s) : b \cap new = {},
           \A b \in out : b \cap new = {}
    PROVE  BlocksInv'
<1>1. OwnPieces'
  <2>1. \A s \in Runs : made[s] \subseteq made'[s]
                       /\ made'[s] \subseteq {s} \X (1 .. MaxPieces)
    BY DEF BlocksInv, OwnPieces
  <2>2. \A s \in Runs : \A b \in Dirs(s)' : b \subseteq made'[s]
    BY <2>1 DEF BlocksInv, OwnPieces
  <2>3. \A b \in out' : \A p \in b : p \in made'[p[1]]
    <3>1. \A b \in out : \A p \in b : p[1] \in Runs /\ p \in made[p[1]]
      BY RunFacts DEF BlocksInv, OwnPieces, TypeOK
    <3> QED BY <2>1, <3>1
  <2> QED BY <2>1, <2>2, <2>3 DEF OwnPieces
<1>2. /\ \A q, s \in Runs : \A c \in Dirs(q), d \in Dirs(s) : c # d => c \cap d = {}
      /\ \A q \in Runs : \A c \in Dirs(q), d \in out : c \cap d = {}
      /\ \A c, d \in out : c # d => c \cap d = {}
  BY DEF BlocksInv, PieceInOneBlock
<1>3. new # {}
  BY RunFacts
<1>4. \A s \in Runs : \A b \in Dirs(s)' : b = new \/ (b \in Dirs(s) /\ b \cap new = {})
  OBVIOUS
<1>5. \A q, s \in Runs : \A c \in Dirs(q)', d \in Dirs(s)' : c # d => c \cap d = {}
  BY <1>2, <1>4
<1>6. \A q \in Runs : \A c \in Dirs(q)', d \in out' : c \cap d = {}
  BY <1>2, <1>3, <1>4
<1>7. \A q \in Runs : app'[q] \cap tmp'[q] = {}
  OBVIOUS
<1>8. PieceInOneBlock'
  BY <1>2, <1>5, <1>6, <1>7 DEF PieceInOneBlock
<1> QED BY <1>1, <1>8 DEF BlocksInv

LEMMA BlocksStep == DirectoryInv /\ Next => BlocksInv'
<1> SUFFICES ASSUME DirectoryInv, Next PROVE BlocksInv'
  OBVIOUS
<1>0. TypeOK /\ BlocksInv
  BY DEF DirectoryInv, BlocksInv
<1>1. CASE UNCHANGED <<app, tmp, made, out>>
  BY <1>0, <1>1 DEF BlocksInv, OwnPieces, PieceInOneBlock, Dirs
<1>2. ASSUME NEW r \in Runs, RemoveOld(r) PROVE BlocksInv'
  <2>1. /\ made' = made /\ out' = out
        /\ \A s \in Runs : app'[s] \subseteq app[s] /\ tmp'[s] \subseteq tmp[s]
    BY <1>0, <1>2 DEF RemoveOld, TypeOK
  <2>2. \A s \in Runs : Dirs(s)' \subseteq Dirs(s) /\ app'[s] \cap tmp'[s] = {}
    BY <1>0, <2>1 DEF Dirs, BlocksInv, PieceInOneBlock
  <2> QED BY <1>0, <2>1, <2>2, BlocksStay
<1>3. ASSUME NEW r \in Runs, Flush(r) PROVE BlocksInv'
  <2>1. PICK i \in 1 .. MaxPieces :
           /\ <<r, i>> \notin made[r]
           /\ made' = [made EXCEPT ![r] = made[r] \cup {<<r, i>>}]
           /\ app' = [app EXCEPT ![r] = app[r] \cup {{<<r, i>>}}]
           /\ tmp' = tmp /\ out' = out
    BY <1>3 DEF Flush
  <2> DEFINE new == {<<r, i>>}
  <2>2. new \in Blocks
    <3>1. <<r, i>> \in Pieces
      BY RunFacts
    <3>2. {<<r, i>>} \subseteq Pieces /\ {<<r, i>>} # {}
      BY <3>1
    <3> QED BY <3>2, RunFacts
  <2>3. \A s \in Runs : \A b \in Dirs(s) : <<r, i>> \notin b
    <3>1. \A s \in Runs : \A p \in made[s] : p[1] = s
      BY <1>0 DEF BlocksInv, OwnPieces
    <3>2. <<r, i>>[1] = r
      OBVIOUS
    <3> QED BY <1>0, <2>1, <3>1, <3>2 DEF BlocksInv, OwnPieces
  <2>4. \A b \in out : <<r, i>> \notin b
    <3>1. \A b \in out : \A p \in b : p \in made[p[1]]
      BY <1>0 DEF BlocksInv, OwnPieces
    <3> QED BY <2>1, <3>1
  <2>5. /\ made'[r] = made[r] \cup {<<r, i>>} /\ app'[r] = app[r] \cup {new}
        /\ \A s \in Runs : s # r => app'[s] = app[s] /\ made'[s] = made[s]
    BY <1>0, <2>1 DEF TypeOK
  <2>6. new \notin tmp[r] /\ \A s \in Runs : app[s] \cap tmp[s] = {}
    BY <1>0, <2>3 DEF Dirs, BlocksInv, PieceInOneBlock
  <2>7. \A s \in Runs : app'[s] \cap tmp'[s] = {}
    <3> HIDE DEF new
    <3>1. app'[r] \cap tmp'[r] = {}
      BY <2>1, <2>5, <2>6
    <3>2. \A s \in Runs : s # r => app'[s] \cap tmp'[s] = {}
      BY <2>1, <2>5, <2>6
    <3> QED BY <3>1, <3>2
  <2>8. made'[r] \subseteq {r} \X (1 .. MaxPieces) /\ new \subseteq made'[r]
    BY <1>0, <2>5 DEF BlocksInv, OwnPieces
  <2>9. \A b \in Dirs(r)' : b = new \/ b \in Dirs(r)
    BY <2>1, <2>5 DEF Dirs
  <2>10. \A s \in Runs : s # r => Dirs(s)' = Dirs(s)
    BY <2>1, <2>5 DEF Dirs
  <2>11. /\ \A s \in Runs : \A b \in Dirs(s) : b \cap new = {}
         /\ \A b \in out : b \cap new = {}
    BY <2>3, <2>4
  <2>12. \A b \in Dirs(r)' : b = new \/ (b \in Dirs(r) /\ b \cap new = {})
    BY <2>9, <2>11
  <2>13. /\ made[r] \subseteq made'[r] /\ out' = out
         /\ \A s \in Runs : s # r => made'[s] = made[s]
    BY <2>1, <2>5
  <2> HIDE DEF new
  <2> QED BY <1>0, <2>2, <2>7, <2>8, <2>10, <2>11, <2>12, <2>13, BlockIsMade
<1>4. ASSUME NEW r \in Runs, CloseMoves(r) PROVE BlocksInv'
  <2>1. PICK b \in app[r] : /\ app' = [app EXCEPT ![r] = app[r] \ {b}]
                            /\ tmp' = [tmp EXCEPT ![r] = tmp[r] \cup {b}]
                            /\ made' = made /\ out' = out
    BY <1>4 DEF CloseMoves
  <2>2. \A s \in Runs : Dirs(s)' \subseteq Dirs(s) /\ app'[s] \cap tmp'[s] = {}
    BY <1>0, <2>1 DEF Dirs, TypeOK, BlocksInv, PieceInOneBlock
  <2> QED BY <1>0, <2>1, <2>2, BlocksStay
<1>5. ASSUME NEW r \in Runs, CloseEnds(r) \/ PublishEnds(r) PROVE BlocksInv'
  <2>1. /\ made' = made /\ out' = out
        /\ \A s \in Runs : app'[s] \subseteq app[s] /\ tmp'[s] \subseteq tmp[s]
    BY <1>0, <1>5 DEF CloseEnds, PublishEnds, TypeOK
  <2>2. \A s \in Runs : Dirs(s)' \subseteq Dirs(s) /\ app'[s] \cap tmp'[s] = {}
    BY <1>0, <2>1 DEF Dirs, BlocksInv, PieceInOneBlock
  <2> QED BY <1>0, <2>1, <2>2, BlocksStay
<1>6. ASSUME NEW r \in Runs, Compact(r) PROVE BlocksInv'
  <2>1. PICK overlapping \in SUBSET Kept(tmp[r]) :
           tmp' = [tmp EXCEPT ![r] = (Kept(tmp[r]) \ overlapping)
                                        \cup ({UNION overlapping} \ {{}})]
    BY <1>6 DEF Compact
  <2> DEFINE new == UNION overlapping
  <2>2. /\ UNCHANGED <<app, made, out>> /\ \A s \in Runs : s # r => tmp'[s] = tmp[s]
        /\ tmp'[r] = (Kept(tmp[r]) \ overlapping) \cup ({new} \ {{}})
    BY <1>0, <1>6, <2>1 DEF Compact, TypeOK
  <2>3. Kept(tmp[r]) \subseteq tmp[r] /\ tmp[r] \subseteq Dirs(r)
    BY DEF Kept, Dirs
  <2>4. \A b \in Dirs(r) : b \subseteq made[r] /\ b \in Blocks
    BY <1>0 DEF BlocksInv, OwnPieces, Dirs, TypeOK
  <2>5. \A s \in Runs, d \in Dirs(r) : \A b \in Dirs(s) : b # d => b \cap d = {}
    BY <1>0 DEF BlocksInv, PieceInOneBlock
  <2>6. \A s \in Runs : s # r => Dirs(s)' = Dirs(s) /\ app'[s] \cap tmp'[s] = {}
    BY <1>0, <2>2 DEF BlocksInv, PieceInOneBlock, Dirs
  <2>7. CASE new = {}
    <3>1. Dirs(r)' \subseteq Dirs(r) /\ app'[r] \cap tmp'[r] = {}
      BY <1>0, <2>2, <2>3, <2>7 DEF Dirs, BlocksInv, PieceInOneBlock
    <3> QED BY <1>0, <2>2, <2>6, <3>1, BlocksStay
  <2>8. CASE new # {}
    <3>1. new \subseteq made[r] /\ new \in Blocks
      BY <2>1, <2>3, <2>4, <2>8, RunFacts
    <3>2. \A b \in Dirs(r) : b \in overlapping \/ b \cap new = {}
      BY <1>0, <2>1, <2>3, <2>5
    <3>3. \A s \in Runs \ {r} : \A b \in Dirs(s) : b \cap new = {}
      <4>1. \A s \in Runs \ {r} : \A b \in Dirs(s), d \in overlapping : b # d
        BY <1>0, <2>1, <2>3, ForeignBlocks DEF BlocksInv
      <4> QED BY <2>1, <2>3, <2>5, <4>1
    <3>4. \A b \in out : b \cap new = {}
      BY <1>0, <2>1, <2>3 DEF BlocksInv, PieceInOneBlock
    <3>5. \A b \in app[r] : b \notin overlapping /\ b # new
      <4>1. \A b \in app[r] : b \notin overlapping
        BY <1>0, <2>1, <2>3 DEF BlocksInv, PieceInOneBlock
      <4>2. \A b \in app[r] : b \cap new = {} /\ b # {}
        BY <2>4, <3>2, <4>1, RunFacts DEF Dirs
      <4> QED BY <4>1, <4>2
    <3>6. \A b \in Dirs(r)' : b = new \/ (b \in Dirs(r) /\ b \cap new = {})
      <4>1. ASSUME NEW b \in Dirs(r)', b # new PROVE b \in Dirs(r) /\ b \notin overlapping
        <5>1. b \in app[r] \/ b \in Kept(tmp[r]) \ overlapping
          BY <2>2, <4>1 DEF Dirs
        <5> QED BY <2>3, <3>5, <5>1 DEF Dirs
      <4> QED BY <3>2, <4>1
    <3>7. app'[r] \cap tmp'[r] = {}
      <4>1. app[r] \cap tmp[r] = {}
        BY <1>0 DEF BlocksInv, PieceInOneBlock
      <4> QED BY <2>2, <2>3, <3>5, <4>1
    <3>8. made'[r] \subseteq {r} \X (1 .. MaxPieces)
      BY <1>0, <2>2 DEF BlocksInv, OwnPieces
    <3> QED BY <1>0, <2>2, <2>6, <3>1, <3>3, <3>4, <3>6, <3>7, <3>8, BlockIsMade
  <2> QED BY <2>7, <2>8
<1>7. ASSUME NEW r \in Runs, PublishMoves(r) PROVE BlocksInv'
  <2>1. PICK b \in tmp[r] : /\ tmp' = [tmp EXCEPT ![r] = tmp[r] \ {b}]
                            /\ out' = out \cup {b} /\ app' = app /\ made' = made
    BY <1>7 DEF PublishMoves
  <2>2. \A s \in Runs : app[s] \cap tmp[s] = {}
    BY <1>0 DEF BlocksInv, PieceInOneBlock
  <2>3. \A s \in Runs : tmp'[s] \subseteq tmp[s] /\ b \notin tmp'[r]
    BY <1>0, <2>1 DEF TypeOK
  <2>4. \A s \in Runs : Dirs(s)' \subseteq Dirs(s) /\ app'[s] \cap tmp'[s] = {}
    BY <2>1, <2>2, <2>3 DEF Dirs
  <2>5. b \in Dirs(r) \ Dirs(r)'
    BY <2>1, <2>2, <2>3 DEF Dirs
  <2> QED BY <1>0, <2>1, <2>4, <2>5, BlocksStay
<1> QED BY <1>1, <1>2, <1>3, <1>4, <1>5, <1>6, <1>7
        DEF Next, Tick, Start, Refused, Scanned, CloseBegins, PublishBegins, Fails, Crash,
            Ended, vars

-----------------------------------------------------------------------------
(* RunInv: in which order the runs start, ...                              *)
Ordered == \A r, s \in Runs : s < r /\ at[r] # "off" => at[s] # "off"
OneActive == ~concurrent => \A r, s \in Runs : at[r] \in Active /\ at[s] \in Active => r = s

(* ... and what is true of each of them.                                   *)
RunOK(r) ==
    /\ time[r] <= clock
    /\ at[r] = "off" => ~tmpExists[r] /\ made[r] = {}
    /\ \A s \in old[r] : s < r /\ time[s] < time[r] /\ at[r] # "off"
    /\ at[r] = "join" => app[r] \subseteq files[r]
    /\ at[r] \in {"compact", "publish", "move", "done"} => app[r] = {}
    /\ at[r] = "move" => outExists /\ tmp[r] \subseteq files[r]
    /\ at[r] = "done" => tmp[r] = {}

LEMMA RunInvParts ==
    RunInv <=> Ordered /\ OneActive /\ (~outExists => out = {}) /\ \A r \in Runs : RunOK(r)
BY DEF RunInv, Ordered, OneActive, RunOK

(* Where a step takes the runs.                                            *)
LEMMA Places ==
    ASSUME TypeOK, Next
    PROVE  /\ concurrent' = concurrent /\ trailingSlash' = trailingSlash
           /\ \/ at' = at
              \/ \E r \in Runs : MayStart(r) /\ (Start(r) \/ Refused(r))
              \/ \E r \in Runs : /\ at[r] \in Active /\ at'[r] # "off"
                                  /\ at'[r] \notin {"scan", "refused"}
                                  /\ \A s \in Runs \ {r} : at'[s] = at[s]
<1>1. CASE Tick \/ Ended
  BY <1>1 DEF Tick, Ended, vars, settings
<1>2. ASSUME NEW r \in Runs, Start(r) \/ Refused(r) PROVE UNCHANGED settings /\ MayStart(r)
  BY <1>2 DEF Start, Refused, settings
<1>3. ASSUME NEW r \in Runs, RemoveOld(r) \/ Flush(r) \/ CloseMoves(r) \/ PublishMoves(r)
      PROVE  UNCHANGED settings /\ at' = at
  BY <1>3 DEF RemoveOld, Flush, CloseMoves, PublishMoves
<1>4. ASSUME NEW r \in Runs, Scanned(r) \/ CloseBegins(r) \/ CloseEnds(r) \/ Compact(r)
                              \/ PublishBegins(r) \/ PublishEnds(r) \/ Fails(r) \/ Crash(r)
      PROVE  /\ UNCHANGED settings /\ at[r] \in Active /\ at'[r] # "off"
             /\ at'[r] \notin {"scan", "refused"}
             /\ \A s \in Runs \ {r} : at'[s] = at[s]
  BY <1>4 DEF Scanned, CloseBegins, CloseEnds, Compact, PublishBegins, PublishEnds, Fails,
              Crash, Moves, TypeOK, Active
<1> QED BY <1>1, <1>2, <1>3, <1>4 DEF Next, settings

LEMMA OrderStep == DirectoryInv /\ Next => Ordered' /\ OneActive'
<1> SUFFICES ASSUME DirectoryInv, Next PROVE Ordered' /\ OneActive'
  OBVIOUS
<1>0. TypeOK /\ Ordered /\ OneActive
  BY RunInvParts DEF DirectoryInv
<1>1. CASE at' = at
  BY <1>0, <1>1, Places DEF Ordered, OneActive
<1>2. ASSUME NEW r \in Runs, MayStart(r), Start(r) \/ Refused(r) PROVE Ordered' /\ OneActive'
  <2>1. at[r] = "off" /\ at'[r] # "off" /\ \A s \in Runs \ {r} : at'[s] = at[s]
    BY <1>0, <1>2 DEF Start, Refused, Moves, TypeOK
  <2>2. Ordered'
    BY <1>0, <1>2, <2>1 DEF Ordered, MayStart
  <2>3. ASSUME ~concurrent, NEW s \in Runs, s # r PROVE at[s] \notin Active
    <3>1. s < r \/ r < s
      BY <2>3, RunFacts
    <3> QED BY <1>0, <1>2, <2>1, <2>3, <3>1 DEF Ordered, MayStart, Active
  <2> QED BY <1>0, <2>1, <2>2, <2>3, Places DEF OneActive
<1>3. ASSUME NEW r \in Runs, at[r] \in Active, at'[r] # "off",
             \A s \in Runs \ {r} : at'[s] = at[s]
      PROVE  Ordered' /\ OneActive'
  <2>1. at[r] # "off"
    BY <1>3 DEF Active
  <2>2. \A s \in Runs : /\ at'[s] = "off" <=> at[s] = "off"
                        /\ at'[s] \in Active => at[s] \in Active
    BY <1>3, <2>1
  <2> QED BY <1>0, <2>2, Places DEF Ordered, OneActive
<1> QED BY <1>0, <1>1, <1>2, <1>3, Places

LEMMA RunStep == DirectoryInv /\ Next => RunInv'
<1> SUFFICES ASSUME DirectoryInv, Next PROVE RunInv'
  OBVIOUS
<1>0. TypeOK /\ Ordered /\ \A r \in Runs : RunOK(r)
  BY RunInvParts DEF DirectoryInv
<1>1. ~outExists' => out' = {}
  <2>1. ~outExists => out = {}
    BY DEF DirectoryInv, RunInv
  <2>2. ASSUME NEW r \in Runs, PublishMoves(r) PROVE outExists
    <3>1. at[r] = "move" /\ tmp[r] # {}
      BY <2>2 DEF PublishMoves
    <3> QED BY <3>1 DEF DirectoryInv, RunInv
  <2> QED
    BY <2>1, <2>2 DEF Next, Tick, Start, Refused, Scanned, RemoveOld, Flush, CloseBegins,
       CloseMoves, CloseEnds, Compact, PublishBegins, PublishMoves, PublishEnds, Fails,
       Crash, Ended, vars
<1>2. ASSUME NEW x \in Runs PROVE RunOK(x)'
  <2>0. RunOK(x)
    BY <1>0
  <2>1. CASE Tick
    <3>1. time[x] <= clock + 1
      BY <1>0, <2>0 DEF RunOK, TypeOK
    <3> QED BY <2>0, <2>1, <3>1 DEF Tick, RunOK
  <2>2. ASSUME NEW r \in Runs, Start(r) PROVE RunOK(x)'
    <3>1. /\ at[r] = "off" /\ at' = [at EXCEPT ![r] = "scan"]
          /\ time' = [time EXCEPT ![r] = clock]
          /\ old' = [old EXCEPT ![r] = Leftovers(clock)]
          /\ UNCHANGED <<clock, files, tmpExists, app, tmp, made, outExists, out>>
      BY <2>2 DEF Start, Moves
    <3>2. CASE x = r
      <4>1. /\ at'[x] = "scan" /\ time'[x] = clock /\ old'[x] = Leftovers(clock)
            /\ \A s \in Runs \ {x} : time'[s] = time[s]
        BY <1>0, <3>1, <3>2 DEF TypeOK
      <4>2. ASSUME NEW s \in Leftovers(clock) PROVE s < x /\ time'[s] < clock
        <5>1. s \in Runs /\ tmpExists[s] /\ time[s] < clock /\ at[s] # "off"
          BY <1>0 DEF Leftovers, RunOK
        <5>2. s # x /\ ~(x < s)
          BY <1>0, <3>1, <3>2, <5>1 DEF Ordered
        <5> QED BY <4>1, <5>1, <5>2, RunFacts
      <4>3. clock \in Nat
        BY <1>0 DEF TypeOK
      <4> QED BY <3>1, <4>1, <4>2, <4>3 DEF RunOK
    <3>3. CASE x # r
      <4>1. at'[x] = at[x] /\ time'[x] = time[x] /\ old'[x] = old[x]
        BY <1>0, <3>1, <3>3 DEF TypeOK
      <4>2. \A s \in old[x] : time'[s] = time[s]
        <5>1. \A s \in old[x] : s \in Runs /\ at[s] # "off"
          BY <1>0, <2>0 DEF RunOK, Ordered, TypeOK
        <5> QED BY <1>0, <3>1, <5>1 DEF TypeOK
      <4> QED BY <2>0, <3>1, <4>1, <4>2 DEF RunOK
    <3> QED BY <3>2, <3>3
  <2>3. ASSUME NEW r \in Runs, Refused(r) \/ Scanned(r) \/ Fails(r) \/ Crash(r)
        PROVE  RunOK(x)'
    <3>1. CASE x = r
      <4>1. at'[x] \in {"refused", "write", "error", "crashed"}
        BY <1>0, <2>3, <3>1 DEF Refused, Scanned, Fails, Crash, Moves, TypeOK
      <4> QED BY <2>0, <2>3, <4>1 DEF Refused, Scanned, Fails, Crash, RunOK
    <3>2. CASE x # r
      <4>1. at'[x] = at[x]
        BY <1>0, <2>3, <3>2 DEF Refused, Scanned, Fails, Crash, Moves, TypeOK
      <4> QED BY <2>0, <2>3, <4>1 DEF Refused, Scanned, Fails, Crash, RunOK
    <3> QED BY <3>1, <3>2
  <2>4. ASSUME NEW r \in Runs, RemoveOld(r) PROVE RunOK(x)'
    <3>1. /\ old'[x] \subseteq old[x] /\ (tmpExists'[x] => tmpExists[x])
          /\ app'[x] \subseteq app[x] /\ tmp'[x] \subseteq tmp[x]
          /\ UNCHANGED <<clock, at, time, files, made, outExists>>
      BY <1>0, <2>4 DEF RemoveOld, TypeOK
    <3> QED BY <2>0, <3>1 DEF RunOK
  <2>5. ASSUME NEW r \in Runs, Flush(r) PROVE RunOK(x)'
    <3>1. CASE x = r
      BY <2>0, <2>5, <3>1 DEF Flush, RunOK
    <3>2. CASE x # r
      <4>1. made'[x] = made[x] /\ app'[x] = app[x] /\ tmpExists'[x] = tmpExists[x]
        BY <1>0, <2>5, <3>2 DEF Flush, TypeOK
      <4> QED BY <2>0, <2>5, <4>1 DEF Flush, RunOK
    <3> QED BY <3>1, <3>2
  <2>6. ASSUME NEW r \in Runs, CloseBegins(r) \/ CloseMoves(r) \/ CloseEnds(r)
        PROVE  RunOK(x)'
    <3>1. CASE x = r
      <4>1. CASE CloseBegins(r)
        <5>1. at'[x] = "join" /\ files'[x] = app[x]
          BY <1>0, <3>1, <4>1 DEF CloseBegins, Moves, TypeOK
        <5> QED BY <2>0, <4>1, <5>1 DEF CloseBegins, RunOK
      <4>2. CASE CloseMoves(r)
        <5>1. PICK b \in files[r] : files' = [files EXCEPT ![r] = files[r] \ {b}]
                                  /\ app' = [app EXCEPT ![r] = app[r] \ {b}]
          BY <4>2 DEF CloseMoves
        <5>2. files'[x] = files[x] \ {b} /\ app'[x] = app[x] \ {b}
          BY <1>0, <3>1, <5>1 DEF TypeOK
        <5> QED BY <2>0, <3>1, <4>2, <5>2 DEF CloseMoves, RunOK
      <4>3. CASE CloseEnds(r)
        <5>1. at'[x] = "compact" /\ app'[x] = {}
          BY <1>0, <3>1, <4>3 DEF CloseEnds, Moves, TypeOK
        <5> QED BY <2>0, <4>3, <5>1 DEF CloseEnds, RunOK
      <4> QED BY <2>6, <4>1, <4>2, <4>3
    <3>2. CASE x # r
      <4>1. /\ at'[x] = at[x] /\ files'[x] = files[x] /\ app'[x] = app[x] /\ tmp'[x] = tmp[x]
            /\ UNCHANGED <<clock, time, old, tmpExists, made, outExists>>
        BY <1>0, <2>6, <3>2 DEF CloseBegins, CloseMoves, CloseEnds, Moves, TypeOK
      <4> QED BY <2>0, <4>1 DEF RunOK
    <3> QED BY <3>1, <3>2
  <2>7. ASSUME NEW r \in Runs, Compact(r) PROVE RunOK(x)'
    <3>1. CASE x = r
      <4>1. at[x] = "compact" /\ at'[x] = "publish"
        BY <1>0, <2>7, <3>1 DEF Compact, Moves, TypeOK
      <4> QED BY <2>0, <2>7, <4>1 DEF Compact, RunOK
    <3>2. CASE x # r
      <4>1. at'[x] = at[x] /\ tmp'[x] = tmp[x] /\ tmpExists'[x] = tmpExists[x]
        BY <1>0, <2>7, <3>2 DEF Compact, Moves, TypeOK
      <4> QED BY <2>0, <2>7, <4>1 DEF Compact, RunOK
    <3> QED BY <3>1, <3>2
  <2>8. ASSUME NEW r \in Runs, PublishBegins(r) \/ PublishMoves(r) \/ PublishEnds(r)
        PROVE  RunOK(x)'
    <3>1. CASE x = r
      <4>1. CASE PublishBegins(r)
        <5>1. at[x] = "publish" /\ at'[x] = "move" /\ files'[x] = tmp[x] /\ outExists'
          BY <1>0, <3>1, <4>1 DEF PublishBegins, Moves, TypeOK
        <5> QED BY <2>0, <4>1, <5>1 DEF PublishBegins, RunOK
      <4>2. CASE PublishMoves(r)
        <5>1. PICK b \in files[r] : files' = [files EXCEPT ![r] = files[r] \ {b}]
                                  /\ tmp' = [tmp EXCEPT ![r] = tmp[r] \ {b}]
          BY <4>2 DEF PublishMoves
        <5>2. files'[x] = files[x] \ {b} /\ tmp'[x] = tmp[x] \ {b}
          BY <1>0, <3>1, <5>1 DEF TypeOK
        <5> QED BY <2>0, <3>1, <4>2, <5>2 DEF PublishMoves, RunOK
      <4>3. CASE PublishEnds(r)
        <5>1. at[x] = "move" /\ at'[x] = "done" /\ tmp'[x] = {}
          BY <1>0, <3>1, <4>3 DEF PublishEnds, Moves, TypeOK
        <5> QED BY <2>0, <4>3, <5>1 DEF PublishEnds, RunOK
      <4> QED BY <2>8, <4>1, <4>2, <4>3
    <3>2. CASE x # r
      <4>1. /\ at'[x] = at[x] /\ files'[x] = files[x] /\ app'[x] = app[x] /\ tmp'[x] = tmp[x]
            /\ (tmpExists'[x] => tmpExists[x]) /\ (outExists => outExists')
            /\ UNCHANGED <<clock, time, old, made>>
        BY <1>0, <2>8, <3>2 DEF PublishBegins, PublishMoves, PublishEnds, Moves, TypeOK
      <4> QED BY <2>0, <4>1 DEF RunOK
    <3> QED BY <3>1, <3>2
  <2>9. CASE Ended
    BY <2>0, <2>9 DEF Ended, vars, RunOK
  <2> QED BY <2>1, <2>2, <2>3, <2>4, <2>5, <2>6, <2>7, <2>8, <2>9 DEF Next
<1>3. Ordered' /\ OneActive'
  BY OrderStep
<1> QED BY <1>1, <1>2, <1>3 DEF RunInv, Ordered, OneActive, RunOK

-----------------------------------------------------------------------------
(* A run gets its time when it starts, and its directory from its own step.*)
LEMMA Marks ==
    ASSUME TypeOK, Next
    PROVE  /\ \A s \in Runs : at[s] # "off" => time'[s] = time[s] /\ at'[s] # "off"
           /\ \A s \in Runs : tmpExists'[s] /\ ~tmpExists[s] => at[s] \in Active
<1>1. ASSUME NEW r \in Runs, Start(r)
      PROVE  /\ \A s \in Runs : at[s] # "off" => time'[s] = time[s]
             /\ tmpExists' = tmpExists
  BY <1>1 DEF Start, Moves, TypeOK
<1>2. ASSUME NEW r \in Runs, Flush(r) \/ Compact(r) \/ RemoveOld(r) \/ PublishEnds(r)
      PROVE  /\ time' = time
             /\ \A s \in Runs : tmpExists'[s] /\ ~tmpExists[s] => at[s] \in Active
  BY <1>2 DEF Flush, Compact, RemoveOld, PublishEnds, Moves, TypeOK, Active
<1>3. CASE UNCHANGED <<time, tmpExists>>
  BY <1>3, Places DEF Start, Refused, Moves, TypeOK, Active
<1>4. \A s \in Runs : at[s] # "off" => at'[s] # "off"
  BY Places DEF Start, Refused, Moves, TypeOK, Active
<1> QED BY <1>1, <1>2, <1>3, <1>4
        DEF Next, Tick, Refused, Scanned, CloseBegins, CloseMoves, CloseEnds,
            PublishBegins, PublishMoves, Fails, Crash, Ended, vars

(* No run is active when one starts that may not run beside another.       *)
LEMMA StartsAlone ==
    ASSUME DirectoryInv, ~concurrent, NEW r \in Runs, MayStart(r)
    PROVE  \A s \in Runs : at[s] \notin Active
<1>1. Ordered
  BY RunInvParts DEF DirectoryInv
<1> SUFFICES ASSUME NEW s \in Runs, at[s] \in Active PROVE FALSE
  OBVIOUS
<1>2. s # r /\ ~(s < r) /\ ~(r < s)
  BY <1>1 DEF MayStart, Active, Ordered
<1> QED BY <1>2, RunFacts

LEMMA LeftoversStep ==
    DirectoryInv /\ Next => NoLeftovers' /\ LeftoversAreOld' /\ RefusedOnlyAtFirst'
<1> SUFFICES ASSUME DirectoryInv, Next
             PROVE  NoLeftovers' /\ LeftoversAreOld' /\ RefusedOnlyAtFirst'
  OBVIOUS
<1>0. /\ TypeOK /\ Ordered /\ OneActive /\ (~outExists => out = {})
      /\ (\A r \in Runs : RunOK(r)) /\ NoLeftovers /\ LeftoversAreOld /\ RefusedOnlyAtFirst
  BY RunInvParts DEF DirectoryInv
<1>1. concurrent' = concurrent /\ trailingSlash' = trailingSlash
  BY <1>0, Places
(* The directories that a run which goes on finds beside its own.          *)
<1>2. ASSUME ~concurrent, NEW r \in Runs, at[r] \in Active, at'[r] \in Active,
             NEW s \in Runs, s # r, tmpExists'[s]
      PROVE  tmpExists[s] /\ time'[s] = time[s] /\ time'[r] = time[r]
  <2>1. tmpExists[s]
    BY <1>0, <1>2, Marks DEF OneActive
  <2>2. at[s] # "off" /\ at[r] # "off"
    BY <1>0, <1>2, <2>1 DEF RunOK, Active
  <2> QED BY <1>0, <2>1, <2>2, Marks
<1>3. ASSUME ~concurrent, ~trailingSlash, NEW r \in Runs, at'[r] \in Active \ {"scan"},
             NEW s \in Runs, s # r, tmpExists'[s]
      PROVE  time'[s] = time'[r]
  <2>1. at[r] \in Active
    BY <1>0, <1>3, Places, StartsAlone DEF Start, Refused, Moves, TypeOK, Active
  <2>2. tmpExists[s] /\ time'[s] = time[s] /\ time'[r] = time[r]
    BY <1>2, <1>3, <2>1
  <2>3. CASE at[r] # "scan"
    BY <1>0, <1>3, <2>1, <2>2, <2>3 DEF NoLeftovers
  <2>4. CASE at[r] = "scan"
    <3>1. Scanned(r)
      BY <1>0, <1>3, <2>4, StartsAlone
         DEF Next, Tick, Start, Refused, Scanned, RemoveOld, Flush, CloseBegins,
             CloseMoves, CloseEnds, Compact, PublishBegins, PublishMoves, PublishEnds,
             Fails, Crash, Ended, vars, Moves, TypeOK, Active
    <3> QED BY <1>0, <1>3, <2>2, <2>4, <3>1 DEF LeftoversAreOld, Scanned
  <2> QED BY <2>3, <2>4
<1>4. NoLeftovers'
  BY <1>1, <1>3 DEF NoLeftovers
<1>5. ASSUME ~concurrent, ~trailingSlash, NEW r \in Runs, at'[r] = "scan",
             NEW s \in Runs, s # r, tmpExists'[s]
      PROVE  time'[s] = time'[r] \/ s \in old'[r]
  <2>1. CASE Start(r)
    <3>1. /\ time'[r] = clock /\ time'[s] = time[s] /\ old'[r] = Leftovers(clock)
          /\ tmpExists[s]
      BY <1>0, <1>5, <2>1 DEF Start, TypeOK
    <3>2. time[s] <= clock /\ time[s] \in Nat /\ clock \in Nat
      BY <1>0 DEF RunOK, TypeOK
    <3> QED BY <1>5, <3>1, <3>2 DEF Leftovers
  <2>2. CASE at[r] = "scan"
    <3>1. tmpExists[s] /\ time'[s] = time[s] /\ time'[r] = time[r]
      BY <1>2, <1>5, <2>2 DEF Active
    <3>2. time[s] = time[r] \/ s \in old[r]
      BY <1>0, <1>5, <2>2, <3>1 DEF LeftoversAreOld
    <3>3. s \in old[r] => s \in old'[r]
      <4>1. ASSUME NEW q \in Runs, RemoveOld(q) PROVE s \in old[r] => s \in old'[r]
        BY <1>0, <1>5, <4>1 DEF RemoveOld, TypeOK
      <4>2. ASSUME NEW q \in Runs, Start(q) PROVE old'[r] = old[r]
        BY <1>0, <2>2, <4>2 DEF Start, Moves, TypeOK
      <4> QED BY <4>1, <4>2
             DEF Next, Tick, Refused, Scanned, Flush, CloseBegins, CloseMoves, CloseEnds,
                 Compact, PublishBegins, PublishMoves, PublishEnds, Fails, Crash, Ended, vars
    <3> QED BY <3>1, <3>2, <3>3
  <2>3. Start(r) \/ at[r] = "scan"
    BY <1>0, <1>5, Places DEF Start, Refused, Moves, TypeOK, Active
  <2> QED BY <2>1, <2>2, <2>3
<1>6. LeftoversAreOld'
  BY <1>1, <1>5 DEF LeftoversAreOld
<1>7. ASSUME ~concurrent, NEW r \in Runs, at'[r] = "refused"
      PROVE  out' = {} /\ ~outExists' /\ trailingSlash /\ \A s \in Runs : at'[s] \notin Active
  <2>1. trailingSlash /\ ~outExists /\ \A s \in Runs : at[s] \notin Active
    <3>1. CASE at[r] = "refused"
      BY <1>0, <1>7, <3>1 DEF RefusedOnlyAtFirst
    <3>2. CASE at[r] # "refused"
      <4>1. Refused(r)
        BY <1>0, <1>7, <3>2
           DEF Next, Tick, Start, Refused, Scanned, RemoveOld, Flush, CloseBegins,
               CloseMoves, CloseEnds, Compact, PublishBegins, PublishMoves, PublishEnds,
               Fails, Crash, Ended, vars, Moves, TypeOK, Active
      <4> QED BY <1>7, <4>1, StartsAlone DEF Refused
    <3> QED BY <3>1, <3>2
  <2>2. Tick \/ Ended \/ \E q \in Runs : Refused(q)
    BY <2>1 DEF Next, Start, Scanned, RemoveOld, Flush, CloseBegins, CloseMoves, CloseEnds,
       Compact, PublishBegins, PublishMoves, PublishEnds, Fails, Crash, Moves, Active
  <2>3. out' = out /\ outExists' = outExists
    BY <2>2 DEF Tick, Ended, Refused, vars
  <2>4. \A s \in Runs : at'[s] \notin Active
    BY <1>0, <2>1, <2>2 DEF Tick, Ended, Refused, Moves, vars, TypeOK, Active
  <2> QED BY <1>0, <2>1, <2>3, <2>4
<1>8. RefusedOnlyAtFirst'
  BY <1>1, <1>7 DEF RefusedOnlyAtFirst
<1> QED BY <1>4, <1>6, <1>8
-----------------------------------------------------------------------------
(* What is on disk.  The steps that move blocks keep them ...              *)
LEMMA DiskKept ==
    ASSUME TypeOK, OwnPieces, \A q \in Runs : RunOK(q), NEW x \in Runs, NEW r \in Runs,
           CloseMoves(r) \/ CloseEnds(r) \/ PublishMoves(r) \/ PublishEnds(r)
    PROVE  Dirs(x) \cup out \subseteq Dirs(x)' \cup out' /\ made' = made
<1>1. CASE CloseMoves(r)
  <2>1. PICK b \in app[r] : /\ app' = [app EXCEPT ![r] = app[r] \ {b}]
                            /\ tmp' = [tmp EXCEPT ![r] = tmp[r] \cup {b}]
                            /\ made' = made /\ out' = out
    BY <1>1 DEF CloseMoves
  <2>2. \/ app'[x] = app[x] /\ tmp'[x] = tmp[x]
        \/ app'[x] = app[x] \ {b} /\ tmp'[x] = tmp[x] \cup {b}
    BY <2>1 DEF TypeOK
  <2> QED BY <2>1, <2>2 DEF Dirs
<1>2. CASE CloseEnds(r)
  <2>1. app[r] = {}
    BY <1>2 DEF CloseEnds, Moves, RunOK
  <2>2. app'[x] = app[x] /\ tmp' = tmp /\ out' = out /\ made' = made
    BY <1>2, <2>1 DEF CloseEnds, TypeOK
  <2> QED BY <2>2 DEF Dirs
<1>3. CASE PublishMoves(r)
  <2>1. PICK b \in tmp[r] : /\ tmp' = [tmp EXCEPT ![r] = tmp[r] \ {b}]
                            /\ out' = out \cup {b} /\ app' = app /\ made' = made
    BY <1>3 DEF PublishMoves
  <2>2. tmp[x] \subseteq tmp'[x] \cup {b}
    BY <2>1 DEF TypeOK
  <2> QED BY <2>1, <2>2 DEF Dirs
<1>4. CASE PublishEnds(r)
  <2>1. tmp[r] = {}
    BY <1>4 DEF PublishEnds, Moves, RunOK
  <2>2. tmp'[x] = tmp[x] /\ app' = app /\ out' = out /\ made' = made
    BY <1>4, <2>1 DEF PublishEnds, TypeOK
  <2> QED BY <2>2 DEF Dirs
<1> QED BY <1>1, <1>2, <1>3, <1>4

(* ... and compaction drops what has expired only.                         *)
LEMMA CompactKeeps ==
    ASSUME TypeOK, OwnPieces, NEW r \in Runs, Compact(r), NEW x \in Runs,
           NEW b \in Dirs(x) \cup out, NEW p \in b, p[1] = x, p \in made[x]
    PROVE  p \in Expired(x) \/ \E c \in Dirs(x)' \cup out' : p \in c
<1>1. PICK overlapping \in SUBSET Kept(tmp[r]) :
         tmp' = [tmp EXCEPT ![r] = (Kept(tmp[r]) \ overlapping)
                                      \cup ({UNION overlapping} \ {{}})]
  BY DEF Compact
<1>2. app' = app /\ out' = out
  BY DEF Compact
<1>3. CASE b \in out \/ b \in app[x] \/ x # r
  <2>1. b \in out \/ b \in app[x] \/ tmp'[x] = tmp[x]
    BY <1>1, <1>3 DEF TypeOK
  <2> QED BY <1>2, <2>1 DEF Dirs
<1>4. CASE b \in tmp[x] /\ x = r
  <2>1. tmp'[x] = (Kept(tmp[x]) \ overlapping) \cup ({UNION overlapping} \ {{}})
    BY <1>1, <1>4 DEF TypeOK
  <2>2. CASE b \in Kept(tmp[x])
    <3>1. CASE b \in overlapping
      <4>1. p \in UNION overlapping
        BY <3>1
      <4>2. UNION overlapping \in tmp'[x]
        BY <2>1, <4>1
      <4> QED BY <4>1, <4>2 DEF Dirs
    <3>2. CASE b \notin overlapping
      BY <2>1, <2>2, <3>2 DEF Dirs
    <3> QED BY <3>1, <3>2
  <2>3. CASE b \notin Kept(tmp[x])
    <3>1. PICK d \in tmp[x] : ~(EndOf(d) <= EndOf(b) + Retention)
      BY <1>4, <2>3 DEF Kept
    <3>2. b \in Blocks /\ d \in Blocks
      BY <1>4, <3>1 DEF TypeOK
    <3>3. PICK q \in d : q[2] = EndOf(d)
      BY <3>2, BlockEnds
    <3>4. q \in made[x]
      BY <3>1 DEF OwnPieces, Dirs
    <3>5. p[2] \in Nat /\ q[2] \in Nat /\ EndOf(b) \in Nat
      BY <3>2, RunFacts, BlockEnds
    <3>6. p[2] <= EndOf(b)
      BY <3>2, BlockEnds
    <3>7. q[2] > p[2] + Retention
      BY <3>1, <3>3, <3>5, <3>6, RetentionAssumption
    <3> QED BY <3>4, <3>7 DEF Expired
  <2> QED BY <2>2, <2>3
<1> QED BY <1>3, <1>4 DEF Dirs

LEMMA WorkStep == DirectoryInv /\ Next => WorkIsOnDisk'
<1> SUFFICES ASSUME DirectoryInv, Next, NEW x \in Runs
             PROVE  \/ UnexpiredOnDisk(x)'
                    \/ \E s \in Runs : s > x /\ time'[s] > time'[x] /\ at'[s] # "off"
  BY DEF WorkIsOnDisk
<1>0. /\ TypeOK /\ Ordered /\ OwnPieces /\ WorkIsOnDisk
      /\ \A r \in Runs : RunOK(r)
  BY RunInvParts DEF DirectoryInv
<1>1. ASSUME NEW s \in Runs, s > x, time[s] > time[x], at[s] # "off"
      PROVE  s > x /\ time'[s] > time'[x] /\ at'[s] # "off"
  <2>1. at[x] # "off"
    BY <1>0, <1>1, RunFacts DEF Ordered
  <2> QED BY <1>0, <1>1, <2>1, Marks
<1>2. ASSUME UnexpiredOnDisk(x), UNCHANGED <<app, tmp, made, out>>
      PROVE  UnexpiredOnDisk(x)'
  BY <1>2 DEF UnexpiredOnDisk, Expired, OnDisk, OfRun, Dirs
<1>3. ASSUME NEW r \in Runs, RemoveOld(r), UnexpiredOnDisk(x)
      PROVE  \/ UnexpiredOnDisk(x)'
             \/ \E s \in Runs : s > x /\ time[s] > time[x] /\ at[s] # "off"
  <2>1. PICK s \in old[r] : /\ app' = [app EXCEPT ![s] = {}]
                            /\ tmp' = [tmp EXCEPT ![s] = {}]
                            /\ UNCHANGED <<made, out>>
    BY <1>3 DEF RemoveOld
  <2>2. s \in Runs /\ s < r /\ time[s] < time[r] /\ at[r] # "off"
    BY <1>0, <2>1 DEF RunOK, TypeOK
  <2>3. CASE x = s
    <3>1. time[r] > time[x] /\ r > x
      BY <2>2, <2>3
    <3> QED BY <2>2, <3>1
  <2>4. CASE x # s
    <3>1. app'[x] = app[x] /\ tmp'[x] = tmp[x]
      BY <1>0, <2>1, <2>4 DEF TypeOK
    <3> QED BY <1>3, <2>1, <3>1 DEF UnexpiredOnDisk, Expired, OnDisk, OfRun, Dirs
  <2> QED BY <2>3, <2>4
<1>4. ASSUME NEW r \in Runs, Flush(r), UnexpiredOnDisk(x) PROVE UnexpiredOnDisk(x)'
  <2>1. PICK i \in 1 .. MaxPieces :
           /\ made' = [made EXCEPT ![r] = made[r] \cup {<<r, i>>}]
           /\ app' = [app EXCEPT ![r] = app[r] \cup {{<<r, i>>}}]
           /\ UNCHANGED <<tmp, out>>
    BY <1>4 DEF Flush
  <2>2. CASE x # r
    <3>1. app'[x] = app[x] /\ made'[x] = made[x]
      BY <1>0, <2>1, <2>2 DEF TypeOK
    <3> QED BY <1>4, <2>1, <3>1 DEF UnexpiredOnDisk, Expired, OnDisk, OfRun, Dirs
  <2>3. CASE x = r
    <3>1. made'[x] = made[x] \cup {<<x, i>>} /\ app'[x] = app[x] \cup {{<<x, i>>}}
      BY <1>0, <2>1, <2>3 DEF TypeOK
    <3>2. Expired(x) \subseteq Expired(x)'
      BY <3>1 DEF Expired
    <3>3. OnDisk(x) \subseteq OnDisk(x)'
      BY <2>1, <3>1 DEF OnDisk, OfRun, Dirs
    <3>4. <<x, i>> \in OnDisk(x)'
      <4>1. {<<x, i>>} \in Dirs(x)' /\ <<x, i>>[1] = x
        BY <3>1 DEF Dirs
      <4> QED BY <4>1 DEF OnDisk, OfRun
    <3> QED BY <1>4, <3>1, <3>2, <3>3, <3>4 DEF UnexpiredOnDisk
  <2> QED BY <2>2, <2>3
<1>5. ASSUME NEW r \in Runs, UnexpiredOnDisk(x),
             CloseMoves(r) \/ CloseEnds(r) \/ PublishMoves(r) \/ PublishEnds(r)
      PROVE  UnexpiredOnDisk(x)'
  <2>1. Dirs(x) \cup out \subseteq Dirs(x)' \cup out' /\ made' = made
    BY <1>0, <1>5, DiskKept
  <2>2. OnDisk(x) \subseteq OnDisk(x)'
    BY <2>1 DEF OnDisk, OfRun
  <2> QED BY <1>5, <2>1, <2>2 DEF UnexpiredOnDisk, Expired
<1>6. ASSUME NEW r \in Runs, UnexpiredOnDisk(x), Compact(r) PROVE UnexpiredOnDisk(x)'
  <2>1. made' = made
    BY <1>6 DEF Compact
  <2>2. ASSUME NEW p \in made[x], p \notin Expired(x) PROVE p \in OnDisk(x)'
    <3>1. p \in OnDisk(x)
      BY <1>6, <2>2 DEF UnexpiredOnDisk
    <3>2. PICK b \in Dirs(x) \cup out : p \in b /\ p[1] = x
      BY <3>1 DEF OnDisk, OfRun
    <3>3. \E c \in Dirs(x)' \cup out' : p \in c
      BY <1>0, <1>6, <2>2, <3>2, CompactKeeps
    <3> QED BY <3>2, <3>3 DEF OnDisk, OfRun
  <2> QED BY <2>1, <2>2 DEF UnexpiredOnDisk, Expired
<1>7. \/ UnexpiredOnDisk(x)
      \/ \E s \in Runs : s > x /\ time[s] > time[x] /\ at[s] # "off"
  BY <1>0 DEF WorkIsOnDisk
<1>8. \/ UNCHANGED <<app, tmp, made, out>>
      \/ \E r \in Runs : \/ RemoveOld(r) \/ Flush(r) \/ CloseMoves(r) \/ CloseEnds(r)
                         \/ PublishMoves(r) \/ PublishEnds(r) \/ Compact(r)
  BY DEF Next, Tick, Start, Refused, Scanned, CloseBegins, PublishBegins, Fails, Crash,
         Ended, vars
<1>9. \/ UnexpiredOnDisk(x)'
      \/ \E s \in Runs : s > x /\ time[s] > time[x] /\ at[s] # "off"
  BY <1>2, <1>3, <1>4, <1>5, <1>6, <1>7, <1>8
<1> QED BY <1>1, <1>9

-----------------------------------------------------------------------------
LEMMA InvStep == DirectoryInv /\ [Next]_vars => DirectoryInv'
<1>1. ASSUME DirectoryInv, Next PROVE DirectoryInv'
  BY <1>1, TypeStep, BlocksStep, RunStep, LeftoversStep, WorkStep
     DEF DirectoryInv, BlocksInv
<1>2. ASSUME DirectoryInv, UNCHANGED vars PROVE DirectoryInv'
  <2>1. UNCHANGED <<concurrent, trailingSlash, clock, at, time, old, files, tmpExists,
                    app, tmp, made, outExists, out>>
    BY <1>2 DEF vars, settings
  <2>2. TypeOK' /\ OwnPieces' /\ PieceInOneBlock'
    BY <1>2, <2>1 DEF DirectoryInv, TypeOK, OwnPieces, PieceInOneBlock, Dirs
  <2>3. RunInv'
    BY <1>2, <2>1 DEF DirectoryInv, RunInv
  <2>4. NoLeftovers' /\ LeftoversAreOld' /\ RefusedOnlyAtFirst'
    BY <1>2, <2>1 DEF DirectoryInv, NoLeftovers, LeftoversAreOld, RefusedOnlyAtFirst
  <2>5. WorkIsOnDisk'
    BY <1>2, <2>1 DEF DirectoryInv, WorkIsOnDisk, UnexpiredOnDisk, Expired, OnDisk, OfRun,
                      Dirs
  <2> QED BY <2>2, <2>3, <2>4, <2>5 DEF DirectoryInv
<1> QED BY <1>1, <1>2

(* Wherever the runs are interrupted, and whether they overlap or not, no  *)
(* piece is in two blocks, nothing but a younger run removes what a run    *)
(* has written, and with runs that follow each other a run that writes     *)
(* finds no directory of an earlier millisecond.                           *)
THEOREM DirectoryCorrect == Spec => []DirectoryInv
<1>1. Init => DirectoryInv
  BY InitInv
<1>2. DirectoryInv /\ [Next]_vars => DirectoryInv'
  BY InvStep
<1> QED BY <1>1, <1>2, PTL DEF Spec

LEMMA OutputStep ==
    DirectoryInv /\ OutputIsFinishedWork /\ [Next]_vars => OutputIsFinishedWork'
<1> DEFINE OutPlaces == {"move", "done", "error", "crashed"}
<1> SUFFICES ASSUME DirectoryInv, OutputIsFinishedWork, [Next]_vars, NEW x \in Runs,
                    OfRun(x, out') # {}
             PROVE  app'[x] = {} /\ at'[x] \in OutPlaces
  BY DEF OutputIsFinishedWork
<1>0. TypeOK /\ OwnPieces /\ \A r \in Runs : RunOK(r)
  BY RunInvParts DEF DirectoryInv
<1>1. ASSUME NEW r \in Runs, PublishMoves(r) PROVE app'[x] = {} /\ at'[x] \in OutPlaces
  <2>1. PICK b \in tmp[r] : out' = out \cup {b} /\ app' = app /\ at' = at /\ at[r] = "move"
    BY <1>1 DEF PublishMoves
  <2>2. CASE x = r
    BY <1>0, <2>1, <2>2 DEF RunOK
  <2>3. CASE x # r
    <3>1. \A p \in b : p[1] = r
      BY <1>0 DEF OwnPieces, Dirs
    <3>2. OfRun(x, out) # {}
      BY <2>1, <2>3, <3>1 DEF OfRun
    <3> QED BY <2>1, <3>2 DEF OutputIsFinishedWork
  <2> QED BY <2>2, <2>3
<1>2. ASSUME out' = out, Next \/ UNCHANGED vars PROVE app'[x] = {} /\ at'[x] \in OutPlaces
  <2>1. app[x] = {} /\ at[x] \in OutPlaces
    BY <1>2 DEF OutputIsFinishedWork
  <2>2. CASE Tick \/ Ended \/ UNCHANGED vars
    BY <2>1, <2>2 DEF Tick, Ended, vars
  <2>3. ASSUME NEW r \in Runs, Start(r) \/ Refused(r) \/ Scanned(r) \/ CloseBegins(r)
                                \/ Compact(r) \/ PublishBegins(r)
        PROVE  app'[x] = {} /\ at'[x] \in OutPlaces
    BY <1>0, <2>1, <2>3 DEF Start, Refused, Scanned, CloseBegins, Compact, PublishBegins,
                            MayStart, Moves, TypeOK
  <2>4. ASSUME NEW r \in Runs, Fails(r) \/ Crash(r) PROVE app'[x] = {} /\ at'[x] \in OutPlaces
    BY <1>0, <2>1, <2>4 DEF Fails, Crash, TypeOK
  <2>5. ASSUME NEW r \in Runs, RemoveOld(r) PROVE app'[x] = {} /\ at'[x] \in OutPlaces
    BY <1>0, <2>1, <2>5 DEF RemoveOld, TypeOK
  <2>6. ASSUME NEW r \in Runs, Flush(r) \/ CloseMoves(r)
        PROVE  app'[x] = {} /\ at'[x] \in OutPlaces
    BY <1>0, <2>1, <2>6 DEF Flush, CloseMoves, TypeOK
  <2>7. ASSUME NEW r \in Runs, CloseEnds(r) \/ PublishMoves(r) \/ PublishEnds(r)
        PROVE  app'[x] = {} /\ at'[x] \in OutPlaces
    BY <1>0, <2>1, <2>7 DEF CloseEnds, PublishMoves, PublishEnds, Moves, TypeOK
  <2> QED BY <1>2, <2>2, <2>3, <2>4, <2>5, <2>6, <2>7 DEF Next
<1>3. out' = out \/ \E r \in Runs : PublishMoves(r)
  BY DEF Next, Tick, Start, Refused, Scanned, RemoveOld, Flush, CloseBegins, CloseMoves,
         CloseEnds, Compact, PublishBegins, PublishEnds, Fails, Crash, Ended, vars
<1> QED BY <1>1, <1>2, <1>3

(* The output directory never has anything of a run that failed or crashed *)
(* before it came to publish, nor of one that has blocks it did not close. *)
THEOREM OutputCorrect == Spec => []OutputIsFinishedWork
<1>1. Init => OutputIsFinishedWork
  BY InitInv
<1>2. DirectoryInv /\ OutputIsFinishedWork /\ [Next]_vars => OutputIsFinishedWork'
  BY OutputStep
<1> QED BY <1>1, <1>2, DirectoryCorrect, PTL DEF Spec

(* Until a younger run starts, whatever a failed or crashed run wrote is   *)
(* still on disk, but for what is beyond the retention.                    *)
THEOREM NothingLost == Spec => []NothingLostBeforeNextRun
<1>1. DirectoryInv => NothingLostBeforeNextRun
  BY DEF DirectoryInv, WorkIsOnDisk, NothingLostBeforeNextRun, UnexpiredOnDisk
<1> QED BY <1>1, DirectoryCorrect, PTL

(* A run that says it succeeded has put everything it wrote in the output  *)
(* directory, but for what is beyond the retention or a younger run has    *)
(* removed.                                                                *)
THEOREM PublishedWhenDone == Spec => []DoneMeansPublished
<1>1. DirectoryInv => DoneMeansPublished
  <2> SUFFICES ASSUME DirectoryInv, NEW r \in Runs, at[r] = "done",
                      \A s \in Runs : ~(time[s] > time[r] /\ at[s] # "off")
               PROVE  made[r] \ Expired(r) \subseteq OfRun(r, out)
    BY DEF DoneMeansPublished
  <2>1. UnexpiredOnDisk(r)
    BY DEF DirectoryInv, WorkIsOnDisk
  <2>2. app[r] = {} /\ tmp[r] = {}
    BY RunInvParts DEF DirectoryInv, RunOK
  <2> QED BY <2>1, <2>2 DEF UnexpiredOnDisk, OnDisk, OfRun, Dirs
<1> QED BY <1>1, DirectoryCorrect, PTL
=============================================================================
