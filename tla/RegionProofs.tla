---------------------------- MODULE RegionProofs ----------------------------
(***************************************************************************)
(* Handles and regions, for any number of them: a bound handle, an export  *)
(* and a thread inside a call keep the region they use mapped; a read or   *)
(* write lock is held by those who were told so; and a Barrier tells True  *)
(* to one thread of a round.                                               *)
(***************************************************************************)
EXTENDS RWLock, Barrier, FiniteSetTheorems, TLAPS

(* What an export was taken from, and what is left of a SharedBytes that   *)
(* still has views: posixipc_bytes_bind is not called on it again.         *)
SourcesRight ==
    /\ \A h \in Handles : h \notin bound => hregion[h] = NoRegion
    /\ \A h \in Handles : Open(h) => hregion[h] \in Regions
    /\ \A e \in Exports : ekind[e] \in {"view", "capsule"} => esource[e] \in Regions
    /\ \A e \in Exports : ekind[e] = "retain" =>
          esource[e] \in Exports /\ ekind[esource[e]] = "capsule"
    /\ \A e \in Exports : ekind[e] = "bytes" =>
          /\ esource[e] \in bound
          /\ esource[e] \in hclosed => hregion[esource[e]] = NoRegion

HeldIsMapped == \A r \in Regions : Holders(r) # {} => r \in mapped

RegionIInv == RegionTypeOK /\ SourcesRight /\ PinsCover /\ HeldIsMapped

-----------------------------------------------------------------------------

(* Holders are handles and exports, so there are finitely many. *)
LEMMA HoldersFinite == \A r \in Regions : IsFiniteSet(Holders(r)) /\ IsFiniteSet(Holders(r)')
<1>1. IsFiniteSet(Handles \cup Exports)
  BY ZenonT(60), FiniteAssumption, FS_Union
<1>2. TAKE r \in Regions
<1>3. Holders(r) \subseteq Handles \cup Exports
  BY DEF Holders
<1>4. Holders(r)' \subseteq Handles \cup Exports
  BY DEF Holders
<1> QED BY <1>1, <1>3, <1>4, FS_Subset

(* How a bound on the size of a set moves with the set. *)
LEMMA Bounds ==
    ASSUME NEW A, IsFiniteSet(A), NEW n \in Nat, n >= Cardinality(A), NEW B
    PROVE  /\ B \subseteq A => n >= Cardinality(B)
           /\ \A x : B \subseteq A \cup {x} => n + 1 >= Cardinality(B)
           /\ \A x, y : B \subseteq A \cup {x, y} => n + 2 >= Cardinality(B)
           /\ \A x \in A : n >= 1 /\ (B \subseteq A \ {x} => n - 1 >= Cardinality(B))
<1>1. Cardinality(A) \in Nat
  BY FS_CardinalityType
<1>2. ASSUME NEW S, IsFiniteSet(S), B \subseteq S PROVE Cardinality(B) <= Cardinality(S) /\ Cardinality(B) \in Nat
  BY <1>2, FS_Subset, FS_CardinalityType
<1>3. ASSUME NEW S, IsFiniteSet(S), NEW x
      PROVE  IsFiniteSet(S \cup {x}) /\ Cardinality(S \cup {x}) <= Cardinality(S) + 1 /\ Cardinality(S) \in Nat
             /\ Cardinality(S \cup {x}) \in Nat
  <2>1. CASE x \in S
    <3>1. S \cup {x} = S
      BY <2>1
    <3>2. Cardinality(S) \in Nat
      BY <1>3, FS_CardinalityType
    <3> QED BY <1>3, <3>1, <3>2
  <2>2. CASE x \notin S
    <3>1. IsFiniteSet(S \cup {x}) /\ Cardinality(S \cup {x}) = Cardinality(S) + 1
      BY <1>3, <2>2, FS_AddElement
    <3>2. Cardinality(S) \in Nat
      BY <1>3, FS_CardinalityType
    <3> QED BY <3>1, <3>2
  <2> QED BY <2>1, <2>2
<1>4. ASSUME NEW x, B \subseteq A \cup {x} PROVE n + 1 >= Cardinality(B)
  <2>1. IsFiniteSet(A \cup {x}) /\ Cardinality(A \cup {x}) <= Cardinality(A) + 1 /\ Cardinality(A \cup {x}) \in Nat
    BY <1>3
  <2>2. Cardinality(B) <= Cardinality(A \cup {x}) /\ Cardinality(B) \in Nat
    BY <1>2, <1>4, <2>1
  <2> QED BY <1>1, <2>1, <2>2
<1>5. ASSUME NEW x, NEW y, B \subseteq A \cup {x, y} PROVE n + 2 >= Cardinality(B)
  <2>1. IsFiniteSet(A \cup {x}) /\ Cardinality(A \cup {x}) <= Cardinality(A) + 1 /\ Cardinality(A \cup {x}) \in Nat
    BY <1>3
  <2> DEFINE S == A \cup {x}
  <2>2. IsFiniteSet(S \cup {y}) /\ Cardinality(S \cup {y}) <= Cardinality(S) + 1 /\ Cardinality(S \cup {y}) \in Nat
    BY <1>3, <2>1
  <2>3. B \subseteq S \cup {y}
    BY <1>5
  <2>4. Cardinality(B) <= Cardinality(S \cup {y}) /\ Cardinality(B) \in Nat
    BY <1>2, <2>2, <2>3
  <2> QED BY <1>1, <2>1, <2>2, <2>4
<1>6. ASSUME NEW x \in A PROVE n >= 1 /\ (B \subseteq A \ {x} => n - 1 >= Cardinality(B))
  <2>1. IsFiniteSet(A \ {x}) /\ Cardinality(A \ {x}) = Cardinality(A) - 1 /\ Cardinality(A \ {x}) \in Nat
    BY FS_RemoveElement, FS_CardinalityType
  <2>2. B \subseteq A \ {x} => Cardinality(B) <= Cardinality(A \ {x}) /\ Cardinality(B) \in Nat
    BY <1>2, <2>1
  <2> QED BY <1>1, <2>1, <2>2
<1>7. B \subseteq A => n >= Cardinality(B)
  BY <1>1, <1>2
<1> QED BY ZenonT(60), <1>4, <1>5, <1>6, <1>7

(* A region without pins has no holders. *)
LEMMA NoPinsNoHolders ==
    ASSUME RegionIInv, NEW r \in Regions, pins[r] = 0
    PROVE  Holders(r) = {}
<1>1. IsFiniteSet(Holders(r))
  BY HoldersFinite
<1>2. Cardinality(Holders(r)) \in Nat /\ pins[r] >= Cardinality(Holders(r))
  BY <1>1, FS_CardinalityType DEF RegionIInv, PinsCover
<1>3. Cardinality(Holders(r)) = 0
  BY <1>2
<1> QED BY <1>1, <1>3, FS_EmptySet

(* A region nothing refers to has no holders. *)
LEMMA UnreferredNoHolders ==
    ASSUME RegionIInv, NEW r \in Regions, ~Referred(r)
    PROVE  Holders(r) = {}
BY ZenonT(60) DEF RegionIInv, SourcesRight, RegionTypeOK, Referred, Holders

(* The variables keep their types in every step. *)
LEMMA TypeStep ==
    ASSUME RegionIInv, [RegionNext]_objectVars
    PROVE  RegionTypeOK'
<1> USE DEF RegionTypeOK
<1>1. RegionTypeOK
  BY DEF RegionIInv
<1>2. ASSUME NEW r \in Regions, FromCore(r) \/ CloseRegion(r) \/ DropRegion(r) \/ DeallocRegion(r)
      PROVE  RegionTypeOK'
  BY <1>1, <1>2 DEF FromCore, CloseRegion, DropRegion, DeallocRegion, handleVars, exportVars, threadVars
<1>3. ASSUME NEW h \in Handles, NEW r \in Regions, Bind(h, r) PROVE RegionTypeOK'
  BY <1>1, <1>3 DEF Bind, BindTo, Pin, exportVars, threadVars
<1>4. ASSUME NEW e \in Exports, NEW r \in Regions, ShmGetBuffer(e, r) PROVE RegionTypeOK'
  BY <1>1, <1>4 DEF ShmGetBuffer, Pin, Export, EKinds, handleVars, threadVars
<1>5. ASSUME NEW e \in Exports, NEW h \in Handles, NEW r \in Regions, GetPayload(e, h, r) PROVE RegionTypeOK'
  BY <1>1, <1>5 DEF GetPayload, Export, EKinds, threadVars
<1>6. ASSUME NEW e \in Exports, NEW h \in Handles, BytesGetBuffer(e, h) \/ AsCapsule(e, h) PROVE RegionTypeOK'
  BY <1>1, <1>6 DEF BytesGetBuffer, AsCapsule, Pin, Export, EKinds, handleVars, threadVars
<1>7. ASSUME NEW e \in Exports, NEW c \in Exports, CapsuleRetain(e, c) PROVE RegionTypeOK'
  <2>1. esource[c] \in Regions
    BY <1>7 DEF RegionIInv, SourcesRight, CapsuleRetain
  <2> QED BY <1>1, <1>7, <2>1 DEF CapsuleRetain, Pin, Export, EKinds, handleVars, threadVars
<1>8. ASSUME NEW t \in Threads, EnterCall(t) \/ LeaveCall(t) PROVE RegionTypeOK'
  BY ZenonT(60), <1>1, <1>8, ModesAssumption, AtAssumption
     DEF EnterCall, LeaveCall, Block, Return, AllModes, regionVars, handleVars, exportVars
<1>9. ASSUME NEW h \in Handles, CloseHandle(h) PROVE RegionTypeOK'
  <2>1. hregion[h] # NoRegion => Open(h) /\ h \in Holders(hregion[h]) /\ hregion[h] \in Regions
    BY <1>1, <1>9 DEF RegionIInv, SourcesRight, CloseHandle, CloseBound, Open, Holders
  <2>2. hregion[h] # NoRegion => pins[hregion[h]] \in Nat /\ pins[hregion[h]] >= 1
    BY <1>1, <2>1, HoldersFinite, Bounds DEF RegionIInv, PinsCover
  <2> QED BY <1>1, <1>9, <2>1, <2>2 DEF CloseHandle, CloseBound, Unpin, exportVars, threadVars
<1>10. ASSUME NEW h \in Handles, DeallocHandle(h) PROVE RegionTypeOK'
  <2>1. hregion[h] # NoRegion /\ h \notin hclosed
          => Open(h) /\ h \in Holders(hregion[h]) /\ hregion[h] \in Regions
    BY <1>1, <1>10 DEF RegionIInv, SourcesRight, DeallocHandle, Open, Holders
  <2>2. hregion[h] # NoRegion /\ h \notin hclosed => pins[hregion[h]] \in Nat /\ pins[hregion[h]] >= 1
    BY <1>1, <2>1, HoldersFinite, Bounds DEF RegionIInv, PinsCover
  <2> QED BY <1>1, <1>10, <2>1, <2>2 DEF DeallocHandle, Unpin, exportVars, threadVars
<1>11. ASSUME NEW e \in Exports, Release(e) PROVE RegionTypeOK'
  <2>1. UnpinnedBy(e) # NoRegion => UnpinnedBy(e) \in Regions /\ e \in Holders(UnpinnedBy(e))
    BY <1>1, <1>11 DEF RegionIInv, SourcesRight, Release, UnpinnedBy, Open, Holders, EKinds
  <2>2. UnpinnedBy(e) # NoRegion => pins[UnpinnedBy(e)] \in Nat /\ pins[UnpinnedBy(e)] >= 1
    BY ZenonT(60), <1>1, <2>1, HoldersFinite, Bounds DEF RegionIInv, PinsCover
  <2> QED BY <1>1, <1>11, <2>1, <2>2 DEF Release, Unpin, EKinds, handleVars, threadVars
<1>12. CASE UNCHANGED objectVars
  BY <1>1, <1>12 DEF objectVars, regionVars, handleVars, exportVars, threadVars
<1> QED
  BY ZenonT(60), <1>2, <1>3, <1>4, <1>5, <1>6, <1>7, <1>8, <1>9, <1>10, <1>11, <1>12 DEF RegionNext

-----------------------------------------------------------------------------

(* What the two counting invariants need of a step: no region but r gains  *)
(* a holder or loses a pin or its mapping.                                 *)
LEMMA CountStep ==
    ASSUME RegionIInv, RegionTypeOK', NEW r,
           \A q \in Regions \ {r} : /\ Holders(q)' \subseteq Holders(q)
                                    /\ pins'[q] = pins[q]
                                    /\ q \in mapped => q \in mapped',
           r \in Regions => /\ pins'[r] >= Cardinality(Holders(r)')
                            /\ Holders(r)' # {} => r \in mapped'
    PROVE  PinsCover' /\ HeldIsMapped'
<1>1. ASSUME NEW q \in Regions, q # r
      PROVE  pins'[q] >= Cardinality(Holders(q)')
  BY <1>1, HoldersFinite, Bounds DEF RegionIInv, RegionTypeOK, PinsCover
<1>2. PinsCover'
  BY <1>1 DEF PinsCover
<1>3. HeldIsMapped'
  BY DEF RegionIInv, HeldIsMapped
<1> QED BY <1>2, <1>3

(* shm_close, shm_dealloc, a new mapping, a dropped reference. *)
LEMMA RegionActions ==
    ASSUME RegionIInv, RegionTypeOK', NEW r \in Regions,
           FromCore(r) \/ CloseRegion(r) \/ DropRegion(r) \/ DeallocRegion(r)
    PROVE  SourcesRight' /\ PinsCover' /\ HeldIsMapped'
<1>1. UNCHANGED <<handleVars, exportVars, threadVars>>
  BY DEF FromCore, CloseRegion, DropRegion, DeallocRegion
<1>2. SourcesRight'
  BY <1>1 DEF RegionIInv, SourcesRight, Open, handleVars, exportVars
<1>3. \A q \in Regions : Holders(q)' = Holders(q)
  BY <1>1 DEF Holders, Open, handleVars, exportVars
<1>4. CASE DropRegion(r)
  <2>1. pins' = pins /\ mapped' = mapped
    BY <1>4 DEF DropRegion
  <2>2. PinsCover' /\ HeldIsMapped'
    BY ZenonT(60), <1>3, <2>1 DEF RegionIInv, PinsCover, HeldIsMapped
  <2> QED BY <1>2, <2>2
<1>5. CASE FromCore(r) \/ CloseRegion(r) \/ DeallocRegion(r)
  <2>1. Holders(r) = {}
    BY <1>5, NoPinsNoHolders, UnreferredNoHolders DEF FromCore, CloseRegion, DeallocRegion
  <2>2. Cardinality(Holders(r)') = 0
    BY <1>3, <2>1, FS_EmptySet
  <2>3. pins'[r] \in Nat
    BY ZenonT(60) DEF RegionTypeOK
  <2>4. \A q \in Regions \ {r} : pins'[q] = pins[q] /\ (q \in mapped => q \in mapped')
    BY ZenonT(60), <1>5 DEF FromCore, CloseRegion, DeallocRegion, RegionIInv, RegionTypeOK
  <2>5. PinsCover' /\ HeldIsMapped'
    BY <1>3, <2>1, <2>2, <2>3, <2>4, CountStep
  <2> QED BY <1>2, <2>5
<1> QED BY <1>4, <1>5

(* What a step may do to the holders of a region, and what it pays. *)
LEMMA Paid ==
    ASSUME RegionTypeOK, PinsCover, NEW r \in Regions, NEW x, NEW y
    PROVE  /\ Holders(r)' \subseteq Holders(r) \cup {x} => pins[r] + 1 >= Cardinality(Holders(r)')
           /\ Holders(r)' \subseteq Holders(r) \cup {x, y} => pins[r] + 2 >= Cardinality(Holders(r)')
           /\ x \in Holders(r) /\ Holders(r)' \subseteq Holders(r) \ {x} =>
                pins[r] >= 1 /\ pins[r] - 1 >= Cardinality(Holders(r)')
<1> DEFINE A == Holders(r)
           B == Holders(r)'
           n == pins[r]
<1>1. IsFiniteSet(A)
  BY HoldersFinite
<1>2. n \in Nat /\ n >= Cardinality(A)
  BY DEF RegionTypeOK, PinsCover
<1> HIDE DEF A, B, n
<1>3. /\ B \subseteq A \cup {x} => n + 1 >= Cardinality(B)
      /\ B \subseteq A \cup {x, y} => n + 2 >= Cardinality(B)
      /\ x \in A /\ B \subseteq A \ {x} => n >= 1 /\ n - 1 >= Cardinality(B)
  BY ZenonT(60), <1>1, <1>2, Bounds
<1> QED BY <1>3 DEF A, B, n

(* A successful pin: the region is mapped. *)
LEMMA PinFacts ==
    ASSUME RegionTypeOK, NEW r \in Regions, Pin(r)
    PROVE  /\ r \in mapped
           /\ pins'[r] = pins[r] + 1
           /\ \A q \in Regions \ {r} : pins'[q] = pins[q]
BY ZenonT(60) DEF RegionTypeOK, Pin, ShmIsClosed

(* posixipc_bytes_bind *)
LEMMA BindAction ==
    ASSUME ~RebindsUnderViews, RegionIInv, RegionTypeOK',
           NEW h \in Handles, NEW r \in Regions, Bind(h, r)
    PROVE  SourcesRight' /\ PinsCover' /\ HeldIsMapped'
<1>1. /\ ViewsOf(h) = {} /\ Pin(r) /\ bound' = bound \cup {h} /\ mapped' = mapped
      /\ hregion' = [hregion EXCEPT ![h] = r] /\ hclosed' = hclosed
      /\ ekind' = ekind /\ esource' = esource
  BY DEF Bind, BindTo, exportVars
<1>2. \A e \in Exports : ekind[e] = "bytes" => esource[e] # h
  BY ZenonT(60), <1>1 DEF ViewsOf
<1>3. SourcesRight'
  BY ZenonT(60), <1>1, <1>2 DEF RegionIInv, RegionTypeOK, SourcesRight, Open
<1>4. Holders(r)' \subseteq Holders(r) \cup {h}
  BY ZenonT(60), <1>1, <1>2 DEF RegionIInv, RegionTypeOK, SourcesRight, Holders, Open
<1>5. \A q \in Regions \ {r} : Holders(q)' \subseteq Holders(q)
  BY <1>1, <1>2 DEF RegionIInv, RegionTypeOK, SourcesRight, Holders, Open
<1>6. pins[r] + 1 >= Cardinality(Holders(r)')
  BY <1>4, Paid DEF RegionIInv
<1> QED BY ZenonT(60), <1>1, <1>3, <1>5, <1>6, PinFacts, CountStep DEF RegionIInv

(* close() of a handle and its dealloc: the handle and its views stop      *)
(* being holders, and the region loses one pin.                            *)
LEMMA HandleActions ==
    ASSUME RegionIInv, RegionTypeOK', NEW h \in Handles, CloseHandle(h) \/ DeallocHandle(h)
    PROVE  SourcesRight' /\ PinsCover' /\ HeldIsMapped'
<1>r. PICK r : r = hregion[h]
  BY ZenonT(60), SMTT(60)
<1>1. /\ hregion' = [hregion EXCEPT ![h] = NoRegion] /\ mapped' = mapped
      /\ ekind' = ekind /\ esource' = esource
      /\ bound' \in {bound, bound \ {h}} /\ hclosed' \in {hclosed \cup {h}, hclosed \ {h}}
      /\ h \notin bound' \/ h \in hclosed'
      /\ h \notin bound' => \A e \in Exports : ekind[e] = "bytes" => esource[e] # h
  BY ZenonT(60) DEF CloseHandle, CloseBound, DeallocHandle, ViewsOf, exportVars, RegionIInv, SourcesRight
<1>2. SourcesRight'
  BY ZenonT(60), <1>1 DEF RegionIInv, RegionTypeOK, SourcesRight, Open
<1>3. \A q \in Regions : Holders(q)' \subseteq Holders(q) \ {h}
  BY SMTT(60), <1>1, DisjointAssumption, NoRegionAssumption DEF RegionIInv, RegionTypeOK, Holders, Open
<1>4. CASE pins' = pins
  BY ZenonT(60), <1>1, <1>2, <1>3, <1>4, CountStep, HoldersFinite, Bounds
  DEF RegionIInv, RegionTypeOK, PinsCover, HeldIsMapped
<1>5. CASE Open(h) /\ r \in Regions /\ Unpin(r)
  <2>1. h \in Holders(r)
    BY <1>r, <1>5 DEF Holders
  <2>2. pins[r] - 1 >= Cardinality(Holders(r)')
    BY ZenonT(60), <1>3, <1>5, <2>1, Paid DEF RegionIInv
  <2>3. pins'[r] = pins[r] - 1 /\ \A q \in Regions \ {r} : pins'[q] = pins[q]
    BY ZenonT(60), <1>5 DEF RegionIInv, RegionTypeOK, Unpin
  <2>4. Holders(r)' # {} => r \in mapped'
    BY ZenonT(60), <1>1, <1>3, <1>5 DEF RegionIInv, HeldIsMapped
  <2>5. PinsCover' /\ HeldIsMapped'
    BY ZenonT(60), <1>1, <1>3, <2>2, <2>3, <2>4, CountStep
  <2> QED BY ZenonT(60), <1>2, <2>5
<1>6. pins' = pins \/ (Open(h) /\ r \in Regions /\ Unpin(r))
  BY ZenonT(60), <1>r DEF CloseHandle, CloseBound, DeallocHandle, RegionIInv, RegionTypeOK, SourcesRight, Open
<1> QED BY <1>4, <1>5, <1>6

(* An export that takes one pin for itself: shm_getbuffer, bytes_getbuffer, *)
(* mutex_as_capsule and capsule_retain.                                     *)
LEMMA ExportStep ==
    ASSUME RegionIInv, RegionTypeOK', NEW e \in Exports, NEW r \in Regions, NEW k, NEW s,
           Pin(r), Export(e, k, s), mapped' = mapped, UNCHANGED handleVars,
           \/ k \in {"view", "capsule"} /\ s = r
           \/ k = "bytes" /\ s \in Handles /\ Open(s) /\ hregion[s] = r
           \/ k = "retain" /\ s \in Exports /\ ekind[s] = "capsule" /\ esource[s] = r
    PROVE  SourcesRight' /\ PinsCover' /\ HeldIsMapped'
<1>1. /\ ekind[e] = "none" /\ ekind' = [ekind EXCEPT ![e] = k] /\ esource' = [esource EXCEPT ![e] = s]
      /\ bound' = bound /\ hclosed' = hclosed /\ hregion' = hregion
  BY ZenonT(60) DEF Export, handleVars
<1>2. SourcesRight'
  BY ZenonT(60), <1>1 DEF RegionIInv, RegionTypeOK, SourcesRight, Open
<1>3. \A q \in Regions : Holders(q)' \subseteq Holders(q) \cup {e}
  BY ZenonT(60), <1>1 DEF RegionIInv, RegionTypeOK, SourcesRight, Holders, Open
<1>4. \A q \in Regions \ {r} : e \notin Holders(q)'
  BY SMTT(60), <1>1, DisjointAssumption DEF RegionIInv, RegionTypeOK, SourcesRight, Holders, Open
<1>5. pins[r] + 1 >= Cardinality(Holders(r)')
  BY ZenonT(60), <1>3, Paid DEF RegionIInv
<1>6. PinsCover' /\ HeldIsMapped'
  BY SMTT(60), <1>3, <1>4, <1>5, PinFacts, CountStep DEF RegionIInv
<1> QED BY ZenonT(60), <1>2, <1>6

(* bytes_getbuffer and mutex_as_capsule *)
LEMMA BytesActions ==
    ASSUME RegionIInv, RegionTypeOK', NEW e \in Exports, NEW h \in Handles,
           BytesGetBuffer(e, h) \/ AsCapsule(e, h)
    PROVE  SourcesRight' /\ PinsCover' /\ HeldIsMapped'
<1>1. PICK r \in Regions : r = hregion[h]
  BY ZenonT(60) DEF RegionIInv, RegionTypeOK, BytesGetBuffer, AsCapsule
<1> QED BY ZenonT(60), <1>1, ExportStep DEF BytesGetBuffer, AsCapsule

(* capsule_retain *)
LEMMA RetainAction ==
    ASSUME RegionIInv, RegionTypeOK', NEW e \in Exports, NEW c \in Exports, CapsuleRetain(e, c)
    PROVE  SourcesRight' /\ PinsCover' /\ HeldIsMapped'
<1>1. PICK r \in Regions : r = esource[c]
  BY DEF RegionIInv, SourcesRight, CapsuleRetain
<1> QED BY ZenonT(60), <1>1, ExportStep DEF CapsuleRetain

(* shm_get_payload: a new handle and a view of it, and two pins. *)
LEMMA PayloadAction ==
    ASSUME RegionIInv, RegionTypeOK', NEW e \in Exports, NEW h \in Handles, NEW r \in Regions,
           GetPayload(e, h, r)
    PROVE  SourcesRight' /\ PinsCover' /\ HeldIsMapped'
<1>1. /\ r \in mapped /\ mapped' = mapped /\ h \notin bound \cup hclosed
      /\ pins' = [pins EXCEPT ![r] = @ + 2]
      /\ bound' = bound \cup {h} /\ hclosed' = hclosed /\ hregion' = [hregion EXCEPT ![h] = r]
      /\ ekind[e] = "none" /\ ekind' = [ekind EXCEPT ![e] = "bytes"]
      /\ esource' = [esource EXCEPT ![e] = h]
  BY ZenonT(60) DEF GetPayload, Export, ShmIsClosed
<1>2. \A x \in Exports : ekind[x] = "bytes" => esource[x] # h
  BY ZenonT(60), <1>1 DEF RegionIInv, SourcesRight
<1>3. SourcesRight'
  BY SMTT(60), <1>1, <1>2 DEF RegionIInv, RegionTypeOK, SourcesRight, Open
<1>4. Holders(r)' \subseteq Holders(r) \cup {h, e}
  BY ZenonT(60), <1>1, <1>2 DEF RegionIInv, RegionTypeOK, SourcesRight, Holders, Open
<1>5. \A q \in Regions \ {r} : Holders(q)' \subseteq Holders(q)
  BY ZenonT(60), <1>1, <1>2, DisjointAssumption DEF RegionIInv, RegionTypeOK, SourcesRight, Holders, Open
<1>6. pins[r] + 2 >= Cardinality(Holders(r)')
  BY ZenonT(60), <1>4, Paid DEF RegionIInv
<1>7. pins'[r] = pins[r] + 2 /\ \A q \in Regions \ {r} : pins'[q] = pins[q]
  BY ZenonT(60), <1>1 DEF RegionIInv, RegionTypeOK
<1>8. PinsCover' /\ HeldIsMapped'
  BY <1>1, <1>5, <1>6, <1>7, CountStep
<1> QED BY <1>3, <1>8

(* shm_releasebuffer, bytes_releasebuffer, capsule_release and             *)
(* capsule_destructor unpin the region the export held, or no region when  *)
(* the SharedBytes it came from was closed before it.                      *)
LEMMA ReleaseAction ==
    ASSUME RegionIInv, RegionTypeOK', NEW e \in Exports, Release(e)
    PROVE  SourcesRight' /\ PinsCover' /\ HeldIsMapped'
<1>r. PICK r : r = UnpinnedBy(e)
  OBVIOUS
<1>1. /\ ekind[e] # "none" /\ \A x \in Exports : ekind[x] = "retain" => esource[x] # e
      /\ ekind' = [ekind EXCEPT ![e] = "none"] /\ esource' = [esource EXCEPT ![e] = NoRegion]
      /\ mapped' = mapped /\ bound' = bound /\ hclosed' = hclosed /\ hregion' = hregion
  BY ZenonT(60) DEF Release, handleVars
<1>2. SourcesRight'
  BY ZenonT(60), <1>1 DEF RegionIInv, RegionTypeOK, SourcesRight, Open
<1>3. \A q \in Regions : Holders(q)' \subseteq Holders(q) \ {e}
  BY SMTT(60), <1>1, DisjointAssumption DEF RegionIInv, RegionTypeOK, SourcesRight, Holders, Open
<1>4. r = NoRegion \/ (r \in Regions /\ e \in Holders(r))
  <2>1. CASE ekind[e] = "bytes"
    BY ZenonT(60), <1>r, <2>1 DEF UnpinnedBy, RegionIInv, RegionTypeOK, SourcesRight, Holders, Open
  <2>2. CASE ekind[e] = "retain"
    BY ZenonT(60), <1>r, <2>2 DEF UnpinnedBy, RegionIInv, SourcesRight, Holders
  <2>3. CASE ekind[e] \in {"view", "capsule"}
    BY <1>r, <2>3 DEF UnpinnedBy, RegionIInv, SourcesRight, Holders
  <2> QED BY ZenonT(60), <1>1, <2>1, <2>2, <2>3 DEF RegionIInv, RegionTypeOK, EKinds
<1>5. CASE r = NoRegion
  <2>1. pins' = pins
    BY <1>r, <1>5 DEF Release
  <2>2. NoRegion \notin Regions
    BY NoRegionAssumption
  <2>3. PinsCover' /\ HeldIsMapped'
    BY ZenonT(60), <1>1, <1>3, <2>1, <2>2, CountStep
  <2> QED BY <1>2, <2>3
<1>6. CASE r \in Regions /\ e \in Holders(r)
  <2>1. Unpin(r)
    BY ZenonT(60), <1>r, <1>6, NoRegionAssumption DEF Release
  <2>2. pins[r] - 1 >= Cardinality(Holders(r)')
    BY ZenonT(60), <1>3, <1>6, Paid DEF RegionIInv
  <2>3. pins'[r] = pins[r] - 1 /\ \A q \in Regions \ {r} : pins'[q] = pins[q]
    BY ZenonT(60), <1>6, <2>1 DEF RegionIInv, RegionTypeOK, Unpin
  <2>4. PinsCover' /\ HeldIsMapped'
    BY ZenonT(60), <1>1, <1>3, <1>6, <2>2, <2>3, CountStep DEF RegionIInv, HeldIsMapped
  <2> QED BY <1>2, <2>4
<1> QED BY <1>4, <1>5, <1>6

(* A thread that enters or leaves a blocking call touches none of it. *)
LEMMA CallActions ==
    ASSUME RegionIInv, UNCHANGED <<regionVars, handleVars, exportVars>>
    PROVE  SourcesRight' /\ PinsCover' /\ HeldIsMapped'
<1>1. /\ mapped' = mapped /\ pins' = pins /\ bound' = bound /\ hclosed' = hclosed
      /\ hregion' = hregion /\ ekind' = ekind /\ esource' = esource
  BY ZenonT(60) DEF regionVars, handleVars, exportVars
<1>2. \A r \in Regions : Holders(r)' = Holders(r)
  BY <1>1 DEF Holders, Open
<1> QED BY <1>1, <1>2 DEF RegionIInv, SourcesRight, PinsCover, HeldIsMapped, Open

-----------------------------------------------------------------------------

(* Every step of a handle, an export or a region. *)
LEMMA RegionStep ==
    ASSUME ~RebindsUnderViews, RegionIInv, [RegionNext]_objectVars
    PROVE  RegionIInv'
<1>1. RegionTypeOK'
  BY ZenonT(60), TypeStep
<1>2. SourcesRight' /\ PinsCover' /\ HeldIsMapped'
  <2>1. CASE UNCHANGED objectVars \/ \E t \in Threads : EnterCall(t) \/ LeaveCall(t)
    <3>1. UNCHANGED <<regionVars, handleVars, exportVars>>
      BY <2>1 DEF objectVars, EnterCall, LeaveCall
    <3> QED BY ZenonT(60), <3>1, CallActions
  <2>2. CASE \E r \in Regions : FromCore(r) \/ CloseRegion(r) \/ DropRegion(r) \/ DeallocRegion(r)
    BY <1>1, <2>2, RegionActions
  <2>3. CASE \E h \in Handles : CloseHandle(h) \/ DeallocHandle(h)
    BY <1>1, <2>3, HandleActions
  <2>4. CASE \E h \in Handles, r \in Regions : Bind(h, r)
    BY ZenonT(60), <1>1, <2>4, BindAction
  <2>5. CASE \E e \in Exports, r \in Regions : ShmGetBuffer(e, r)
    BY ZenonT(60), <1>1, <2>5, ExportStep DEF ShmGetBuffer
  <2>6. CASE \E e \in Exports, h \in Handles : BytesGetBuffer(e, h) \/ AsCapsule(e, h)
    BY ZenonT(60), <1>1, <2>6, BytesActions
  <2>7. CASE \E e \in Exports, h \in Handles, r \in Regions : GetPayload(e, h, r)
    BY <1>1, <2>7, PayloadAction
  <2>8. CASE \E e, c \in Exports : CapsuleRetain(e, c)
    BY <1>1, <2>8, RetainAction
  <2>9. CASE \E e \in Exports : Release(e)
    BY <1>1, <2>9, ReleaseAction
  <2> QED BY ZenonT(60), <2>1, <2>2, <2>3, <2>4, <2>5, <2>6, <2>7, <2>8, <2>9 DEF RegionNext
<1> QED BY <1>1, <1>2 DEF RegionIInv

(* Nothing is open yet. *)
LEMMA RegionStart == RegionInit(Threads) => RegionIInv
<1> SUFFICES ASSUME RegionInit(Threads) PROVE RegionIInv
  OBVIOUS
<1>1. RegionTypeOK
  BY DEF RegionInit, RegionTypeOK, EKinds, AllModes
<1>2. SourcesRight
  BY ZenonT(60) DEF RegionInit, SourcesRight, Open
<1>3. \A r \in Regions : Holders(r) = {}
  BY ZenonT(60) DEF RegionInit, Holders, Open
<1>4. PinsCover /\ HeldIsMapped
  BY SMTT(60), <1>3, FS_EmptySet DEF RegionInit, PinsCover, HeldIsMapped
<1> QED BY <1>1, <1>2, <1>4 DEF RegionIInv

(* A program that does not create or attach a layout again under the views *)
(* of its SharedBytes: every open handle, memoryview and capsule finds its *)
(* region mapped, whatever is closed, dropped or bound again before, and   *)
(* every holder has a pin of its own.                                      *)
THEOREM RegionMapped ==
    ~RebindsUnderViews => (RegionSpec => [](HoldersMapped /\ PinsCover))
<1> SUFFICES ASSUME ~RebindsUnderViews PROVE RegionSpec => [](HoldersMapped /\ PinsCover)
  OBVIOUS
<1>1. RegionIInv => HoldersMapped /\ PinsCover
  <2> SUFFICES ASSUME RegionIInv PROVE HoldersMapped
    BY DEF RegionIInv
  <2>1. ASSUME NEW h \in Handles, Open(h), hregion[h] # NoRegion PROVE hregion[h] \in mapped
    <3>1. hregion[h] \in Regions /\ h \in Holders(hregion[h])
      BY ZenonT(60), <2>1 DEF RegionIInv, SourcesRight, Holders
    <3> QED BY ZenonT(60), <3>1 DEF RegionIInv, HeldIsMapped
  <2>2. ASSUME NEW e \in Exports, ekind[e] \in {"view", "capsule"} PROVE esource[e] \in mapped
    <3>1. esource[e] \in Regions /\ e \in Holders(esource[e])
      BY <2>2 DEF RegionIInv, SourcesRight, Holders
    <3> QED BY ZenonT(60), <3>1 DEF RegionIInv, HeldIsMapped
  <2>3. ASSUME NEW e \in Exports, ekind[e] = "bytes", Open(esource[e])
        PROVE  hregion[esource[e]] \in mapped
    <3>1. hregion[esource[e]] \in Regions /\ e \in Holders(hregion[esource[e]])
      BY <2>3 DEF RegionIInv, RegionTypeOK, SourcesRight, Holders
    <3> QED BY ZenonT(60), <3>1 DEF RegionIInv, HeldIsMapped
  <2> QED BY <2>1, <2>2, <2>3 DEF HoldersMapped
<1>2. RegionIInv /\ [RegionNext]_objectVars => RegionIInv'
  BY RegionStep
<1> QED BY <1>1, <1>2, RegionStart, PTL DEF RegionSpec

(* How a bound on the size of a set moves with the set. *)
LEMMA CardSub ==
    ASSUME NEW A, IsFiniteSet(A), NEW n \in Nat, Cardinality(A) <= n, NEW B \in SUBSET A
    PROVE  IsFiniteSet(B) /\ Cardinality(B) \in Nat /\ Cardinality(B) <= n
<1>1. IsFiniteSet(B) /\ Cardinality(B) <= Cardinality(A)
  BY FS_Subset
<1>2. Cardinality(A) \in Nat /\ Cardinality(B) \in Nat
  BY <1>1, FS_CardinalityType
<1> QED BY <1>1, <1>2

(* A set that gains at most one element. *)
LEMMA CardAdd ==
    ASSUME NEW A, IsFiniteSet(A), NEW n \in Nat, Cardinality(A) <= n, NEW x,
           NEW B \in SUBSET (A \cup {x})
    PROVE  IsFiniteSet(B) /\ Cardinality(B) \in Nat /\ Cardinality(B) <= n + 1
<1>1. Cardinality(A) \in Nat
  BY FS_CardinalityType
<1>2. IsFiniteSet(A \cup {x}) /\ Cardinality(A \cup {x}) <= n + 1
  <2>1. CASE x \in A
    <3>1. IsFiniteSet(A \cup {x}) /\ Cardinality(A \cup {x}) = Cardinality(A)
      <4>1. A \cup {x} = A
        BY ZenonT(60), <2>1
      <4> QED BY ZenonT(60), <4>1
    <3> QED BY <1>1, <3>1
  <2>2. CASE x \notin A
    <3>1. IsFiniteSet(A \cup {x}) /\ Cardinality(A \cup {x}) = Cardinality(A) + 1
      BY <2>2, FS_AddElement
    <3> QED BY <1>1, <3>1
  <2> QED BY ZenonT(60), <2>1, <2>2
<1>3. n + 1 \in Nat
  OBVIOUS
<1> QED BY <1>2, <1>3, CardSub

(* A set that loses an element. *)
LEMMA CardRemove ==
    ASSUME NEW A, IsFiniteSet(A), NEW n \in Nat, Cardinality(A) <= n, NEW x \in A,
           NEW B \in SUBSET (A \ {x})
    PROVE  IsFiniteSet(B) /\ n >= 1 /\ Cardinality(B) \in Nat /\ Cardinality(B) <= n - 1
<1>1. IsFiniteSet(A \ {x}) /\ Cardinality(A \ {x}) = Cardinality(A) - 1
  BY FS_RemoveElement
<1>2. Cardinality(A) \in Nat /\ Cardinality(A \ {x}) \in Nat
  BY <1>1, FS_CardinalityType
<1>3. n - 1 \in Nat /\ Cardinality(A \ {x}) <= n - 1
  BY <1>1, <1>2
<1>4. IsFiniteSet(B) /\ Cardinality(B) \in Nat /\ Cardinality(B) <= n - 1
  BY <1>1, <1>3, CardSub
<1> QED BY <1>3, <1>4

-----------------------------------------------------------------------------
(* Barrier *)

BarPlaces == {"idle", "dead", "barenter", "barwait", "bargot"}

(* The threads that arrived in a round, as far as anything still tells. *)
Arrived(k) ==
    {t \in Threads : t \in btrue[k] \cup bfalse[k] \/ bthread[t] = k \/ bserial[k] = t}

BarIInv ==
    /\ BarTypeOK
    /\ pc \in [Threads -> BarPlaces]
    /\ \A t \in Threads :
         bthread[t] # 0 => /\ pc[t] \in {"barwait", "bargot"}
                           /\ bthread[t] <= bround
                           /\ bthread[t] = bround => pc[t] = "barwait"
    /\ \A k \in Rounds :
         IF k < bround
           THEN /\ bserial[k] \in Threads /\ bserial[k] \notin bfalse[k]
                /\ btrue[k] \subseteq {bserial[k]}
                /\ Cardinality(Arrived(k)) <= Parties
           ELSE /\ bserial[k] = Nobody /\ btrue[k] = {} /\ bfalse[k] = {}
                /\ k = bround => Cardinality(Arrived(k)) <= bcount

(* Those who arrived in a round are threads, so they can be counted. *)
LEMMA ArrivedFinite == \A k \in Rounds : IsFiniteSet(Arrived(k)) /\ IsFiniteSet(Arrived(k)')
<1>1. TAKE k \in Rounds
<1>2. Arrived(k) \subseteq Threads /\ Arrived(k)' \subseteq Threads
  BY ZenonT(60) DEF Arrived
<1> QED BY ZenonT(60), <1>2, ThreadsAssumption, FS_Subset

(* A step that keeps every thread in the round it is in, or has it told    *)
(* of the round, or forgets it with its process.                           *)
LEMMA ArrivedShrinks ==
    ASSUME BarIInv, UNCHANGED <<bround, bcount, bserial>>,
           \A k \in Rounds : Arrived(k)' \subseteq Arrived(k)
    PROVE  \A k \in Rounds :
             /\ k < bround' => Cardinality(Arrived(k)') <= Parties
             /\ k = bround' => Cardinality(Arrived(k)') <= bcount'
<1>1. TAKE k \in Rounds
<1>2. IsFiniteSet(Arrived(k)) /\ Parties \in Nat /\ bcount \in Nat /\ bround' = bround /\ bcount' = bcount
  BY ArrivedFinite, PartiesAssumption DEF BarIInv, BarTypeOK
<1>3. Arrived(k)' \subseteq Arrived(k)
  OBVIOUS
<1>4. k < bround => Cardinality(Arrived(k)) <= Parties
  BY ZenonT(60) DEF BarIInv
<1>5. k = bround => Cardinality(Arrived(k)) <= bcount
  BY DEF BarIInv, BarTypeOK
<1> QED BY ZenonT(60), <1>2, <1>3, <1>4, <1>5, CardSub

(* pthread_barrier_wait *)
LEMMA ArriveStep ==
    ASSUME BarIInv, NEW t \in Threads, BarArrive(t)
    PROVE  BarIInv'
<1>00. PICK r \in Rounds : r = bround
  BY PartiesAssumption DEF BarArrive, BarIInv, BarTypeOK, Rounds
<1>T. BarTypeOK
  BY ZenonT(60) DEF BarIInv
<1>0. /\ r \in Rounds /\ r = bround /\ Parties \in Nat \ {0} /\ MaxRounds \in Nat \ {0}
      /\ bcount \in 0..(Parties - 1) /\ r \in Nat
  <2>1. Parties \in Nat \ {0} /\ MaxRounds \in Nat \ {0} /\ bcount \in 0..(Parties - 1)
    BY ZenonT(60), <1>T, PartiesAssumption DEF BarTypeOK
  <2> QED BY <1>00, <2>1 DEF Rounds
<1>1. /\ pc[t] = "barenter" /\ bthread[t] = 0 /\ UNCHANGED <<btrue, bfalse>>
  BY DEF BarArrive, BarIInv
<1>2. CASE ~Open(At[t])
  <2>1. pc' = [pc EXCEPT ![t] = "bargot"] /\ UNCHANGED barOnly
    BY ZenonT(60), <1>1, <1>2 DEF BarArrive, Goto, barOnly
  <2>2. \A k \in Rounds : Arrived(k)' = Arrived(k)
    BY <2>1 DEF Arrived, barOnly
  <2> QED BY ZenonT(60), <1>1, <2>1, <2>2 DEF BarIInv, BarTypeOK, BarPlaces, barOnly
<1>3. CASE Open(At[t])
  <2>1. /\ pc' = [pc EXCEPT ![t] = "barwait"] /\ bthread' = [bthread EXCEPT ![t] = r]
        /\ bthread \in [Threads -> 0..MaxRounds]
    BY ZenonT(60), <1>0, <1>3 DEF BarArrive, Goto, Arrive, BarIInv, BarTypeOK
  <2>2. IsFiniteSet(Arrived(r)) /\ Cardinality(Arrived(r)) <= bcount
    BY <1>0, ArrivedFinite DEF BarIInv
  <2>3. CASE bcount + 1 # Parties
    <3>1. UNCHANGED <<bround, bserial>> /\ bcount' = bcount + 1 /\ bcount' \in 0..(Parties - 1)
      BY <1>0, <1>3, <2>3 DEF BarArrive, Arrive
    <3>2. Arrived(r)' \subseteq Arrived(r) \cup {t}
      BY ZenonT(60), <1>1, <2>1, <3>1 DEF Arrived
    <3>3. Cardinality(Arrived(r)') <= bcount'
      BY <1>0, <2>2, <3>1, <3>2, CardAdd
    <3>4. \A k \in Rounds : k # r => Arrived(k)' = Arrived(k)
      BY <1>0, <1>1, <2>1, <3>1 DEF Arrived, Rounds
    <3> QED BY <1>0, <1>1, <2>1, <3>1, <3>3, <3>4 DEF BarIInv, BarTypeOK, BarPlaces, Rounds
  <2>4. CASE bcount + 1 = Parties
    <3>1. PICK u \in Threads : /\ u = t \/ (pc[u] = "barwait" /\ bthread[u] = r)
                               /\ bserial' = [bserial EXCEPT ![r] = u]
      BY ZenonT(60), <1>0, <1>3, <2>4 DEF BarArrive, Arrive
    <3>2. bround' = r + 1 /\ bcount' = 0
      BY ZenonT(60), <1>0, <1>3, <2>4 DEF BarArrive, Arrive
    <3>3. /\ bserial \in [Rounds -> Threads \cup {Nobody}]
          /\ btrue[r] = {} /\ bfalse[r] = {} /\ bserial'[r] = u
      BY <1>0, <3>1 DEF BarIInv, BarTypeOK
    <3>4. Arrived(r)' \subseteq Arrived(r) \cup {t}
      BY ZenonT(60), <1>0, <1>1, <2>1, <3>1, <3>3 DEF Arrived
    <3>5. Cardinality(Arrived(r)') <= Parties
      <4>1. bcount \in Nat /\ Arrived(r)' \in SUBSET (Arrived(r) \cup {t})
        BY <1>0, <3>4
      <4> QED BY ZenonT(60), <2>2, <2>4, <4>1, CardAdd
    <3>6. \A k \in Rounds : k # r => Arrived(k)' = Arrived(k)
      BY <1>0, <1>1, <2>1, <3>1, <3>3 DEF Arrived, Rounds
    <3>7. \A k \in Rounds : k = r + 1 => Cardinality(Arrived(k)') <= bcount'
      <4> SUFFICES ASSUME r + 1 \in Rounds PROVE Cardinality(Arrived(r + 1)') <= 0
        BY ZenonT(60), <3>2
      <4>1. Arrived(r + 1) = {}
        <5>1. /\ btrue[r + 1] = {} /\ bfalse[r + 1] = {} /\ bserial[r + 1] = Nobody
              /\ \A x \in Threads : bthread[x] # r + 1
          BY <1>0 DEF BarIInv, BarTypeOK
        <5> QED BY ZenonT(60), <5>1, NobodyAssumption DEF Arrived
      <4>2. Arrived(r + 1)' = {}
        BY <1>0, <3>6, <4>1
      <4> QED BY <4>2, FS_EmptySet
    <3>8. BarTypeOK'
      <4>1. bround' \in 1..(MaxRounds + 1) /\ bcount' \in 0..(Parties - 1) /\ r \in 0..MaxRounds
        BY <1>0, <3>2 DEF Rounds
      <4>2. bthread' \in [Threads -> 0..MaxRounds] /\ bserial' \in [Rounds -> Threads \cup {Nobody}]
        BY <2>1, <3>1, <3>3, <4>1
      <4> QED BY ZenonT(60), <1>T, <1>1, <4>1, <4>2 DEF BarTypeOK
    <3>9. \A k \in Rounds :
            IF k < bround'
              THEN /\ bserial'[k] \in Threads /\ bserial'[k] \notin bfalse'[k]
                   /\ btrue'[k] \subseteq {bserial'[k]}
                   /\ Cardinality(Arrived(k)') <= Parties
              ELSE /\ bserial'[k] = Nobody /\ btrue'[k] = {} /\ bfalse'[k] = {}
                   /\ k = bround' => Cardinality(Arrived(k)') <= bcount'
      <4>1. TAKE k \in Rounds
      <4>2. CASE k = r
        BY <1>0, <1>1, <3>1, <3>2, <3>3, <3>5, <4>2
      <4>3. CASE k < r
        BY <1>0, <1>1, <3>1, <3>2, <3>3, <3>6, <4>3 DEF BarIInv
      <4>4. CASE k > r
        BY <1>0, <1>1, <3>1, <3>2, <3>3, <3>7, <4>4 DEF BarIInv
      <4>5. k = r \/ k < r \/ k > r
        BY <1>0 DEF Rounds
      <4> QED BY ZenonT(60), <4>2, <4>3, <4>4, <4>5
    <3>10. \A x \in Threads :
             bthread'[x] # 0 => /\ pc'[x] \in {"barwait", "bargot"}
                                /\ bthread'[x] <= bround'
                                /\ bthread'[x] = bround' => pc'[x] = "barwait"
      BY <1>0, <1>1, <2>1, <3>2 DEF BarIInv
    <3> QED BY ZenonT(60), <2>1, <3>8, <3>9, <3>10 DEF BarIInv, BarPlaces
  <2> QED BY <2>3, <2>4
<1> QED BY ZenonT(60), <1>2, <1>3

(* The other steps of a thread; what a round has told only grows by one    *)
(* answer to a thread that was in it.                                      *)
LEMMA BarThreadSteps ==
    ASSUME BarIInv, NEW t \in Threads, BarWait(t) \/ BarLeave(t) \/ BarResume(t)
    PROVE  BarIInv'
<1>0. /\ bthread \in [Threads -> 0..MaxRounds] /\ bround \in Nat
      /\ btrue \in [Rounds -> SUBSET Threads] /\ bfalse \in [Rounds -> SUBSET Threads]
      /\ MaxRounds \in Nat
  BY PartiesAssumption DEF BarIInv, BarTypeOK
<1>1. CASE BarWait(t) \/ BarLeave(t)
  <2>1. /\ UNCHANGED <<bround, bcount, bserial, bthread, btrue, bfalse>>
        /\ \/ pc[t] = "idle" /\ pc' = [pc EXCEPT ![t] = "barenter"]
           \/ pc[t] = "barwait" /\ bthread[t] < bround /\ pc' = [pc EXCEPT ![t] = "bargot"]
    BY ZenonT(60), <1>1 DEF BarWait, BarLeave, Block, Goto, barOnly
  <2>2. \A k \in Rounds : Arrived(k)' = Arrived(k)
    BY ZenonT(60), <2>1 DEF Arrived
  <2> QED BY <1>0, <2>1, <2>2 DEF BarIInv, BarTypeOK, BarPlaces
<1>2. CASE BarResume(t)
  <2> DEFINE k == bthread[t]
  <2>1. /\ UNCHANGED <<bround, bcount, bserial>> /\ pc[t] = "bargot"
        /\ pc' = [pc EXCEPT ![t] = "idle"] /\ bthread' = [bthread EXCEPT ![t] = 0]
    BY ZenonT(60), <1>2 DEF BarResume, Return
  <2>2. k # 0 => k \in Rounds /\ k < bround
    BY <1>0, <2>1 DEF BarIInv, Rounds
  <2>3. \/ k = 0 /\ UNCHANGED <<btrue, bfalse>>
        \/ k # 0 /\ bserial[k] = t /\ btrue' = [btrue EXCEPT ![k] = @ \cup {t}] /\ UNCHANGED bfalse
        \/ k # 0 /\ bserial[k] # t /\ bfalse' = [bfalse EXCEPT ![k] = @ \cup {t}] /\ UNCHANGED btrue
    BY ZenonT(60), <1>2 DEF BarResume
  <2>4. \A j \in Rounds : Arrived(j)' \subseteq Arrived(j)
    <3>1. TAKE j \in Rounds
    <3>2. j # 0 /\ (\A x \in Threads : bthread'[x] = j => bthread[x] = j)
      BY <1>0, <2>1 DEF Rounds
    <3>3. \A x : x \in btrue'[j] \cup bfalse'[j] => x \in btrue[j] \cup bfalse[j] \/ (x = t /\ bthread[t] = j)
      BY <1>0, <2>2, <2>3
    <3> QED BY ZenonT(60), <2>1, <3>2, <3>3 DEF Arrived
  <2>5. BarTypeOK'
    BY <1>0, <2>1, <2>2, <2>3 DEF BarIInv, BarTypeOK
  <2>6. \A j \in Rounds :
          IF j < bround'
            THEN /\ bserial'[j] \in Threads /\ bserial'[j] \notin bfalse'[j]
                 /\ btrue'[j] \subseteq {bserial'[j]}
                 /\ Cardinality(Arrived(j)') <= Parties
            ELSE /\ bserial'[j] = Nobody /\ btrue'[j] = {} /\ bfalse'[j] = {}
                 /\ j = bround' => Cardinality(Arrived(j)') <= bcount'
    BY <1>0, <2>1, <2>2, <2>3, <2>4, ArrivedShrinks DEF BarIInv
  <2> QED BY ZenonT(60), <1>0, <2>1, <2>5, <2>6 DEF BarIInv, BarPlaces
<1> QED BY ZenonT(60), <1>1, <1>2

(* close(), a death, a region, and no step. *)
LEMMA BarOtherSteps ==
    ASSUME BarIInv,
           \/ \E h \in Handles : BarClose(h) \/ BarDies(h)
           \/ \E r \in Regions : CloseRegion(r) /\ UNCHANGED barOnly
           \/ UNCHANGED barVars
    PROVE  BarIInv'
<1>0. bthread \in [Threads -> 0..MaxRounds] /\ MaxRounds \in Nat
  BY ZenonT(60), PartiesAssumption DEF BarIInv, BarTypeOK
<1>1. CASE UNCHANGED <<threadVars, barOnly>>
  <2>1. UNCHANGED <<pc, bround, bcount, bserial, bthread, btrue, bfalse>>
    BY <1>1 DEF threadVars, barOnly
  <2>2. \A k \in Rounds : Arrived(k)' = Arrived(k)
    BY ZenonT(60), <2>1 DEF Arrived
  <2> QED BY ZenonT(60), <2>1, <2>2 DEF BarIInv, BarTypeOK
<1>2. ASSUME NEW h \in Handles, BarDies(h) PROVE BarIInv'
  <2>1. /\ pc' = [u \in Threads |-> IF At[u] = h THEN "dead" ELSE pc[u]]
        /\ bthread' = [u \in Threads |-> IF At[u] = h THEN 0 ELSE bthread[u]]
        /\ UNCHANGED <<bround, bcount, bserial, btrue, bfalse>>
    BY ZenonT(60), <1>2 DEF BarDies, ProcessDies, ProcessEnds
  <2>2. \A j \in Rounds : Arrived(j)' \subseteq Arrived(j)
    <3>1. \A u \in Threads : bthread'[u] = bthread[u] \/ bthread'[u] = 0
      BY ZenonT(60), <2>1
    <3>2. \A j \in Rounds : j # 0
      BY <1>0 DEF Rounds
    <3> QED BY ZenonT(60), <2>1, <3>1, <3>2 DEF Arrived
  <2>3. BarTypeOK' /\ pc' \in [Threads -> BarPlaces]
    <3>1. 0 \in 0..MaxRounds /\ "dead" \in BarPlaces
      BY <1>0 DEF BarPlaces
    <3> QED BY ZenonT(60), <1>0, <2>1, <3>1 DEF BarIInv, BarTypeOK
  <2>4. \A j \in Rounds :
          /\ j < bround' => Cardinality(Arrived(j)') <= Parties
          /\ j = bround' => Cardinality(Arrived(j)') <= bcount'
    BY ZenonT(60), <2>1, <2>2, ArrivedShrinks
  <2> QED BY ZenonT(60), <1>0, <2>1, <2>3, <2>4 DEF BarIInv
<1>3. ASSUME NEW h \in Handles, BarClose(h) PROVE BarIInv'
  BY ZenonT(60), <1>1, <1>3 DEF BarClose
<1>4. ASSUME NEW r \in Regions, CloseRegion(r), UNCHANGED barOnly PROVE BarIInv'
  BY ZenonT(60), <1>1, <1>4 DEF CloseRegion
<1>5. CASE UNCHANGED barVars
  BY ZenonT(60), <1>1, <1>5 DEF barVars, objectVars
<1> QED BY ZenonT(60), <1>2, <1>3, <1>4, <1>5

(* Every step of Barrier. *)
LEMMA BarStep == BarIInv /\ [BarNext]_barVars => BarIInv'
BY ZenonT(60), ArriveStep, BarThreadSteps, BarOtherSteps DEF BarNext

(* A new barrier: nobody has arrived in round 0. *)
LEMMA BarStart ==
    ASSUME BarInit, pc \in [Threads -> {"idle", "dead"}]
    PROVE  BarIInv
<1>1. bthread = [t \in Threads |-> 0] /\ bround = 1 /\ bcount = 0
  BY ZenonT(60) DEF BarInit
<1>2. ASSUME NEW k \in Rounds PROVE Arrived(k) = {}
  BY <1>1, NobodyAssumption DEF Arrived, BarInit, Rounds
<1>3. \A k \in Rounds : Cardinality(Arrived(k)) = 0
  BY ZenonT(60), <1>2, FS_EmptySet
<1>4. BarTypeOK
  BY PartiesAssumption DEF BarInit, BarTypeOK, Rounds
<1> QED BY <1>1, <1>3, <1>4, PartiesAssumption DEF BarInit, BarIInv, BarPlaces, Rounds

(* The invariant says what the property says. *)
LEMMA BarRight == BarIInv => OneTruePerRound
<1> SUFFICES ASSUME BarIInv, NEW k \in Rounds
             PROVE  /\ Cardinality(btrue[k]) <= 1
                    /\ Cardinality(btrue[k] \cup bfalse[k]) = Parties => Cardinality(btrue[k]) = 1
  BY ZenonT(60) DEF OneTruePerRound
<1>0. Parties \in Nat \ {0} /\ bround \in Nat /\ k \in Nat
  BY PartiesAssumption DEF BarIInv, BarTypeOK, Rounds
<1>1. CASE k < bround
  <2> DEFINE s == bserial[k]
             told == btrue[k] \cup bfalse[k]
  <2>1. /\ s \in Threads /\ s \notin bfalse[k] /\ btrue[k] \subseteq {s}
        /\ Cardinality(Arrived(k)) <= Parties /\ IsFiniteSet(Arrived(k))
    BY <1>1, ArrivedFinite DEF BarIInv
  <2>2. Cardinality({s}) = 1 /\ Cardinality({}) = 0
    BY ZenonT(60), FS_Singleton, FS_EmptySet
  <2>3. btrue[k] = {s} \/ btrue[k] = {}
    BY ZenonT(60), <2>1
  <2>4. ASSUME btrue[k] = {} PROVE Cardinality(told) # Parties
    <3>1. told \subseteq Arrived(k) \ {s} /\ s \in Arrived(k)
      BY ZenonT(60), <2>1, <2>4 DEF Arrived, BarIInv, BarTypeOK
    <3>2. IsFiniteSet(told) /\ Cardinality(told) <= Parties - 1
      BY ZenonT(60), <1>0, <2>1, <3>1, CardRemove
    <3>3. Cardinality(told) \in Nat
      BY ZenonT(60), <3>2, FS_CardinalityType
    <3> QED BY <1>0, <3>2, <3>3
  <2> QED BY <2>2, <2>3, <2>4
<1>2. CASE ~(k < bround)
  <2>1. btrue[k] = {} /\ btrue[k] \cup bfalse[k] = {}
    BY <1>2 DEF BarIInv
  <2> QED BY <1>0, <2>1, FS_EmptySet
<1> QED BY ZenonT(60), <1>1, <1>2

(* Barrier for any number of parties, threads and rounds, handles closed   *)
(* as threads come in or out included: no round has two wait() that return *)
(* True, and a round everybody has come out of has one.                    *)
THEOREM BarrierRight == BarSpec => []OneTruePerRound
<1>1. PlacedInit(1, Threads) => pc \in [Threads -> {"idle", "dead"}]
  BY ZenonT(60) DEF PlacedInit
<1> QED BY <1>1, BarStart, BarStep, BarRight, PTL DEF BarSpec

-----------------------------------------------------------------------------
(* RWLock *)

RWReads == {x \in rwholds : x[2] = "read"}
RWGranted == {t \in rwok : rwanted[t][1] = "read"}

(* The read locks threads were told of, or are about to be told of, are    *)
(* among those the pthread rwlock counts; a write lock excludes all others,*)
(* told or about to be; and a context manager with held = 1 stands for a   *)
(* lock, so that its release gives up a lock of its own thread.            *)
RWCounted ==
    /\ IsFiniteSet(rwholds)
    /\ Cardinality(RWReads) + Cardinality(RWGranted) <= readers
    /\ writer # Nobody => readers = 0
RWAlone ==
    /\ \A x \in rwholds : x[2] = "write" => writer = x[1] /\ rwholds = {x} /\ rwok = {}
    /\ \A t \in rwok : rwanted[t][1] = "write" => writer = t /\ rwholds = {} /\ rwok = {t}
RWManaged == \A t \in cmheld : \E kind \in RWKinds : <<t, kind, "cm">> \in rwholds

RWIInv ==
    /\ RWTypeOK
    /\ pc \in [Threads -> {"idle", "dead", "rwwait", "rwgot"}]
    /\ \A t \in rwok : pc[t] = "rwgot"
    /\ RWCounted
    /\ RWAlone
    /\ RWManaged

(* What the counts say when the pthread rwlock has no reader, or no writer. *)
LEMMA RWFacts ==
    ASSUME RWIInv
    PROVE  /\ IsFiniteSet(RWReads) /\ IsFiniteSet(RWGranted) /\ IsFiniteSet(rwholds)
           /\ Cardinality(RWReads) \in Nat /\ Cardinality(RWGranted) \in Nat /\ readers \in Nat
           /\ Cardinality(RWReads) + Cardinality(RWGranted) <= readers
           /\ readers = 0 => RWReads = {} /\ RWGranted = {}
           /\ writer = Nobody => /\ \A x \in rwholds : x[2] = "read"
                                 /\ \A t \in rwok : rwanted[t][1] = "read"
           /\ writer # Nobody => readers = 0
<1>1. IsFiniteSet(rwholds) /\ IsFiniteSet(rwok)
  BY ZenonT(60), ThreadsAssumption, FS_Subset DEF RWIInv, RWTypeOK, RWCounted
<1>2. RWReads \subseteq rwholds /\ RWGranted \subseteq rwok
  BY DEF RWReads, RWGranted
<1>3. IsFiniteSet(RWReads) /\ IsFiniteSet(RWGranted)
  BY ZenonT(60), <1>1, <1>2, FS_Subset
<1>4. Cardinality(RWReads) \in Nat /\ Cardinality(RWGranted) \in Nat /\ readers \in Nat
  BY <1>3, FS_CardinalityType DEF RWIInv, RWTypeOK
<1>5. /\ Cardinality(RWReads) + Cardinality(RWGranted) <= readers
      /\ writer # Nobody => readers = 0
  BY DEF RWIInv, RWCounted
<1>6. readers = 0 => RWReads = {} /\ RWGranted = {}
  <2>1. readers = 0 => Cardinality(RWReads) = 0 /\ Cardinality(RWGranted) = 0
    BY <1>4, <1>5
  <2> QED BY ZenonT(60), <1>3, <2>1, FS_EmptySet
<1>7. ASSUME NEW x \in rwholds PROVE x[2] \in RWKinds /\ x[1] \in Threads
  BY ZenonT(60) DEF RWIInv, RWTypeOK
<1>8. writer = Nobody => \A x \in rwholds : x[2] = "read"
  BY ZenonT(60), <1>7, NobodyAssumption DEF RWIInv, RWAlone, RWKinds
<1>9. writer = Nobody => \A t \in rwok : rwanted[t][1] = "read"
  BY NobodyAssumption DEF RWIInv, RWTypeOK, RWAlone, RWKinds
<1> QED BY ZenonT(60), <1>1, <1>3, <1>4, <1>5, <1>6, <1>8, <1>9

(* The two counts, as CardAdd and CardRemove want them. *)
LEMMA RWSizes ==
    ASSUME RWIInv
    PROVE  /\ IsFiniteSet(RWReads) /\ Cardinality(RWReads) \in Nat
           /\ Cardinality(RWReads) <= Cardinality(RWReads)
           /\ IsFiniteSet(RWGranted) /\ Cardinality(RWGranted) \in Nat
           /\ Cardinality(RWGranted) <= Cardinality(RWGranted)
<1>1. \A n \in Nat : n <= n
  OBVIOUS
<1> QED BY ZenonT(60), <1>1, RWFacts

(* One more read hold makes one more at most. *)
LEMMA RWOneMore ==
    ASSUME RWIInv, NEW x, RWReads' \subseteq RWReads \cup {x}
    PROVE  Cardinality(RWReads') \in Nat /\ Cardinality(RWReads') <= Cardinality(RWReads) + 1
<1>1. RWReads' \in SUBSET (RWReads \cup {x})
  BY ZenonT(60)
<1> QED BY ZenonT(60), <1>1, RWSizes, CardAdd

(* A read hold released makes one less. *)
LEMMA RWOneLess ==
    ASSUME RWIInv, NEW x \in RWReads, RWReads' \subseteq RWReads \ {x}
    PROVE  Cardinality(RWReads') \in Nat /\ Cardinality(RWReads') <= Cardinality(RWReads) - 1
<1>1. RWReads' \in SUBSET (RWReads \ {x})
  BY ZenonT(60)
<1> QED BY ZenonT(60), <1>1, RWSizes, CardRemove

(* A grant not yet told makes one more at most. *)
LEMMA RWOneGranted ==
    ASSUME RWIInv, NEW t, RWGranted' \subseteq RWGranted \cup {t}
    PROVE  Cardinality(RWGranted') \in Nat /\ Cardinality(RWGranted') <= Cardinality(RWGranted) + 1
<1>1. RWGranted' \in SUBSET (RWGranted \cup {t})
  BY ZenonT(60)
<1> QED BY ZenonT(60), <1>1, RWSizes, CardAdd

(* A grant that is told is one less to tell. *)
LEMMA RWOneResumed ==
    ASSUME RWIInv, NEW t \in RWGranted, RWGranted' \subseteq RWGranted \ {t}
    PROVE  Cardinality(RWGranted') \in Nat /\ Cardinality(RWGranted') <= Cardinality(RWGranted) - 1
<1>1. RWGranted' \in SUBSET (RWGranted \ {t})
  BY ZenonT(60)
<1> QED BY ZenonT(60), <1>1, RWSizes, CardRemove

(* pthread_rwlock_rdlock and wrlock, as one count and one name *)
LEMMA RWLockedFacts ==
    ASSUME RWIInv, NEW t \in Threads, NEW kind \in RWKinds, RWLockFor(t, kind)
    PROVE  /\ \A x \in rwholds : x[2] = "read"
           /\ \A u \in rwok : rwanted[u][1] = "read"
           /\ kind = "read" => writer' = Nobody /\ readers' = readers + 1
           /\ kind = "write" => /\ writer' = t /\ readers' = 0 /\ rwholds = {} /\ rwok = {}
                                /\ RWReads = {} /\ RWGranted = {}
<1>1. writer = Nobody /\ (kind = "write" => readers = 0)
  BY ZenonT(60) DEF RWLockFor, Available
<1>2. /\ \A x \in rwholds : x[2] = "read"
      /\ \A u \in rwok : rwanted[u][1] = "read"
  BY ZenonT(60), <1>1, RWFacts
<1>3. kind = "write" => RWReads = {} /\ RWGranted = {}
  BY ZenonT(60), <1>1, RWFacts
<1>4. kind = "write" => rwholds = {} /\ rwok = {}
  BY ZenonT(60), <1>2, <1>3 DEF RWReads, RWGranted
<1> QED BY ZenonT(60), <1>1, <1>2, <1>3, <1>4 DEF RWLockFor

(* rwlock_acquire_mode that does not have to wait *)
LEMMA RWTakeStep ==
    ASSUME RWIInv, NEW t \in Threads, NEW kind \in RWKinds, NEW via \in Vias,
           RWLockFor(t, kind), RWTold(t, kind, via), UNCHANGED <<pc, rwanted, rwok>>,
           cms' \subseteq Threads
    PROVE  RWIInv'
<1>0. PICK x : x = <<t, kind, via>>
  BY ZenonT(60)
<1>1. rwholds' = rwholds \cup {x} /\ x[1] = t /\ x[2] = kind
      /\ cmheld' = IF via = "cm" THEN cmheld \cup {t} ELSE cmheld
  BY ZenonT(60), <1>0 DEF RWTold
<1>2. RWGranted' = RWGranted
  BY DEF RWGranted
<1>3. IsFiniteSet(rwholds')
  BY ZenonT(60), <1>1, RWFacts, FS_AddElement
<1>4. RWManaged' /\ rwholds' \subseteq Threads \X RWKinds \X Vias
  <2>1. rwholds' \subseteq Threads \X RWKinds \X Vias
    <3>1. x \in Threads \X RWKinds \X Vias
      BY <1>0
    <3> QED BY ZenonT(60), <1>1, <3>1 DEF RWIInv, RWTypeOK
  <2>2. ASSUME NEW u \in cmheld' PROVE \E k \in RWKinds : <<u, k, "cm">> \in rwholds'
    <3>1. CASE u \in cmheld
      BY ZenonT(60), <1>1, <3>1 DEF RWIInv, RWManaged
    <3>2. CASE u \notin cmheld
      <4>1. via = "cm" /\ u = t
        BY ZenonT(60), <1>1, <2>2, <3>2
      <4> QED BY ZenonT(60), <1>0, <1>1, <4>1
    <3> QED BY ZenonT(60), <3>1, <3>2
  <2> QED BY ZenonT(60), <2>1, <2>2 DEF RWManaged
<1>5. CASE kind = "read"
  <2>1. writer' = Nobody /\ readers' = readers + 1 /\ RWReads' \subseteq RWReads \cup {x}
    BY <1>1, <1>5, RWLockedFacts DEF RWReads
  <2>2. Cardinality(RWReads') \in Nat /\ Cardinality(RWReads') <= Cardinality(RWReads) + 1
    BY ZenonT(60), <2>1, RWOneMore
  <2>3. RWCounted'
    BY <1>2, <1>3, <2>1, <2>2, RWFacts DEF RWCounted
  <2>4. /\ \A y \in rwholds' : y[2] = "read"
        /\ \A u \in rwok' : rwanted'[u][1] = "read"
    BY ZenonT(60), <1>1, <1>5, RWLockedFacts
  <2>5. RWAlone'
    BY ZenonT(60), <2>4 DEF RWAlone
  <2>6. readers' \in Nat
    BY <2>1, RWFacts
  <2> QED BY ZenonT(60), <1>1, <1>4, <2>1, <2>3, <2>5, <2>6 DEF RWIInv, RWTypeOK
<1>6. CASE kind = "write"
  <2>1. writer' = t /\ readers' = 0 /\ rwholds' = {x} /\ rwok' = {} /\ RWGranted' = {}
    BY ZenonT(60), <1>1, <1>2, <1>6, RWLockedFacts
  <2>2. RWReads' = {}
    BY ZenonT(60), <1>1, <1>6, <2>1 DEF RWReads
  <2>3. RWCounted'
    BY SMTT(30), <1>3, <2>1, <2>2, FS_EmptySet DEF RWCounted
  <2>4. RWAlone'
    BY ZenonT(60), <1>1, <2>1 DEF RWAlone
  <2> QED BY ZenonT(60), <1>1, <1>4, <2>1, <2>3, <2>4 DEF RWIInv, RWTypeOK
<1> QED BY ZenonT(60), <1>5, <1>6 DEF RWKinds

(* pthread_rwlock_*lock returns to a thread that waits. *)
LEMMA RWGrantStep ==
    ASSUME RWIInv, NEW t \in Threads, RWGrant(t)
    PROVE  RWIInv'
<1> DEFINE kind == rwanted[t][1]
<1>1. /\ pc[t] = "rwwait" /\ pc' = [pc EXCEPT ![t] = "rwgot"] /\ rwok' = rwok \cup {t}
      /\ t \notin rwok /\ kind \in RWKinds /\ RWLockFor(t, kind)
      /\ UNCHANGED <<rwanted, rwholds, cms, cmheld>>
  BY DEF RWGrant, Goto, RWIInv, RWTypeOK
<1>2. RWReads' = RWReads
  BY ZenonT(60), <1>1 DEF RWReads
<1>3. CASE kind = "read"
  <2>1. writer' = Nobody /\ readers' = readers + 1 /\ RWGranted' \subseteq RWGranted \cup {t}
    BY ZenonT(60), <1>1, <1>3, RWLockedFacts DEF RWGranted
  <2>2. Cardinality(RWGranted') \in Nat /\ Cardinality(RWGranted') <= Cardinality(RWGranted) + 1
    BY ZenonT(60), <2>1, RWOneGranted
  <2>a. /\ IsFiniteSet(rwholds') /\ readers \in Nat
        /\ Cardinality(RWReads') \in Nat /\ Cardinality(RWGranted) \in Nat
        /\ Cardinality(RWReads') + Cardinality(RWGranted) <= readers
    BY ZenonT(60), <1>1, <1>2, RWFacts
  <2>b. Cardinality(RWReads') + Cardinality(RWGranted') <= readers'
    BY <2>1, <2>2, <2>a
  <2>3. RWCounted'
    BY ZenonT(60), <2>1, <2>a, <2>b DEF RWCounted
  <2>4. /\ \A y \in rwholds' : y[2] = "read"
        /\ \A u \in rwok' : rwanted'[u][1] = "read"
    BY ZenonT(60), <1>1, <1>3, RWLockedFacts
  <2>5. RWAlone'
    BY ZenonT(60), <2>4 DEF RWAlone
  <2>6. RWTypeOK' /\ \A u \in rwok' : pc'[u] = "rwgot"
    BY <1>1, <2>1 DEF RWIInv, RWTypeOK
  <2> QED BY ZenonT(60), <1>1, <2>3, <2>5, <2>6 DEF RWIInv, RWManaged
<1>4. CASE kind = "write"
  <2>1. writer' = t /\ readers' = 0 /\ rwholds' = {} /\ rwok' = {t} /\ RWReads' = {}
    BY ZenonT(60), <1>1, <1>2, <1>4, RWLockedFacts
  <2>2. RWGranted' = {}
    BY ZenonT(60), <1>1, <1>4, <2>1 DEF RWGranted
  <2>3. RWCounted'
    BY <2>1, <2>2, FS_EmptySet DEF RWCounted
  <2>4. RWAlone'
    BY ZenonT(60), <1>1, <2>1 DEF RWAlone
  <2> QED BY ZenonT(60), <1>1, <2>1, <2>3, <2>4 DEF RWIInv, RWTypeOK, RWManaged
<1> QED BY ZenonT(60), <1>1, <1>3, <1>4 DEF RWKinds

(* The GIL is t's again: what it was granted is what it is told. *)
LEMMA RWResumeStep ==
    ASSUME RWIInv, NEW t \in Threads, RWResume(t)
    PROVE  RWIInv'
<1> DEFINE kind == rwanted[t][1]
           via == rwanted[t][2]
<1>0. PICK x : x = <<t, kind, via>>
  BY ZenonT(60)
<1>1. /\ pc' = [pc EXCEPT ![t] = "idle"] /\ rwok' = rwok \ {t} /\ UNCHANGED <<readers, writer, cms>>
      /\ rwanted' = [rwanted EXCEPT ![t] = <<"read", "call">>]
      /\ kind \in RWKinds /\ via \in Vias
  BY DEF RWResume, Return, RWIInv, RWTypeOK
<1>2. /\ RWTypeOK' /\ pc' \in [Threads -> {"idle", "dead", "rwwait", "rwgot"}]
      /\ \A u \in rwok' : pc'[u] = "rwgot"
  BY <1>1 DEF RWResume, RWTold, RWIInv, RWTypeOK, RWKinds, Vias
<1>3. RWManaged'
  BY <1>1 DEF RWResume, RWTold, RWIInv, RWManaged, Vias
<1>4. CASE t \notin rwok
  <2>1. rwok' = rwok /\ rwholds' = rwholds /\ RWReads' = RWReads
    BY <1>1, <1>4 DEF RWResume, RWReads
  <2>2. \A u \in rwok : rwanted'[u] = rwanted[u]
    BY ZenonT(60), <1>1, <1>4 DEF RWIInv, RWTypeOK
  <2>3. RWGranted' = RWGranted
    BY ZenonT(60), <2>1, <2>2 DEF RWGranted
  <2>4. RWCounted' /\ RWAlone'
    BY ZenonT(60), <1>1, <2>1, <2>2, <2>3 DEF RWIInv, RWCounted, RWAlone
  <2> QED BY ZenonT(60), <1>2, <1>3, <2>4 DEF RWIInv
<1>5. CASE t \in rwok
  <2>1. /\ rwholds' = rwholds \cup {x} /\ x[1] = t /\ x[2] = kind
        /\ \A u \in rwok' : rwanted'[u] = rwanted[u]
    BY ZenonT(60), <1>0, <1>1, <1>5 DEF RWResume, RWTold, RWIInv, RWTypeOK
  <2>2. IsFiniteSet(rwholds')
    BY ZenonT(60), <2>1, RWFacts, FS_AddElement
  <2>3. CASE kind = "read"
    <3>1. RWReads' \subseteq RWReads \cup {x} /\ RWGranted' \subseteq RWGranted \ {t} /\ t \in RWGranted
      BY ZenonT(60), <1>1, <1>5, <2>1, <2>3 DEF RWReads, RWGranted
    <3>2. Cardinality(RWReads') \in Nat /\ Cardinality(RWReads') <= Cardinality(RWReads) + 1
      BY ZenonT(60), <3>1, RWOneMore
    <3>3. Cardinality(RWGranted') \in Nat /\ Cardinality(RWGranted') <= Cardinality(RWGranted) - 1
      BY ZenonT(60), <3>1, RWOneResumed
    <3>4. RWCounted'
      <4>1. /\ Cardinality(RWReads) \in Nat /\ Cardinality(RWGranted) \in Nat /\ readers \in Nat
            /\ Cardinality(RWReads) + Cardinality(RWGranted) <= readers
        BY ZenonT(60), RWFacts
      <4>2. Cardinality(RWReads') + Cardinality(RWGranted') <= readers
        BY ONLY <3>2, <3>3, <4>1
      <4> QED BY ZenonT(60), <1>1, <2>2, <4>2, RWFacts DEF RWCounted
    <3>5. writer = Nobody
      BY <3>1, RWFacts
    <3>6. RWAlone'
      BY ZenonT(60), <1>1, <2>1, <2>3, <3>5, RWFacts DEF RWAlone
    <3> QED BY ZenonT(60), <1>2, <1>3, <3>4, <3>6 DEF RWIInv
  <2>4. CASE kind = "write"
    <3>1. writer' = t /\ rwholds' = {x} /\ rwok' = {} /\ readers' = 0
      BY ZenonT(60), <1>1, <1>5, <2>1, <2>4, NobodyAssumption DEF RWIInv, RWAlone, RWCounted
    <3>2. RWReads' = {} /\ RWGranted' = {}
      BY ZenonT(60), <2>1, <2>4, <3>1 DEF RWReads, RWGranted
    <3>3. RWCounted'
      BY <2>2, <3>1, <3>2, FS_EmptySet DEF RWCounted
    <3>4. RWAlone'
      BY ZenonT(60), <2>1, <3>1 DEF RWAlone
    <3> QED BY ZenonT(60), <1>2, <1>3, <3>3, <3>4 DEF RWIInv
  <2> QED BY ZenonT(60), <1>1, <2>3, <2>4 DEF RWKinds
<1> QED BY ZenonT(60), <1>4, <1>5

(* pthread_rwlock_unlock by a thread that was told of a lock: the one that *)
(* goes is its own, the write lock or one of the read locks counted.       *)
LEMMA RWUnlockStep ==
    ASSUME RWIInv, NEW t \in Threads, NEW x \in rwholds, x[1] = t, RWUnlockBy(t),
           rwholds' \subseteq rwholds \ {x}, UNCHANGED <<rwok, rwanted>>
    PROVE  RWCounted' /\ RWAlone' /\ readers' \in Nat /\ writer' \in Threads \cup {Nobody}
<1>1. x[2] \in RWKinds /\ writer \in Threads \cup {Nobody}
  BY DEF RWIInv, RWTypeOK
<1>2. RWGranted' = RWGranted
  BY ZenonT(60) DEF RWGranted
<1>3. IsFiniteSet(rwholds')
  BY ZenonT(60), RWFacts, FS_Subset
<1>4. CASE x[2] = "write"
  <2>1. writer = t /\ rwholds' = {} /\ rwok' = {} /\ readers = 0
    BY ZenonT(60), <1>4, NobodyAssumption DEF RWIInv, RWAlone, RWCounted
  <2>2. writer' = Nobody /\ readers' = 0
    BY ZenonT(60), <2>1 DEF RWUnlockBy
  <2>3. RWReads' = {} /\ RWGranted' = {}
    BY ZenonT(60), <2>1 DEF RWReads, RWGranted
  <2>4. RWCounted'
    BY <1>3, <2>2, <2>3, FS_EmptySet DEF RWCounted
  <2> QED BY ZenonT(60), <2>1, <2>2, <2>4 DEF RWAlone
<1>5. CASE x[2] = "read"
  <2>1. x \in RWReads /\ RWReads' \subseteq RWReads \ {x}
    BY ZenonT(60), <1>5 DEF RWReads
  <2>2. readers # 0 /\ writer = Nobody
    BY ZenonT(60), <2>1, RWFacts
  <2>3. writer' = Nobody /\ readers' = readers - 1
    BY <2>2, NobodyAssumption, RWFacts DEF RWUnlockBy
  <2>4. Cardinality(RWReads') \in Nat /\ Cardinality(RWReads') <= Cardinality(RWReads) - 1
    BY ZenonT(60), <2>1, RWOneLess
  <2>5. RWCounted'
    BY <1>2, <1>3, <2>3, <2>4, RWFacts DEF RWCounted
  <2>6. RWAlone'
    BY ZenonT(60), <2>2, RWFacts DEF RWAlone
  <2>7. readers \in Nat
    BY RWFacts
  <2> QED BY <2>2, <2>3, <2>5, <2>6, <2>7
<1> QED BY ZenonT(60), <1>1, <1>4, <1>5 DEF RWKinds

(* Fewer holds and fewer grants, and the same pthread rwlock. *)
LEMMA RWForgetStep ==
    ASSUME RWIInv, rwholds' \subseteq rwholds, rwok' \subseteq rwok, UNCHANGED <<readers, writer, rwanted>>
    PROVE  RWCounted' /\ RWAlone'
<1>1. RWReads' \subseteq RWReads /\ RWGranted' \subseteq RWGranted
  BY ZenonT(60) DEF RWReads, RWGranted
<1>2. /\ Cardinality(RWReads') \in Nat /\ Cardinality(RWReads') <= Cardinality(RWReads)
      /\ Cardinality(RWGranted') \in Nat /\ Cardinality(RWGranted') <= Cardinality(RWGranted)
  BY SMTT(30), <1>1, RWFacts, CardSub
<1>3. IsFiniteSet(rwholds')
  BY ZenonT(60), RWFacts, FS_Subset
<1>4. RWCounted'
  BY <1>2, <1>3, RWFacts DEF RWCounted
<1>5. RWAlone'
  BY ZenonT(60) DEF RWIInv, RWAlone
<1> QED BY ZenonT(60), <1>4, <1>5

(* release(), __exit__ and the deallocation of a context manager. *)
LEMMA RWReleaseSteps ==
    ASSUME RWIInv, NEW t \in Threads, RWRelease(t) \/ CmExit(t) \/ CmDealloc(t)
    PROVE  RWIInv'
<1>1. UNCHANGED <<pc, rwanted, rwok>> /\ cms' \subseteq Threads
  BY DEF RWRelease, CmExit, CmDealloc, objectVars, threadVars, RWIInv, RWTypeOK
<1>2. CASE RWRelease(t)
  <2>1. PICK kind \in RWKinds : /\ <<t, kind, "call">> \in rwholds
                                /\ rwholds' = rwholds \ {<<t, kind, "call">>}
    BY ZenonT(60), <1>2 DEF RWRelease
  <2>2. RWUnlockBy(t) /\ UNCHANGED <<cms, cmheld>>
    BY ZenonT(60), <1>2 DEF RWRelease
  <2>3. <<t, kind, "call">>[1] = t
    OBVIOUS
  <2>4. RWCounted' /\ RWAlone' /\ readers' \in Nat /\ writer' \in Threads \cup {Nobody}
    BY ZenonT(60), <1>1, <2>1, <2>2, <2>3, RWUnlockStep
  <2>5. RWManaged'
    BY ZenonT(60), <2>1, <2>2 DEF RWIInv, RWManaged
  <2> QED BY ZenonT(60), <1>1, <2>1, <2>2, <2>4, <2>5 DEF RWIInv, RWTypeOK
<1>3. CASE t \in cmheld /\ CmLetGo(t)
  <2>1. PICK kind \in RWKinds : <<t, kind, "cm">> \in rwholds
    BY ZenonT(60), <1>3 DEF RWIInv, RWManaged
  <2>2. /\ rwholds' = {x \in rwholds : x[1] # t \/ x[3] # "cm"}
        /\ cmheld' = cmheld \ {t}
        /\ RWUnlockBy(t) \/ UNCHANGED <<readers, writer>>
    BY ZenonT(60), <1>3 DEF CmLetGo
  <2>3. rwholds' \subseteq rwholds \ {<<t, kind, "cm">>} /\ <<t, kind, "cm">>[1] = t
    BY <2>2
  <2>4. RWCounted' /\ RWAlone' /\ readers' \in Nat /\ writer' \in Threads \cup {Nobody}
    <3>1. CASE RWUnlockBy(t)
      BY ZenonT(60), <1>1, <2>1, <2>3, <3>1, RWUnlockStep
    <3>2. CASE UNCHANGED <<readers, writer>>
      BY ZenonT(60), <1>1, <2>3, <3>2, RWForgetStep DEF RWIInv, RWTypeOK
    <3> QED BY ZenonT(60), <2>2, <3>1, <3>2
  <2>5. RWManaged'
    BY ZenonT(60), <2>2 DEF RWIInv, RWManaged
  <2> QED BY ZenonT(60), <1>1, <2>2, <2>3, <2>4, <2>5 DEF RWIInv, RWTypeOK
<1>4. CASE UNCHANGED <<cmheld, rwholds, readers, writer>>
  <2>1. RWCounted' /\ RWAlone'
    BY ZenonT(60), <1>1, <1>4, RWForgetStep
  <2> QED BY ZenonT(60), <1>1, <1>4, <2>1 DEF RWIInv, RWTypeOK, RWManaged
<1> QED BY ZenonT(60), <1>2, <1>3, <1>4 DEF CmExit, CmDealloc

(* acquire_read, acquire_write and __enter__, up to the wait, and a wait   *)
(* that ends without the lock.                                             *)
LEMMA RWEnterSteps ==
    ASSUME RWIInv, NEW t \in Threads,
           \/ RWGiveUp(t)
           \/ \E kind \in RWKinds, how \in Modes : RWAcquire(t, kind, how)
           \/ \E kind \in RWKinds : CmEnter(t, kind)
    PROVE  RWIInv'
<1>1. ASSUME NEW l \in {"rwwait", "rwgot"}, pc[t] \in {"idle", "rwwait"}, pc' = [pc EXCEPT ![t] = l],
             rwanted' = rwanted \/ (\E w \in RWKinds \X Vias : rwanted' = [rwanted EXCEPT ![t] = w]),
             UNCHANGED <<readers, writer, rwholds, cmheld, rwok>>, cms' \subseteq Threads
      PROVE  RWIInv'
  <2>1. t \notin rwok
    BY ZenonT(60), <1>1 DEF RWIInv
  <2>2. \A u \in rwok : rwanted'[u] = rwanted[u]
    BY ZenonT(60), <1>1, <2>1 DEF RWIInv, RWTypeOK
  <2>3. RWGranted' = RWGranted /\ RWReads' = RWReads
    BY <1>1, <2>2 DEF RWGranted, RWReads
  <2>4. RWCounted' /\ RWAlone'
    BY ZenonT(60), <1>1, <2>2, <2>3 DEF RWIInv, RWCounted, RWAlone
  <2> QED BY <1>1, <2>1, <2>4 DEF RWIInv, RWTypeOK, RWManaged
<1>2. ASSUME NEW kind \in RWKinds, NEW via \in Vias, NEW how, RWAcquireMode(t, kind, via, how),
             cms' \subseteq Threads
      PROVE  RWIInv'
  <2>1. CASE RWLockFor(t, kind) /\ RWTold(t, kind, via) /\ UNCHANGED <<threadVars, rwanted>>
    BY ZenonT(60), <1>2, <2>1, RWTakeStep DEF RWAcquireMode, threadVars
  <2>2. CASE /\ Block(t, "rwwait", how)
             /\ rwanted' = [rwanted EXCEPT ![t] = <<kind, via>>]
             /\ UNCHANGED <<readers, writer, rwholds, cmheld>>
    BY ZenonT(60), <1>1, <1>2, <2>2 DEF RWAcquireMode, Block
  <2> QED BY ZenonT(60), <1>2, <2>1, <2>2 DEF RWAcquireMode
<1>3. CASE RWGiveUp(t)
  BY ZenonT(60), <1>1, <1>3 DEF RWGiveUp, Goto, rwOnly, RWIInv, RWTypeOK
<1>4. ASSUME NEW kind \in RWKinds, NEW how \in Modes, RWAcquire(t, kind, how) PROVE RWIInv'
  BY ZenonT(60), <1>2, <1>4 DEF RWAcquire, Vias, RWIInv, RWTypeOK
<1>5. ASSUME NEW kind \in RWKinds, CmEnter(t, kind) PROVE RWIInv'
  BY ZenonT(60), <1>2, <1>5 DEF CmEnter, Vias, RWIInv, RWTypeOK
<1> QED BY ZenonT(60), <1>3, <1>4, <1>5

(* close(), a death, a region, and no step. *)
LEMMA RWOtherSteps ==
    ASSUME RWIInv,
           \/ \E h \in Handles : RWClose(h) \/ RWDies(h)
           \/ \E r \in Regions : CloseRegion(r) /\ UNCHANGED rwOnly
           \/ UNCHANGED rwVars
    PROVE  RWIInv'
<1>1. CASE UNCHANGED <<threadVars, rwOnly>>
  <2>1. UNCHANGED <<pc, readers, writer, rwanted, rwok, rwholds, cms, cmheld>>
    BY ZenonT(60), <1>1 DEF threadVars, rwOnly
  <2>2. RWCounted' /\ RWAlone'
    BY <2>1, RWForgetStep
  <2> QED BY ZenonT(60), <2>1, <2>2 DEF RWIInv, RWTypeOK, RWManaged
<1>2. ASSUME NEW h \in Handles, RWDies(h) PROVE RWIInv'
  <2>1. /\ pc' = [u \in Threads |-> IF At[u] = h THEN "dead" ELSE pc[u]]
        /\ rwholds' = {x \in rwholds : x[1] \notin ThreadsOf(h)}
        /\ cmheld' = cmheld \ ThreadsOf(h)
        /\ rwok' = rwok \ ThreadsOf(h)
        /\ UNCHANGED <<readers, writer, rwanted, cms>>
    BY ZenonT(60), <1>2 DEF RWDies, ProcessDies, ProcessEnds
  <2>2. RWCounted' /\ RWAlone'
    BY ZenonT(60), <2>1, RWForgetStep
  <2>3. RWManaged'
    BY ZenonT(60), <2>1 DEF RWIInv, RWManaged
  <2>4. /\ pc' \in [Threads -> {"idle", "dead", "rwwait", "rwgot"}]
        /\ \A t \in rwok' : pc'[t] = "rwgot"
    BY ZenonT(60), <2>1 DEF RWIInv, RWTypeOK, ThreadsOf
  <2> QED BY ZenonT(60), <2>1, <2>2, <2>3, <2>4 DEF RWIInv, RWTypeOK
<1>3. ASSUME NEW h \in Handles, RWClose(h) PROVE RWIInv'
  BY ZenonT(60), <1>1, <1>3 DEF RWClose
<1>4. ASSUME NEW r \in Regions, CloseRegion(r), UNCHANGED rwOnly PROVE RWIInv'
  BY ZenonT(60), <1>1, <1>4 DEF CloseRegion
<1>5. CASE UNCHANGED rwVars
  BY <1>1, <1>5 DEF rwVars, objectVars
<1> QED BY ZenonT(60), <1>2, <1>3, <1>4, <1>5

(* Every step of RWLock. *)
LEMMA RWStep == RWIInv /\ [RWNext]_rwVars => RWIInv'
BY ZenonT(60), RWEnterSteps, RWGrantStep, RWResumeStep, RWReleaseSteps, RWOtherSteps DEF RWNext

(* A new lock has no holder. *)
LEMMA RWStart ==
    ASSUME RWInit, pc \in [Threads -> {"idle", "dead"}]
    PROVE  RWIInv
<1>1. RWReads = {} /\ RWGranted = {} /\ rwholds = {} /\ rwok = {}
  BY ZenonT(60) DEF RWInit, RWReads, RWGranted
<1>2. RWCounted
  BY <1>1, FS_EmptySet DEF RWInit, RWCounted
<1> QED BY ZenonT(60), <1>1, <1>2 DEF RWInit, RWIInv, RWTypeOK, RWAlone, RWManaged, RWKinds, Vias

(* The invariant says what the property says. *)
LEMMA RWRight == RWIInv => RWHoldsBacked
<1> SUFFICES ASSUME RWIInv PROVE RWHoldsBacked
  OBVIOUS
<1>1. \A x \in rwholds : x[2] = "write" => writer = x[1] /\ rwholds = {x}
  BY ZenonT(60) DEF RWIInv, RWAlone
<1>2. Cardinality(RWReads) <= readers
  BY RWFacts
<1> QED BY <1>1, <1>2 DEF RWHoldsBacked, RWReads

(* RWLock for any number of processes and threads: what a thread was told  *)
(* it holds is backed by the pthread lock.  A writer is alone, and there   *)
(* are at least as many readers in the lock as read holds handed out,      *)
(* however acquire(), its context managers, their deallocation and deaths  *)
(* interleave.                                                             *)
THEOREM RWLockRight == RWSpec => []RWHoldsBacked
<1>1. PlacedInit(1, Threads) => pc \in [Threads -> {"idle", "dead"}]
  BY DEF PlacedInit
<1> QED BY <1>1, RWStart, RWStep, RWRight, PTL DEF RWSpec

=============================================================================
