-------------------------- MODULE KeyringTraceProofs --------------------------
(***************************************************************************)
(* Proofs that the keyring trace functions never leak, share or doubly    *)
(* free a wrapping-key string, for every bound on allocations and records. *)
(***************************************************************************)
EXTENDS KeyringTrace, SequenceTheorems, TLAPS

USE TraceAssumption

(***************************************************************************)
(* The ownership invariant alone is not inductive: a fresh copy made by    *)
(* add_record or record_init_clone must not be a live string already. The *)
(* strengthening says every live allocation is one of the first alloc.    *)
(***************************************************************************)
Fresh == \A p \in live : p <= alloc

IInv == TypeOK /\ ~fault /\ Fresh /\ StringsOwnedOnce

LEMMA InitIInv == Init => IInv
<1> SUFFICES ASSUME Init PROVE IInv
  OBVIOUS
<1>1. TypeOK
  <2>1. fault \in BOOLEAN
    BY Zenon DEF Init
  <2>2. trace \in Seq(WrappingKeys) /\ dest \in WrappingKeys
    BY EmptySeq DEF Init, NullKey, WrappingKeys, Ptrs, Null
  <2> QED
    BY <2>1, <2>2 DEF Init, TypeOK
<1>2. \A o \in Owners : Owned(o) = Null
  BY DEF Init, Owners, Owned, NullKey
<1>3. StringsOwnedOnce
  BY <1>2 DEF Init, StringsOwnedOnce
<1> QED
  BY <1>1, <1>3 DEF Init, IInv, Fresh

(***************************************************************************)
(* A step that only consumes allocation numbers (a failed add_record or   *)
(* clone) preserves the invariant.                                         *)
(***************************************************************************)
LEMMA AllocOnly ==
  ASSUME IInv, UNCHANGED <<trace, dest, live, fault>>,
         alloc' \in Nat, alloc <= alloc', alloc' <= MaxAllocs
  PROVE  IInv'
<1>1. TypeOK'
  BY DEF IInv, TypeOK
<1>2. Fresh'
  BY DEF IInv, Fresh, TypeOK
<1>3. StringsOwnedOnce'
  BY DEF IInv, StringsOwnedOnce, Owners, Owned
<1> QED
  BY <1>1, <1>2, <1>3 DEF IInv

(***************************************************************************)
(* Appending a record to the trace adds the two owners of its strings and *)
(* leaves what every other owner holds.                                    *)
(***************************************************************************)
LEMMA AppendOwners ==
  ASSUME NEW wk \in WrappingKeys, trace \in Seq(WrappingKeys),
         trace' = Append(trace, wk), dest' = dest
  PROVE  /\ Owners \subseteq Owners'
         /\ \A o \in Owners : Owned(o)' = Owned(o)
         /\ \A o \in Owners' \ Owners :
              o[2] \in {"ns", "name"} /\ o[1] = Len(trace) + 1 /\ Owned(o)' = wk[o[2]]
         /\ \A f \in {"ns", "name"} : \E o \in Owners' \ Owners : o[2] = f
<1>1. /\ DOMAIN trace' = 1..(Len(trace) + 1)
      /\ \A i \in DOMAIN trace : trace'[i] = trace[i]
      /\ trace'[Len(trace) + 1] = wk
      /\ Len(trace) \in Nat /\ DOMAIN trace = 1..Len(trace)
  BY AppendProperties
<1>2. Owners' = Owners \cup {<<Len(trace) + 1, "ns">>, <<Len(trace) + 1, "name">>}
  BY <1>1 DEF Owners
<1>3. \A o \in Owners : Owned(o)' = Owned(o)
  BY <1>1 DEF Owners, Owned
<1>4. <<Len(trace) + 1, "ns">> \notin Owners /\ <<Len(trace) + 1, "name">> \notin Owners
  BY <1>1 DEF Owners
<1>5. \A o \in Owners' \ Owners :
        o[2] \in {"ns", "name"} /\ o[1] = Len(trace) + 1 /\ Owned(o)' = wk[o[2]]
  <2> SUFFICES ASSUME NEW o \in Owners' \ Owners
               PROVE  o[2] \in {"ns", "name"} /\ o[1] = Len(trace) + 1 /\ Owned(o)' = wk[o[2]]
    OBVIOUS
  <2>1. o = <<Len(trace) + 1, "ns">> \/ o = <<Len(trace) + 1, "name">>
    BY <1>2
  <2>2. o[1] = Len(trace) + 1 /\ o[1] # 0 /\ o[2] \in {"ns", "name"}
    BY <2>1, <1>1
  <2> QED
    BY <2>2, <1>1 DEF Owned
<1> QED
  BY <1>2, <1>3, <1>4, <1>5

(* add_record keeps every string owned once. *)
LEMMA AddRecordIInv ==
  ASSUME IInv, AddRecord PROVE IInv'
<1>1. PICK wk \in Dups, pushed \in BOOLEAN :
        /\ alloc' = AllocCount(wk)
        /\ \/ /\ ~WrappingKeyInitCheck(wk)
              /\ live' = Destroy(wk, Held(wk))
              /\ fault' = (fault \/ BadFree(wk, Held(wk)))
              /\ UNCHANGED trace
           \/ /\ WrappingKeyInitCheck(wk) /\ pushed
              /\ trace' = Append(trace, wk) /\ live' = Held(wk)
              /\ UNCHANGED fault
           \/ /\ WrappingKeyInitCheck(wk) /\ ~pushed
              /\ live' = Destroy(wk, Held(wk))
              /\ fault' = (fault \/ BadFree(wk, Held(wk)))
              /\ UNCHANGED trace
  BY DEF AddRecord
<1>2. /\ wk.ns \in {Null, alloc + 1} /\ wk.name \in {Null, alloc + 2}
      /\ wk = [ns |-> wk.ns, name |-> wk.name]
      /\ alloc + 2 <= MaxAllocs /\ Len(trace) < MaxRecords
      /\ alloc \in Nat /\ dest' = dest
  BY DEF AddRecord, Dups, IInv, TypeOK
<1>3. alloc' \in Nat /\ alloc <= alloc' /\ alloc' <= MaxAllocs
  BY <1>1, <1>2 DEF AllocCount, Null
<1>4. wk.ns \notin live /\ wk.name \notin live
  BY <1>2 DEF IInv, Fresh, TypeOK, Null
<1>5. ~BadFree(wk, Held(wk)) /\ Destroy(wk, Held(wk)) = live
  BY <1>2, <1>4 DEF BadFree, Destroy, Held, Null, IInv, TypeOK
<1>9. fault \in BOOLEAN
  BY DEF IInv, TypeOK
<1>6. CASE ~WrappingKeyInitCheck(wk)
  <2>1. UNCHANGED <<trace, live, fault>>
    BY <1>1, <1>5, <1>6, <1>9, Zenon
  <2> QED
    BY <1>2, <1>3, <2>1, AllocOnly
<1>7. CASE WrappingKeyInitCheck(wk) /\ ~pushed
  <2>1. UNCHANGED <<trace, live, fault>>
    BY <1>1, <1>5, <1>7, <1>9, Zenon
  <2> QED
    BY <1>2, <1>3, <2>1, AllocOnly
<1>8. CASE WrappingKeyInitCheck(wk) /\ pushed
  <2>1. /\ trace' = Append(trace, wk) /\ live' = Held(wk) /\ fault' = fault
    BY <1>1, <1>8, Zenon
  <2>2. /\ wk.ns = alloc + 1 /\ wk.name = alloc + 2 /\ alloc' = alloc + 2
        /\ live' = live \cup {alloc + 1, alloc + 2}
    BY <2>1, <1>1, <1>2, <1>8 DEF WrappingKeyInitCheck, AllocCount, Held, Null
  <2>3. wk \in WrappingKeys
    BY <2>2, <1>2 DEF WrappingKeys, Ptrs
  <2>4. fault' \in BOOLEAN /\ ~fault'
    BY <2>1, Zenon DEF IInv, TypeOK
  <2>5. TypeOK'
    BY <2>1, <2>2, <2>3, <2>4, <1>2, AppendProperties DEF IInv, TypeOK, Ptrs
  <2>6. Fresh'
    BY <2>2, <1>2 DEF IInv, Fresh, TypeOK
  <2>7. /\ Owners \subseteq Owners'
        /\ \A o \in Owners : Owned(o)' = Owned(o)
        /\ \A o \in Owners' \ Owners :
             o[2] \in {"ns", "name"} /\ o[1] = Len(trace) + 1 /\ Owned(o)' = wk[o[2]]
        /\ \A f \in {"ns", "name"} : \E o \in Owners' \ Owners : o[2] = f
    BY <2>1, <2>3, <1>2, AppendOwners DEF IInv, TypeOK
  <2>8. \A o \in Owners' \ Owners : Owned(o)' \in {alloc + 1, alloc + 2}
    BY <2>7, <2>2
  <2>9. \A o \in Owners : Owned(o) \in live \cup {Null}
    BY DEF IInv, StringsOwnedOnce
  <2>10. \A p \in live : \E o \in Owners : Owned(o) = p
    BY DEF IInv, StringsOwnedOnce
  <2>11. \A p \in live : p # alloc + 1 /\ p # alloc + 2 /\ p # Null
    BY <1>2 DEF IInv, Fresh, TypeOK, Null
  <2>12. {Owned(o)' : o \in Owners'} \ {Null} = live'
    <3>1. \A o \in Owners' : Owned(o)' \in live' \cup {Null}
      BY <2>2, <2>7, <2>8, <2>9
    <3>2. \A p \in live : \E o \in Owners' : Owned(o)' = p
      BY <2>7, <2>10
    <3>3. \A p \in {alloc + 1, alloc + 2} : \E o \in Owners' : Owned(o)' = p
      BY <2>7, <2>2
    <3>4. \A p \in live' : p # Null
      BY <2>2, <2>11, <1>2 DEF Null
    <3> QED
      BY <3>1, <3>2, <3>3, <3>4, <2>2
  <2>13. \A o1, o2 \in Owners' : Owned(o1)' = Owned(o2)' /\ Owned(o1)' # Null => o1 = o2
    <3> SUFFICES ASSUME NEW o1 \in Owners', NEW o2 \in Owners',
                        Owned(o1)' = Owned(o2)', Owned(o1)' # Null
                 PROVE  o1 = o2
      OBVIOUS
    <3>1. CASE o1 \in Owners /\ o2 \in Owners
      BY <3>1, <2>7 DEF IInv, StringsOwnedOnce
    <3>2. CASE o1 \in Owners /\ o2 \notin Owners
      BY <3>2, <2>7, <2>8, <2>9, <2>11
    <3>3. CASE o1 \notin Owners /\ o2 \in Owners
      BY <3>3, <2>7, <2>8, <2>9, <2>11
    <3>4. CASE o1 \notin Owners /\ o2 \notin Owners
      <4>1. o1[1] = o2[1] /\ o1[2] \in {"ns", "name"} /\ o2[2] \in {"ns", "name"}
            /\ wk[o1[2]] = wk[o2[2]]
        BY <3>4, <2>7
      <4>2. o1[2] = o2[2]
        <5>1. wk["ns"] = alloc + 1 /\ wk["name"] = alloc + 2 /\ alloc + 1 # alloc + 2
          BY <2>2, <1>2
        <5> QED
          BY <4>1, <5>1, Zenon
      <4>3. o1 = <<o1[1], o1[2]>> /\ o2 = <<o2[1], o2[2]>>
        BY DEF Owners
      <4> QED
        BY <4>1, <4>2, <4>3
    <3> QED
      BY <3>1, <3>2, <3>3, <3>4
  <2>14. \A i \in DOMAIN trace' : WrappingKeyInitCheck(trace'[i])
    BY <2>1, <2>3, <1>8, AppendProperties DEF IInv, StringsOwnedOnce, TypeOK
  <2> QED
    BY <2>4, <2>5, <2>6, <2>12, <2>13, <2>14 DEF IInv, StringsOwnedOnce
<1> QED
  BY <1>6, <1>7, <1>8

(***************************************************************************)
(* A step that leaves the trace changes only what the cloned record's two *)
(* owners hold.                                                            *)
(***************************************************************************)
LEMMA SameTraceOwners ==
  ASSUME trace' = trace
  PROVE  /\ Owners' = Owners
         /\ \A o \in Owners : o[1] # 0 => Owned(o)' = Owned(o)
         /\ \A o \in Owners : o[1] = 0 => o[2] \in {"ns", "name"} /\ Owned(o)' = dest'[o[2]]
         /\ \A f \in {"ns", "name"} : <<0, f>> \in Owners /\ Owned(<<0, f>>) = dest[f]
<1>1. Owners' = Owners
  BY DEF Owners
<1>2. \A o \in Owners : o[1] = 0 => o[2] \in {"ns", "name"}
  BY DEF Owners
<1> QED
  BY <1>1, <1>2 DEF Owners, Owned

(* record_init_clone keeps every string owned once. *)
LEMMA CloneRecordIInv ==
  ASSUME IInv, NEW i \in DOMAIN trace, CloneRecord(i) PROVE IInv'
<1>1. PICK wk \in Dups :
        /\ alloc' = AllocCount(wk)
        /\ \/ /\ WrappingKeyInitCheck(wk)
              /\ dest' = wk /\ live' = Held(wk)
              /\ UNCHANGED fault
           \/ /\ ~WrappingKeyInitCheck(wk)
              /\ dest' = WrappingKeyCleanUp(WrappingKeyCleanUp(wk))
              /\ live' = Destroy(WrappingKeyCleanUp(wk), Destroy(wk, Held(wk)))
              /\ fault' = (fault \/ BadFree(wk, Held(wk))
                          \/ BadFree(WrappingKeyCleanUp(wk), Destroy(wk, Held(wk))))
  BY DEF CloneRecord
<1>2. /\ wk.ns \in {Null, alloc + 1} /\ wk.name \in {Null, alloc + 2}
      /\ wk = [ns |-> wk.ns, name |-> wk.name]
      /\ alloc + 2 <= MaxAllocs /\ alloc \in Nat
      /\ dest = NullKey /\ trace' = trace
  BY DEF CloneRecord, Dups, IInv, TypeOK
<1>3. alloc' \in Nat /\ alloc <= alloc' /\ alloc' <= MaxAllocs
  BY <1>1, <1>2 DEF AllocCount, Null
<1>4. wk.ns \notin live /\ wk.name \notin live
  BY <1>2 DEF IInv, Fresh, TypeOK, Null
<1>5. /\ ~BadFree(wk, Held(wk)) /\ Destroy(wk, Held(wk)) = live
      /\ ~BadFree(NullKey, live) /\ Destroy(NullKey, live) = live
  BY <1>2, <1>4 DEF BadFree, Destroy, Held, Null, NullKey, IInv, TypeOK
<1>6. fault \in BOOLEAN
  BY DEF IInv, TypeOK
<1>7. CASE ~WrappingKeyInitCheck(wk)
  <2>1. UNCHANGED <<dest, live, fault>>
    BY <1>1, <1>2, <1>5, <1>6, <1>7, Zenon DEF WrappingKeyCleanUp
  <2> QED
    BY <1>2, <1>3, <2>1, AllocOnly
<1>8. CASE WrappingKeyInitCheck(wk)
  <2>1. dest' = wk /\ live' = Held(wk) /\ fault' = fault
    BY <1>1, <1>8, Zenon
  <2>2. /\ wk.ns = alloc + 1 /\ wk.name = alloc + 2 /\ alloc' = alloc + 2
        /\ live' = live \cup {alloc + 1, alloc + 2}
    BY <2>1, <1>1, <1>2, <1>8 DEF WrappingKeyInitCheck, AllocCount, Held, Null
  <2>3. TypeOK'
    <3>1. fault' \in BOOLEAN
      BY <2>1, <1>6, Zenon
    <3> QED
      BY <3>1, <2>1, <2>2, <1>2 DEF IInv, TypeOK, WrappingKeys, Ptrs
  <2>4. Fresh'
    BY <2>2, <1>2 DEF IInv, Fresh, TypeOK
  <2>5. /\ Owners' = Owners
        /\ \A o \in Owners : o[1] # 0 => Owned(o)' = Owned(o)
        /\ \A o \in Owners : o[1] = 0 => o[2] \in {"ns", "name"} /\ Owned(o)' = wk[o[2]]
        /\ \A f \in {"ns", "name"} : <<0, f>> \in Owners /\ Owned(<<0, f>>) = Null
    BY <1>2, <2>1, SameTraceOwners DEF NullKey
  <2>6. \A o \in Owners : o[1] = 0 => Owned(o)' \in {alloc + 1, alloc + 2}
    BY <2>5, <2>2
  <2>7. \A o \in Owners : Owned(o) \in live \cup {Null}
    BY DEF IInv, StringsOwnedOnce
  <2>8. \A p \in live : \E o \in Owners : Owned(o) = p /\ o[1] # 0
    <3> SUFFICES ASSUME NEW p \in live PROVE \E o \in Owners : Owned(o) = p /\ o[1] # 0
      OBVIOUS
    <3>1. PICK o \in Owners : Owned(o) = p
      BY DEF IInv, StringsOwnedOnce
    <3>2. o[1] = 0 => Owned(o) = Null
      BY <1>2 DEF Owners, Owned, NullKey
    <3>3. p # Null
      BY DEF IInv, TypeOK, Null
    <3> QED
      BY <3>1, <3>2, <3>3
  <2>9. \A p \in live : p # alloc + 1 /\ p # alloc + 2 /\ p # Null
    BY <1>2 DEF IInv, Fresh, TypeOK, Null
  <2>10. {Owned(o)' : o \in Owners'} \ {Null} = live'
    <3>1. \A o \in Owners' : Owned(o)' \in live' \cup {Null}
      BY <2>2, <2>5, <2>6, <2>7
    <3>2. \A p \in live : \E o \in Owners' : Owned(o)' = p
      BY <2>5, <2>8
    <3>3. \A p \in {alloc + 1, alloc + 2} : \E o \in Owners' : Owned(o)' = p
      <4>1. <<0, "ns">> \in Owners' /\ <<0, "name">> \in Owners'
            /\ Owned(<<0, "ns">>)' = alloc + 1 /\ Owned(<<0, "name">>)' = alloc + 2
        BY <2>1, <2>2, <2>5 DEF Owned
      <4> QED
        BY <4>1
    <3>4. \A p \in live' : p # Null
      BY <2>2, <2>9, <1>2 DEF Null
    <3> QED
      BY <3>1, <3>2, <3>3, <3>4, <2>2
  <2>11. \A o1, o2 \in Owners' : Owned(o1)' = Owned(o2)' /\ Owned(o1)' # Null => o1 = o2
    <3> SUFFICES ASSUME NEW o1 \in Owners', NEW o2 \in Owners',
                        Owned(o1)' = Owned(o2)', Owned(o1)' # Null
                 PROVE  o1 = o2
      OBVIOUS
    <3>1. CASE o1[1] # 0 /\ o2[1] # 0
      BY <3>1, <2>5 DEF IInv, StringsOwnedOnce
    <3>2. CASE o1[1] # 0 /\ o2[1] = 0
      BY <3>2, <2>5, <2>6, <2>7, <2>9
    <3>3. CASE o1[1] = 0 /\ o2[1] # 0
      BY <3>3, <2>5, <2>6, <2>7, <2>9
    <3>4. CASE o1[1] = 0 /\ o2[1] = 0
      <4>1. o1[2] \in {"ns", "name"} /\ o2[2] \in {"ns", "name"} /\ wk[o1[2]] = wk[o2[2]]
        BY <3>4, <2>5
      <4>2. o1[2] = o2[2]
        <5>1. wk["ns"] = alloc + 1 /\ wk["name"] = alloc + 2 /\ alloc + 1 # alloc + 2
          BY <2>2, <1>2
        <5> QED
          BY <4>1, <5>1, Zenon
      <4>3. o1 = <<o1[1], o1[2]>> /\ o2 = <<o2[1], o2[2]>>
        BY <2>5 DEF Owners
      <4> QED
        BY <3>4, <4>2, <4>3
    <3> QED
      BY <3>1, <3>2, <3>3, <3>4
  <2>12. \A j \in DOMAIN trace' : WrappingKeyInitCheck(trace'[j])
    BY <1>2 DEF IInv, StringsOwnedOnce
  <2>13. ~fault'
    BY <2>1 DEF IInv
  <2> QED
    BY <2>3, <2>4, <2>10, <2>11, <2>12, <2>13 DEF IInv, StringsOwnedOnce
<1> QED
  BY <1>7, <1>8

(* What the invariant says of the cloned record's strings. *)
LEMMA DestOwned ==
  ASSUME IInv
  PROVE  /\ \A f \in {"ns", "name"} : dest[f] # Null => dest[f] \in live
         /\ dest.ns # Null => dest.ns # dest.name
         /\ \A o \in Owners : o[1] # 0 /\ Owned(o) # Null =>
                                Owned(o) # dest.ns /\ Owned(o) # dest.name
<1>1. \A f \in {"ns", "name"} : <<0, f>> \in Owners /\ Owned(<<0, f>>) = dest[f]
  BY DEF Owners, Owned
<1>2. \A o \in Owners : Owned(o) # Null => Owned(o) \in live
  BY DEF IInv, StringsOwnedOnce
<1>3. \A o1, o2 \in Owners : Owned(o1) = Owned(o2) /\ Owned(o1) # Null => o1 = o2
  BY DEF IInv, StringsOwnedOnce
<1>4. <<0, "ns">> # <<0, "name">>
  OBVIOUS
<1>5. \A o \in Owners : o[1] # 0 => o # <<0, "ns">> /\ o # <<0, "name">>
  OBVIOUS
<1> QED
  BY <1>1, <1>2, <1>3, <1>4, <1>5

(* record_clean_up keeps every string owned once, and frees only live ones. *)
LEMMA RecordCleanUpIInv ==
  ASSUME IInv, RecordCleanUp PROVE IInv'
<1>1. /\ dest' = NullKey /\ live' = live \ {dest.ns, dest.name}
      /\ fault' = (fault \/ BadFree(dest, live)) /\ trace' = trace /\ alloc' = alloc
  BY DEF RecordCleanUp, WrappingKeyCleanUp, Destroy
<1>2. ~BadFree(dest, live)
  BY DestOwned DEF BadFree
<1>3. fault' = fault /\ fault \in BOOLEAN
  BY <1>1, <1>2, Zenon DEF IInv, TypeOK
<1>4. TypeOK' /\ Fresh'
  <2>1. NullKey \in WrappingKeys
    BY DEF NullKey, WrappingKeys, Ptrs, Null
  <2>2. fault' \in BOOLEAN
    BY <1>3, Zenon
  <2> QED
    BY <1>1, <2>1, <2>2 DEF IInv, TypeOK, Fresh
<1>5. /\ Owners' = Owners
      /\ \A o \in Owners : o[1] # 0 => Owned(o)' = Owned(o)
      /\ \A o \in Owners : o[1] = 0 => Owned(o)' = Null
  BY <1>1, SameTraceOwners DEF NullKey
<1>6. \A o \in Owners : o[1] = 0 => Owned(o) \in {dest.ns, dest.name}
  BY DEF Owners, Owned
<1>7. {Owned(o)' : o \in Owners'} \ {Null} = live'
  <2>1. \A o \in Owners' : Owned(o)' # Null => Owned(o)' \in live'
    BY <1>1, <1>5, DestOwned DEF IInv, StringsOwnedOnce
  <2>2. \A p \in live' : \E o \in Owners' : Owned(o)' = p /\ p # Null
    <3> SUFFICES ASSUME NEW p \in live' PROVE \E o \in Owners' : Owned(o)' = p /\ p # Null
      OBVIOUS
    <3>1. PICK o \in Owners : Owned(o) = p
      BY <1>1 DEF IInv, StringsOwnedOnce
    <3>2. o[1] # 0 /\ p # Null
      BY <3>1, <1>1, <1>6 DEF IInv, TypeOK, Null
    <3> QED
      BY <3>1, <3>2, <1>5
  <2> QED
    BY <2>1, <2>2
<1>8. \A o1, o2 \in Owners' : Owned(o1)' = Owned(o2)' /\ Owned(o1)' # Null => o1 = o2
  BY <1>5 DEF IInv, StringsOwnedOnce
<1>9. \A j \in DOMAIN trace' : WrappingKeyInitCheck(trace'[j])
  BY <1>1 DEF IInv, StringsOwnedOnce
<1> QED
  BY <1>3, <1>4, <1>7, <1>8, <1>9 DEF IInv, StringsOwnedOnce

(* clear frees each string of the trace once, and only live ones. *)
LEMMA ClearIInv ==
  ASSUME IInv, Clear PROVE IInv'
<1>1. /\ TracePtrs = {o \in Owners : o[1] # 0}
      /\ \A t \in TracePtrs : trace[t[1]][t[2]] = Owned(t)
      /\ \A t \in TracePtrs : <<t[1], "ns">> \in TracePtrs /\ <<t[1], "name">> \in TracePtrs
                              /\ trace[t[1]].ns = Owned(<<t[1], "ns">>)
                              /\ trace[t[1]].name = Owned(<<t[1], "name">>)
  <2>1. DOMAIN trace = 1..Len(trace)
    BY DEF IInv, TypeOK
  <2>2. TracePtrs = {o \in Owners : o[1] # 0}
    BY <2>1 DEF TracePtrs, Owners
  <2>3. \A t \in TracePtrs : t[1] # 0 /\ t = <<t[1], t[2]>>
    BY <2>1 DEF TracePtrs
  <2> QED
    BY <2>2, <2>3 DEF TracePtrs, Owned
<1>2. \A t \in TracePtrs : Owned(t) \in live
  <2> SUFFICES ASSUME NEW t \in TracePtrs PROVE Owned(t) \in live
    OBVIOUS
  <2>1. WrappingKeyInitCheck(trace[t[1]]) /\ t[2] \in {"ns", "name"}
    BY DEF IInv, StringsOwnedOnce, TracePtrs
  <2>2. Owned(t) # Null
    BY <2>1, <1>1 DEF WrappingKeyInitCheck
  <2> QED
    BY <2>2, <1>1 DEF IInv, StringsOwnedOnce
<1>3. \A t, u \in TracePtrs : t # u => Owned(t) # Owned(u)
  BY <1>1, <1>2 DEF IInv, TypeOK, StringsOwnedOnce, Null
<1>4. \A t \in TracePtrs : ~BadFree(trace[t[1]], live)
  <2> SUFFICES ASSUME NEW t \in TracePtrs PROVE ~BadFree(trace[t[1]], live)
    OBVIOUS
  <2>1. trace[t[1]].ns \in live /\ trace[t[1]].name \in live
    BY <1>1, <1>2
  <2>2. trace[t[1]].ns # trace[t[1]].name
    <3>1. <<t[1], "ns">> # <<t[1], "name">>
      OBVIOUS
    <3>2. Owned(<<t[1], "ns">>) # Owned(<<t[1], "name">>)
      BY <3>1, <1>1, <1>3
    <3> QED
      BY <3>2, <1>1
  <2> QED
    BY <2>1, <2>2 DEF BadFree
<1>5. /\ trace' = <<>> /\ dest' = dest /\ alloc' = alloc
      /\ live' = live \ {Owned(t) : t \in TracePtrs}
      /\ fault' = fault /\ fault \in BOOLEAN
  <2>1. live' = live \ {Owned(t) : t \in TracePtrs}
    BY <1>1 DEF Clear
  <2>2. ~\E t \in TracePtrs :
           \/ BadFree(trace[t[1]], live)
           \/ \E u \in TracePtrs : t # u /\ trace[t[1]][t[2]] = trace[u[1]][u[2]]
    BY <1>1, <1>3, <1>4
  <2>3. fault \in BOOLEAN
    BY DEF IInv, TypeOK
  <2> QED
    BY <2>1, <2>2, <2>3, Zenon DEF Clear
<1>6. TypeOK' /\ Fresh'
  <2>1. <<>> \in Seq(WrappingKeys)
    BY EmptySeq
  <2>2. fault' \in BOOLEAN
    BY <1>5, Zenon
  <2> QED
    BY <1>5, <2>1, <2>2 DEF IInv, TypeOK, Fresh
<1>7. /\ Owners' = {<<0, "ns">>, <<0, "name">>}
      /\ \A o \in Owners' : o[1] = 0 /\ o[2] \in {"ns", "name"} /\ Owned(o)' = dest[o[2]]
  BY <1>5 DEF Owners, Owned
<1>8. {Owned(o)' : o \in Owners'} \ {Null} = live'
  <2>1. \A f \in {"ns", "name"} : dest[f] # Null => dest[f] \in live'
    <3> SUFFICES ASSUME NEW f \in {"ns", "name"}, dest[f] # Null PROVE dest[f] \in live'
      OBVIOUS
    <3>1. dest[f] \in live
      BY DestOwned
    <3>2. \A t \in TracePtrs : Owned(t) # dest[f]
      BY <1>1, <1>2, DestOwned DEF IInv, TypeOK, Null
    <3> QED
      BY <3>1, <3>2, <1>5
  <2>2. \A p \in live' : p # Null /\ \E f \in {"ns", "name"} : dest[f] = p
    <3> SUFFICES ASSUME NEW p \in live'
                 PROVE  p # Null /\ \E f \in {"ns", "name"} : dest[f] = p
      OBVIOUS
    <3>1. PICK o \in Owners : Owned(o) = p
      BY <1>5 DEF IInv, StringsOwnedOnce
    <3>2. o \notin TracePtrs
      BY <3>1, <1>5
    <3>3. o[1] = 0 /\ o[2] \in {"ns", "name"}
      BY <3>2, <1>1 DEF Owners
    <3>4. p # Null
      BY <1>5 DEF IInv, TypeOK, Null
    <3> QED
      BY <3>1, <3>3, <3>4 DEF Owned
  <2> QED
    BY <1>7, <2>1, <2>2
<1>9. \A o1, o2 \in Owners' : Owned(o1)' = Owned(o2)' /\ Owned(o1)' # Null => o1 = o2
  BY <1>7, DestOwned
<1>10. \A j \in DOMAIN trace' : WrappingKeyInitCheck(trace'[j])
  BY <1>5
<1> QED
  BY <1>5, <1>6, <1>8, <1>9, <1>10 DEF IInv, StringsOwnedOnce

LEMMA NextIInv == IInv /\ [Next]_vars => IInv'
<1> SUFFICES ASSUME IInv, [Next]_vars PROVE IInv'
  OBVIOUS
<1>1. CASE AddRecord
  BY <1>1, AddRecordIInv
<1>2. CASE \E i \in DOMAIN trace : CloneRecord(i)
  BY <1>2, CloneRecordIInv
<1>3. CASE RecordCleanUp
  BY <1>3, RecordCleanUpIInv
<1>4. CASE Clear
  BY <1>4, ClearIInv
<1>5. CASE UNCHANGED vars
  BY <1>5 DEF vars, IInv, TypeOK, Fresh, StringsOwnedOnce, Owners, Owned
<1> QED
  BY <1>1, <1>2, <1>3, <1>4, <1>5 DEF Next

(***************************************************************************)
(* Whatever allocation or push_back fails, every live wrapping-key string  *)
(* is owned by exactly one trace record or the cloned record, and every    *)
(* string a record holds is live: add_record, record_init_clone,          *)
(* record_clean_up and clear never leak, share or dangle a string.        *)
(***************************************************************************)
THEOREM StringsOwnedOnceHolds == Spec => []StringsOwnedOnce
<1>1. Init => IInv
  BY InitIInv
<1>2. IInv /\ [Next]_vars => IInv'
  BY NextIInv
<1>3. IInv => StringsOwnedOnce
  BY DEF IInv
<1> QED
  BY <1>1, <1>2, <1>3, PTL DEF Spec

(***************************************************************************)
(* No keyring trace function ever destroys a string twice: the second     *)
(* clean-up on record_init_clone's failure path only destroys NULL.       *)
(***************************************************************************)
THEOREM NoDoubleFreeHolds == Spec => []NoDoubleFree
<1>1. Init => IInv
  BY InitIInv
<1>2. IInv /\ [Next]_vars => IInv'
  BY NextIInv
<1>3. IInv => NoDoubleFree
  BY DEF IInv, NoDoubleFree
<1> QED
  BY <1>1, <1>2, <1>3, PTL DEF Spec

=============================================================================
