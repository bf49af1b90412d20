----------------------------- MODULE KeyringTrace -----------------------------
(***************************************************************************)
(* The keyring trace (source/keyring_trace.c): a list of records, each     *)
(* owning the two heap strings of its wrapping key (name space and name), *)
(* and a record the caller clones a trace record into. Every string        *)
(* allocation may fail (out of memory), and so may the list's push_back.   *)
(*                                                                         *)
(* A string is its allocation number; Null (0) is the NULL pointer. The    *)
(* heap is the set of live allocations. aws_string_destroy(NULL) does      *)
(* nothing; destroying an allocation that is not live is a double free.    *)
(* Flags and string contents are left out: no property depends on them.   *)
(***************************************************************************)
EXTENDS Naturals, Sequences

CONSTANTS
  MaxAllocs,   \* bound on the string allocations of a behaviour
  MaxRecords   \* bound on the length of the trace

ASSUME TraceAssumption == MaxAllocs \in Nat /\ MaxRecords \in Nat

Null == 0

Ptrs == 0..MaxAllocs

WrappingKeys == [ns : Ptrs, name : Ptrs]

NullKey == [ns |-> Null, name |-> Null]

VARIABLES
  trace,   \* the aws_array_list of records
  dest,    \* the caller's record that record_init_clone fills
  live,    \* allocations not yet freed
  alloc,   \* number of allocations made so far
  fault    \* some aws_string_destroy freed memory that was not live

vars == <<trace, dest, live, alloc, fault>>

-----------------------------------------------------------------------------
(* aws_string_destroy on each pointer of wk: the live set afterwards, and *)
(* whether one of them was freed memory.                                   *)
Destroy(wk, l) == l \ {wk.ns, wk.name}

BadFree(wk, l) ==
  \/ \E p \in {wk.ns, wk.name} : p # Null /\ p \notin l
  \/ wk.ns = wk.name /\ wk.ns # Null

(* Fault variant: the pointers are not reset to NULL after the destroy. *)
WrappingKeyCleanUpNoReset(wk) == wk

(* wrapping_key_clean_up: destroy both strings, then set both to NULL. *)
WrappingKeyCleanUp(wk) == NullKey

(* wrapping_key_init_check: both strings allocated. *)
WrappingKeyInitCheck(wk) == wk.ns # Null /\ wk.name # Null

(***************************************************************************)
(* The two string copies of wrapping_key_init_from_strings / _c_strs,     *)
(* aws_cryptosdk_string_dup or aws_string_new_from_c_str: each is a fresh *)
(* allocation, or NULL when it fails.                                     *)
(***************************************************************************)
Dups == { [ns |-> n, name |-> m] :
            n \in {Null, alloc + 1}, m \in {Null, alloc + 2} }

(* The live strings once the copies of wk are made. *)
Held(wk) == live \cup ({wk.ns, wk.name} \ {Null})

AllocCount(wk) == IF wk.name # Null THEN alloc + 2
                  ELSE IF wk.ns # Null THEN alloc + 1 ELSE alloc

Init ==
  /\ trace = <<>> /\ dest = NullKey
  /\ live = {} /\ alloc = 0 /\ fault = FALSE

(* Fault variant: a failed push_back does not clean the strings up. *)
AddRecordNoCleanUp ==
  /\ Len(trace) < MaxRecords /\ alloc + 2 <= MaxAllocs
  /\ \E wk \in Dups, pushed \in BOOLEAN :
       /\ alloc' = AllocCount(wk)
       /\ \/ /\ ~WrappingKeyInitCheck(wk)
             /\ live' = Destroy(wk, Held(wk))
             /\ fault' = (fault \/ BadFree(wk, Held(wk)))
             /\ UNCHANGED trace
          \/ /\ WrappingKeyInitCheck(wk) /\ pushed
             /\ trace' = Append(trace, wk) /\ live' = Held(wk)
             /\ UNCHANGED fault
          \/ /\ WrappingKeyInitCheck(wk) /\ ~pushed
             /\ live' = Held(wk)
             /\ UNCHANGED <<trace, fault>>
  /\ UNCHANGED dest

(***************************************************************************)
(* aws_cryptosdk_keyring_trace_add_record (and _c_str): copy both strings; *)
(* if one copy failed, init_check cleans both up and the call fails; then *)
(* push the record, and if push_back fails clean its strings up.          *)
(***************************************************************************)
AddRecord ==
  /\ Len(trace) < MaxRecords /\ alloc + 2 <= MaxAllocs
  /\ \E wk \in Dups, pushed \in BOOLEAN :
       /\ alloc' = AllocCount(wk)
       /\ \/ /\ ~WrappingKeyInitCheck(wk)
             /\ live' = Destroy(wk, Held(wk))
             /\ fault' = (fault \/ BadFree(wk, Held(wk)))
             /\ UNCHANGED trace
          \/ /\ WrappingKeyInitCheck(wk) /\ pushed
             /\ trace' = Append(trace, wk) /\ live' = Held(wk)
             /\ UNCHANGED fault
          \/ /\ WrappingKeyInitCheck(wk) /\ ~pushed
             /\ live' = Destroy(wk, Held(wk))
             /\ fault' = (fault \/ BadFree(wk, Held(wk)))
             /\ UNCHANGED trace
  /\ UNCHANGED dest

(***************************************************************************)
(* aws_cryptosdk_keyring_trace_record_init_clone of record i into dest:    *)
(* copy both strings; when one copy failed, init_check cleans dest up and  *)
(* the clone cleans it up a second time before failing.                   *)
(***************************************************************************)
CloneRecord(i) ==
  /\ dest = NullKey /\ alloc + 2 <= MaxAllocs
  /\ \E wk \in Dups :
       LET wk1   == WrappingKeyCleanUp(wk)
           held1 == Destroy(wk, Held(wk))
       IN /\ alloc' = AllocCount(wk)
          /\ \/ /\ WrappingKeyInitCheck(wk)
                /\ dest' = wk /\ live' = Held(wk)
                /\ UNCHANGED fault
             \/ /\ ~WrappingKeyInitCheck(wk)
                /\ dest' = WrappingKeyCleanUp(wk1)
                /\ live' = Destroy(wk1, held1)
                /\ fault' = (fault \/ BadFree(wk, Held(wk)) \/ BadFree(wk1, held1))
  /\ UNCHANGED trace

(* aws_cryptosdk_keyring_trace_record_clean_up of dest. *)
RecordCleanUp ==
  /\ dest' = WrappingKeyCleanUp(dest)
  /\ live' = Destroy(dest, live)
  /\ fault' = (fault \/ BadFree(dest, live))
  /\ UNCHANGED <<trace, alloc>>

(***************************************************************************)
(* aws_cryptosdk_keyring_trace_clear (and _clean_up, which also frees the *)
(* list): clean every record up in order, then empty the list. A string   *)
(* reachable from two records is destroyed twice.                         *)
(***************************************************************************)
TracePtrs == { <<i, f>> : i \in DOMAIN trace, f \in {"ns", "name"} }

Clear ==
  /\ trace' = <<>>
  /\ live' = live \ {trace[s[1]][s[2]] : s \in TracePtrs}
  /\ fault' = (fault \/ \E s \in TracePtrs :
                 \/ BadFree(trace[s[1]], live)
                 \/ \E t \in TracePtrs : s # t /\ trace[s[1]][s[2]] = trace[t[1]][t[2]])
  /\ UNCHANGED <<dest, alloc>>

Next ==
  \/ AddRecord
  \/ \E i \in DOMAIN trace : CloneRecord(i)
  \/ RecordCleanUp
  \/ Clear

\* A single thread calls the trace functions.
Spec == Init /\ [][Next]_vars

-----------------------------------------------------------------------------
TypeOK ==
  /\ trace \in Seq(WrappingKeys) /\ dest \in WrappingKeys
  /\ live \subseteq 1..MaxAllocs /\ alloc \in 0..MaxAllocs /\ fault \in BOOLEAN

(***************************************************************************)
(* Every live string has exactly one owner, a record of the trace or the   *)
(* cloned record, and every string a record holds is live: no path of     *)
(* add_record, record_init_clone, record_clean_up or clear leaks a string, *)
(* shares one between two records, or leaves a record pointing to freed   *)
(* memory, whatever allocation fails.                                      *)
(***************************************************************************)
Owners == { <<i, f>> : i \in DOMAIN trace, f \in {"ns", "name"} }
            \cup { <<0, f>> : f \in {"ns", "name"} }

Owned(o) == IF o[1] = 0 THEN dest[o[2]] ELSE trace[o[1]][o[2]]

StringsOwnedOnce ==
  /\ {Owned(o) : o \in Owners} \ {Null} = live
  /\ \A o1, o2 \in Owners : Owned(o1) = Owned(o2) /\ Owned(o1) # Null => o1 = o2
  /\ \A i \in DOMAIN trace : WrappingKeyInitCheck(trace[i])

(***************************************************************************)
(* No string is freed twice: the double clean-up on record_init_clone's   *)
(* failure path, and record_clean_up of an already cleaned record, only   *)
(* ever destroy NULL.                                                      *)
(***************************************************************************)
NoDoubleFree == ~fault

=============================================================================
