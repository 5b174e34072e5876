------------------------------ MODULE RpaLookups ------------------------------
(***************************************************************************)
(* The table of resolvable private addresses (RPAs) the coordinator has    *)
(* asked the security manager to resolve (pending_rpa_lookups in           *)
(* ble_coordinator.c), and the security manager's own queue of lookups.    *)
(* The two are kept by different programs: the table entry remembers       *)
(* whether the advertisement had the HID service, the queue decides which  *)
(* answers will arrive.                                                    *)
(***************************************************************************)
EXTENDS Naturals, FiniteSets, Devices

CONSTANTS
  NoLookup,                  \* a table entry with in_use = false
  MAX_PENDING_RPA_LOOKUPS,   \* size of the table
  MAX_NR_SM_LOOKUP_ENTRIES   \* size of the security manager's queue (btstack_config.h)

ASSUME RpaLookupsAssumption ==
  /\ MAX_PENDING_RPA_LOOKUPS \in Nat \ {0}
  /\ MAX_NR_SM_LOOKUP_ENTRIES \in Nat \ {0}

VARIABLES
  pending_rpa_lookups,       \* the table
  pending_rpa_lookup_index,  \* the entry the next lookup is written to
  sm_lookups                 \* external: addresses queued in the security manager

rpaVars == <<pending_rpa_lookups, pending_rpa_lookup_index, sm_lookups>>

Entries == 0..(MAX_PENDING_RPA_LOOKUPS - 1)
Lookup == [addr : RpaAddr, has_hid_service : BOOLEAN]

RpaTypeOK ==
  /\ pending_rpa_lookups \in [Entries -> Lookup \cup {NoLookup}]
  /\ pending_rpa_lookup_index \in Entries
  /\ sm_lookups \subseteq RpaAddr

RpaInit ==
  /\ pending_rpa_lookups = [e \in Entries |-> NoLookup]
  /\ pending_rpa_lookup_index = 0
  /\ sm_lookups = {}

PendingAt(e, r) == /\ pending_rpa_lookups[e] # NoLookup
                   /\ pending_rpa_lookups[e].addr = r

\* is_rpa_lookup_pending(addr)
LookupPending(r) == \E e \in Entries : PendingAt(e, r)

\* get_and_clear_pending_rpa_has_hid_service(addr), the part it returns: the
\* first entry for the address, FALSE if there is none.
PendingHasHid(r) ==
  \E e \in Entries : /\ PendingAt(e, r)
                     /\ \A d \in Entries : d < e => ~PendingAt(d, r)
                     /\ pending_rpa_lookups[e].has_hid_service

\* Mutant: the answer does not free the entry.
LookupLeftPending(r) == UNCHANGED pending_rpa_lookups

\* clear_pending_rpa_lookup(addr).  No address is ever in the table twice, so
\* the part of get_and_clear_... that frees the entry has the same effect.
ClearPending(r) ==
  pending_rpa_lookups' =
    [e \in Entries |-> IF PendingAt(e, r) THEN NoLookup ELSE pending_rpa_lookups[e]]

\* clear_all_pending_rpa_lookups(): the queue keeps its lookups and the index stays.
ClearAllPending ==
  /\ pending_rpa_lookups' = [e \in Entries |-> NoLookup]
  /\ UNCHANGED <<pending_rpa_lookup_index, sm_lookups>>

\* track_pending_rpa_lookup(addr, has_hid), for an address not in the table (the
\* only call), overwriting the entry at the index whether it is in use or not.
TrackLookup(r, hid) ==
  /\ pending_rpa_lookups' =
       [pending_rpa_lookups EXCEPT
          ![pending_rpa_lookup_index] = [addr |-> r, has_hid_service |-> hid]]
  /\ pending_rpa_lookup_index' = (pending_rpa_lookup_index + 1) % MAX_PENDING_RPA_LOOKUPS

\* External: sm_address_resolution_lookup refuses an address it is resolving
\* already and any address when its queue is full; the caller drops the result.
SmAddressResolutionLookup(r) ==
  sm_lookups' =
    IF Cardinality(sm_lookups) < MAX_NR_SM_LOOKUP_ENTRIES THEN sm_lookups \cup {r}
                                                          ELSE sm_lookups

===============================================================================
