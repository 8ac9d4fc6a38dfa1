------------------------------ MODULE Mapping -------------------------------
(***************************************************************************)
(* lbz-mapping.c: the forward map from logical to physical blocks.  Each   *)
(* operation holds the leaf's rwlock for all it does, so it is one step.   *)
(***************************************************************************)
EXTENDS ZoneMetadata

VARIABLE pbids      \* the leaf entries: physical block of each logical one

MappingTypeOK == pbids \in [Blks -> Pbid \cup {INVALID}]

\* lbz_mapping_init: every entry is LBZ_INVALID_PBID, also when the device
\* already holds data.
MappingInit == pbids = [b \in Blks |-> INVALID]

Mapped(b) == pbids[b] # INVALID

\* Mutant: the lookup takes no reference on the zone.
lbz_mapping_lookup_NoRef(b) ==
    Mapped(b) /\ UNCHANGED <<zone, pbids, zrms, listVars, zs>>

\* lbz_mapping_lookup takes a reference on the zone under the leaf's lock.
lbz_mapping_lookup(b) ==
    /\ Mapped(b)
    /\ zone' = [zone EXCEPT ![get_zone_by_pbid(pbids[b])] = lbz_get_zone(@)]
    /\ UNCHANGED <<pbids, zrms, listVars, zs>>

\* lbz_mapping_add; the caller reads pbids[b] in the same step.
lbz_mapping_add(b, p) == pbids' = [pbids EXCEPT ![b] = p]
=============================================================================
