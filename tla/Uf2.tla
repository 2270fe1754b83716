-------------------------------- MODULE Uf2 --------------------------------
(***************************************************************************)
(* The checks that firmware_update_http_handler makes on an uploaded UF2    *)
(* file, block by block as it arrives (main/firmware_update.c), and the     *)
(* families main/rp_mcu.c knows.                                            *)
(*                                                                         *)
(* A block is [magic, family, payload, num_blocks, block_no, extensions]:   *)
(* magic says that the three magic numbers and the family flag are there,   *)
(* extensions are the records behind the payload, [type, size, version].    *)
(***************************************************************************)
EXTENDS Naturals, Sequences, FiniteSets
LOCAL INSTANCE FiniteSetsExt

NoTag == "none"
NoFamily == "unknown"

\* The blocks of an upload, which may hold anything.
BlockRecords ==
    [magic : BOOLEAN, family : STRING, payload : Nat, num_blocks : Nat, block_no : Nat,
     extensions : Seq([type : STRING, size : Nat, version : STRING])]

rp_mcu_family_from_uf2(id) ==
    CASE id = "RP2040" -> "rp2040"
      [] id \in {"RP2350_ARM_S", "RP2350_RISCV"} -> "rp2350"
      [] OTHER -> NoFamily

rp_mcu_uf2_family_is_bootable(id) == rp_mcu_family_from_uf2(id) # NoFamily

rp_mcu_uf2_family_is_auxiliary(id) == id \in {"ABSOLUTE", "DATA", "RP2350_ARM_NS"}

rp_mcu_uf2_family_is_supported(id) ==
    rp_mcu_uf2_family_is_bootable(id) \/ rp_mcu_uf2_family_is_auxiliary(id)

uf2_validate_block(b, expected_total) ==
    /\ b.magic
    /\ rp_mcu_uf2_family_is_supported(b.family)
    /\ b.payload = 256
    /\ 0 < b.num_blocks /\ b.num_blocks <= expected_total
    /\ b.block_no < b.num_blocks

\* Bytes of a block behind its payload, up to the last magic number.
Room(b) == 508 - (32 + b.payload)

\* Where the i-th extension starts: each is padded to four bytes.
Offset(exts, i) ==
    MapThenSumSet(LAMBDA j : exts[j].size + ((4 - (exts[j].size % 4)) % 4), 1 .. i - 1)

\* The walk over the extensions gets to the i-th one and can read it.
Reached(b, i) ==
    \A j \in 1..i : /\ b.extensions[j].type # "end" /\ b.extensions[j].size >= 4
                    /\ Offset(b.extensions, j) + b.extensions[j].size <= Room(b)

\* The version in the first OpenKNX tag.
uf2_extract_openknx_tag(b) ==
    LET found == {i \in 1..Len(b.extensions) :
                     /\ Reached(b, i)
                     /\ b.extensions[i].type = "openknx" /\ b.extensions[i].size >= 8}
    IN  IF found = {} THEN NoTag ELSE b.extensions[Min(found)].version

-----------------------------------------------------------------------------
(* The upload loop: what s_staged_firmware has become after some blocks.    *)

Fresh == [refused |-> FALSE, family_id |-> NoFamily, tag |-> NoTag]

SameTarget(s, b) ==
    rp_mcu_uf2_family_is_bootable(b.family) => s.family_id \in {NoFamily, b.family}

SameTag(s, b) ==
    uf2_extract_openknx_tag(b) # NoTag => s.tag \in {NoTag, uf2_extract_openknx_tag(b)}

Block(s, b, expected_total) ==
    IF s.refused \/ ~uf2_validate_block(b, expected_total) \/ ~SameTarget(s, b) \/ ~SameTag(s, b)
    THEN [s EXCEPT !.refused = TRUE]
    ELSE [s EXCEPT !.family_id = IF rp_mcu_uf2_family_is_bootable(b.family) THEN b.family ELSE @,
                   !.tag = IF uf2_extract_openknx_tag(b) # NoTag
                           THEN uf2_extract_openknx_tag(b) ELSE @]

Received(file) ==
    LET after[n \in 0..Len(file)] ==
            IF n = 0 THEN Fresh ELSE Block(after[n - 1], file[n], Len(file))
    IN  after[Len(file)]

Accepted(file) ==
    /\ Len(file) > 0
    /\ ~Received(file).refused /\ Received(file).family_id # NoFamily

Target(file) == rp_mcu_family_from_uf2(Received(file).family_id)

-----------------------------------------------------------------------------
\* What may be written to an RP MCU of a family, whatever order the blocks come in: code
\* for one kind of core of that family and for no other, of one version, and with as many
\* blocks as each of them says.  That every number came is not asked for: the code counts
\* blocks, and one that came twice stands for one that is missing.
Flashable(file, family) ==
    LET blocks == {file[i] : i \in DOMAIN file}
        cores == {b.family : b \in blocks} \ {"ABSOLUTE", "DATA", "RP2350_ARM_NS"}
        versions == {uf2_extract_openknx_tag(b) : b \in blocks} \ {NoTag}
    IN  /\ \E id \in cores : cores = {id} /\ rp_mcu_family_from_uf2(id) = family
        /\ family # NoFamily
        /\ \A v, w \in versions : v = w
        /\ \A b \in blocks : b.magic /\ b.payload = 256 /\ b.block_no < b.num_blocks
        /\ \A b \in blocks : b.num_blocks <= Len(file)
=============================================================================
