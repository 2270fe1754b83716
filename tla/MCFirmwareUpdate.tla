-------------------------- MODULE MCFirmwareUpdate --------------------------
(***************************************************************************)
(* FirmwareUpdate with two task slots, so that a second operation could run *)
(* if the gate let it.                                                      *)
(***************************************************************************)
EXTENDS FirmwareUpdate, TLC

Symmetry == Permutations(Tasks)

Plain(family, no) ==
    [magic |-> TRUE, family |-> family, payload |-> 256, num_blocks |-> 2, block_no |-> no,
     extensions |-> <<>>]
Tag(version) == [type |-> "openknx", size |-> 8, version |-> version]
Stop == [type |-> "end", size |-> 8, version |-> NoTag]
Other(size) == [type |-> "other", size |-> size, version |-> NoTag]

\* Blocks that could be in an upload of two: for each check of one block one that fails
\* it, and what the checks over all blocks tell apart.
Samples ==
    {Plain(f, no) : f \in {"RP2040", "RP2350_RISCV", "ABSOLUTE"}, no \in 0..1}
        \cup {[Plain("RP2040", 1) EXCEPT !.extensions = e] :
                 e \in {<<Tag("1.0.0")>>, <<Stop, Tag("1.1.0")>>, <<Other(5), Tag("2.0.0")>>,
                        <<Other(3), Tag("3.0.0")>>, <<Other(213), Tag("4.0.0")>>, <<Other(212), Tag("5.0.0")>>}}
        \cup {[Plain("RP2040", 0) EXCEPT !.magic = FALSE], [Plain("RP2040", 0) EXCEPT !.payload = 476],
              [Plain("RP2040", 0) EXCEPT !.num_blocks = 3], Plain("RP2040", 2), Plain("SAMD51", 0)}

MCFiles == {<<a, b>> : a, b \in {Plain("RP2040", 0), Plain("RP2350_RISCV", 1),
                                 [Plain("RP2040", 0) EXCEPT !.num_blocks = 3]}}

\* The same without the one for a second family, for the run that has the most states.
MCFilesOneFamily == MCFiles \ {<<Plain("RP2350_RISCV", 1), Plain("RP2350_RISCV", 1)>>}

\* Whatever is sent, what the loop accepts is exactly what may be written, and its target
\* the family it is for; FirmwareUpdate_proof has this for every file.
ASSUME AcceptedIsFlashable ==
    \A file \in {<<a>> : a \in Samples} \cup {<<a, b>> : a, b \in Samples} :
        /\ Accepted(file) => Flashable(file, Target(file))
        /\ \A family \in {"rp2040", "rp2350", NoFamily} :
              Flashable(file, family) => Accepted(file) /\ family = Target(file)
=============================================================================
