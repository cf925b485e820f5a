--------------------------- MODULE MCCommandLine ---------------------------
(* All lists of arguments up to MaxArgs.  The input may be an ELF file of  *)
(* each supported kind and of kinds that come near: a 32-bit one for       *)
(* x86-64, big-endian ones, one for another machine, one that lacks        *)
(* program headers or ends early.                                          *)
EXTENDS CommandLine

ElfFile(class, machine, little, headers, whole) ==
  [kind |-> "elf", class |-> class, machine |-> machine, little |-> little,
   headers |-> headers, whole |-> whole]

MCUnknown    == {"-x"}
MCNames      == {"", "a", "b"}
MCUnwritable == {"b"}
MCInputs ==
  { Missing, Text,
    ElfFile(64, "X86_64", TRUE, TRUE, TRUE), ElfFile(32, "386", TRUE, TRUE, TRUE),
    ElfFile(64, "AARCH64", TRUE, TRUE, TRUE), ElfFile(32, "ARM", TRUE, TRUE, TRUE),
    ElfFile(32, "X86_64", TRUE, TRUE, TRUE), ElfFile(64, "AARCH64", FALSE, TRUE, TRUE),
    ElfFile(32, "ARM", FALSE, TRUE, TRUE), ElfFile(64, "MIPS", TRUE, TRUE, TRUE),
    ElfFile(64, "X86_64", TRUE, FALSE, FALSE), ElfFile(64, "X86_64", TRUE, TRUE, FALSE) }
=============================================================================
