------------------------------- MODULE Disasm -------------------------------
(***************************************************************************)
(* Disasm::Init of memtrace_ext.cpp: the capstone engine a Ud needs for    *)
(* the traced machine, chosen from (machineType, endianness, sizeof(W)).   *)
(* The arch and mode it passes to cs_open are left out; what the callers   *)
(* see is its return value.  Machine types are the names of MachineType's  *)
(* enumerators, endiannesses those of Endianness.                          *)
(***************************************************************************)
EXTENDS Integers

MachineTypes == {"EM_386", "EM_X86_64", "EM_PPC", "EM_PPC64", "EM_ARM",
                 "EM_AARCH64", "EM_S390", "EM_MIPS", "EM_NANOMIPS"}
Endiannesses == {"Little", "Big"}
WordSizes == {4, 8}

EINVAL == 22

(* The switch's cases: for each machine type with a case, the            *)
(* (endianness, wordSize) pairs that pass its check.  EM_PPC and         *)
(* EM_NANOMIPS have none and fall to the default.                        *)
Accepted ==
  [t \in {"EM_386", "EM_X86_64", "EM_PPC64", "EM_ARM", "EM_AARCH64",
          "EM_S390", "EM_MIPS"} |->
     CASE t = "EM_386"     -> {<<"Little", 4>>}
       [] t = "EM_X86_64"  -> {<<"Little", 8>>}
       [] t = "EM_PPC64"   -> Endiannesses \X {8}
       [] t = "EM_ARM"     -> Endiannesses \X {4}
       [] t = "EM_AARCH64" -> Endiannesses \X {8}
       [] t = "EM_S390"    -> {"Big"} \X WordSizes
       [] t = "EM_MIPS"    -> Endiannesses \X WordSizes]

(* Init's possible return values: -1 from the default case, -EINVAL from  *)
(* a failed check, and otherwise cs_open's outcome, 0 or -1               *)
DisasmInit(type, endianness, wordSize) ==
  IF type \notin DOMAIN Accepted THEN {-1}
  ELSE IF <<endianness, wordSize>> \notin Accepted[type] THEN {-EINVAL}
  ELSE {0, -1}
=============================================================================
