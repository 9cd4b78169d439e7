--------------------------- MODULE SmcEfiBackend ---------------------------
(***************************************************************************)
(* The hibernation key on its way to the boot loader (kern_efiend.cpp and   *)
(* the HBKP key): found out once per boot whether the firmware wants it,    *)
(* encrypted under a private key that is left in the RTC memory, and        *)
(* written to NVRAM.  Each of the steps may fail, and the power may go off  *)
(* between any two of them; RTC memory and the NVRAM record outlive it.     *)
(***************************************************************************)
EXTENDS Naturals

CONSTANTS
  MaxKeys,    \* bound: private keys generated
  MaxBoots    \* bound: boots

(* Assumed of the constants wherever the module is used.                    *)
EfiAssumption == MaxKeys \in Nat /\ MaxBoots \in Nat

(* vsmchbkp                                                                 *)
DumpOff == 0
DumpNormal == 1
DumpUnencrypted == 2

VARIABLES
  boots,    \* boots so far
  hbkp,     \* the HBKP value: dumpToNVRAM and dumpEncrypted
  rtc,      \* the private key in RTC memory (0: none)
  staged,   \* what was written to the variable but not synchronised
  nvram,    \* what NVRAM holds: whether it is encrypted and under which key
  keys,     \* private keys generated so far
  submit,   \* submitEncryptionKey's locals
  lasting   \* the last submission since the last boot ended with true

vars == <<boots, hbkp, rtc, staged, nvram, keys, submit, lasting>>

Record == [encrypted : BOOLEAN, key : 0 .. MaxKeys]
Plain == [encrypted |-> FALSE, key |-> 0]
Off == [pc |-> "off", key |-> 0, value |-> FALSE]
Idle == [Off EXCEPT !.pc = "idle"]

Init ==
  /\ boots = 0
  /\ hbkp = [dump |-> FALSE, encrypted |-> FALSE]
  /\ rtc = 0
  /\ staged = Plain /\ nvram = Plain
  /\ keys = 0
  /\ submit = Off
  /\ lasting = FALSE

-----------------------------------------------------------------------------
(* detectFirmwareBackend: NVRAM if its driver is loaded, EFI otherwise,     *)
(* where a variable that is too big is read again with more room.           *)
DetectFirmwareBackend(storage, efi, answer, resized) ==
  \/ storage /\ answer = "valid"
  \/ ~storage /\ efi /\ (answer = "valid" \/ (answer = "big" /\ resized))

(* eraseTempEncryptionKey: whether there is memory for a key, and the key   *)
(* that is left in it; the read and the write may fail.                     *)
EraseTempEncryptionKey(memory) ==
  [valid |-> memory, left |-> IF memory THEN {0, rtc} ELSE {rtc}]

(* withDump.                                                                *)
WithDump(dump, arg, erased) ==
  [dump |-> dump /\ arg >= DumpNormal, encrypted |-> arg = DumpNormal /\ erased]

Boot ==
  /\ submit.pc = "off" /\ boots < MaxBoots
  /\ boots' = boots + 1
  /\ \E storage, efi, resized, memory \in BOOLEAN, answer \in {"valid", "big", "bad"},
        arg \in {DumpOff, DumpNormal, DumpUnencrypted} :
       LET erase == EraseTempEncryptionKey(memory)
       IN /\ hbkp' = WithDump(DetectFirmwareBackend(storage, efi, answer, resized),
                              arg, erase.valid)
          /\ rtc' \in IF arg = DumpNormal THEN erase.left ELSE {rtc}
  /\ submit' = Idle
  /\ lasting' = FALSE
  /\ UNCHANGED <<staged, nvram, keys>>

(* Hibernation, and every other way to lose power.                          *)
PowerOff ==
  /\ submit.pc # "off"
  /\ submit' = Off
  /\ staged' = nvram
  /\ UNCHANGED <<boots, hbkp, rtc, nvram, keys, lasting>>

-----------------------------------------------------------------------------
(* submitEncryptionKey.                                                     *)
UpdateHBKP ==
  /\ submit.pc = "idle" /\ hbkp.dump
  /\ submit' = [submit EXCEPT !.pc = IF hbkp.encrypted THEN "private" ELSE "out"]
  /\ lasting' = FALSE
  /\ UNCHANGED <<boots, hbkp, rtc, staged, nvram, keys>>

(* genUniqueKey and encrypt.                                                *)
Encrypt ==
  /\ submit.pc = "private" /\ keys < MaxKeys
  /\ \/ /\ keys' = keys + 1
        /\ submit' = [pc |-> "rtc", key |-> keys + 1, value |-> TRUE]
     \/ /\ submit' = [submit EXCEPT !.pc = "out"]
        /\ UNCHANGED keys
  /\ UNCHANGED <<boots, hbkp, rtc, staged, nvram, lasting>>

(* A value whose key did not reach the RTC is forgotten.                    *)
KeptMutant(written) == TRUE

Kept(written) == written

WriteRtc ==
  /\ submit.pc = "rtc"
  /\ \E written \in BOOLEAN :
       /\ rtc' = IF written THEN submit.key ELSE rtc
       /\ submit' = [submit EXCEPT !.pc = "out", !.value = Kept(written)]
  /\ UNCHANGED <<boots, hbkp, staged, nvram, keys, lasting>>

(* Without an encrypted value the key itself is written.                    *)
WriteStorage ==
  /\ submit.pc = "out"
  /\ \/ /\ staged' = IF submit.value THEN [encrypted |-> TRUE, key |-> submit.key]
                     ELSE Plain
        /\ submit' = [submit EXCEPT !.pc = "sync"]
     \/ /\ submit' = Idle
        /\ UNCHANGED staged
  /\ UNCHANGED <<boots, hbkp, rtc, nvram, keys, lasting>>

Sync ==
  /\ submit.pc = "sync"
  /\ \/ nvram' = staged /\ lasting' = TRUE
     \/ UNCHANGED <<nvram, lasting>>
  /\ submit' = Idle
  /\ UNCHANGED <<boots, hbkp, rtc, staged, keys>>

Next ==
  \/ Boot \/ PowerOff \/ UpdateHBKP \/ Encrypt \/ WriteRtc \/ WriteStorage \/ Sync

Spec == Init /\ [][Next]_vars

-----------------------------------------------------------------------------
(* Every variable has its type.                                             *)
TypeOK ==
  /\ boots \in 0 .. MaxBoots /\ keys \in 0 .. MaxKeys /\ rtc \in 0 .. MaxKeys
  /\ hbkp \in [dump : BOOLEAN, encrypted : BOOLEAN]
  /\ staged \in Record /\ nvram \in Record
  /\ submit \in [pc : {"off", "idle", "private", "rtc", "out", "sync"},
                 key : 0 .. MaxKeys, value : BOOLEAN]
  /\ lasting \in BOOLEAN

(* When the last submission of a boot succeeded, the boot loader can read   *)
(* the record: it is plain, or its private key is the one in the RTC; also  *)
(* after the power has gone.  The two memories are written by two steps and *)
(* are left apart by a failure or a power loss between them.                *)
SubmittedReadable ==
  lasting /\ nvram.encrypted => rtc = nvram.key
=============================================================================
