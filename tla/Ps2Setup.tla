----------------------------- MODULE Ps2Setup ------------------------------
(***************************************************************************)
(* The set-up of the keyboard, ps2_keyboard_driver_init()                  *)
(* (src/drivers/ps2_keyboard_driver.c): a dialogue with a controller and,  *)
(* through it, with a keyboard, by reads and writes of two ports.  The     *)
(* driver writes commands without asking whether the last one was taken    *)
(* and reads answers after a delay without asking whether there is one;    *)
(* only the bytes of the keyboard are polled for, for ever.                *)
(*                                                                         *)
(* Each access to a port is a step of the driver, between which the        *)
(* controller and the keyboard proceed at any pace.  Both are external: an *)
(* i8042 as far as the driver uses it.  A byte is the set of its bits.     *)
(***************************************************************************)
EXTENDS Integers, Sequences

CONSTANTS
  Configs,      (* the configuration bytes the firmware may leave *)
  ResetConfigs, (* what a self test may reset the configuration to *)
  ScanSets,     (* the scan code sets the keyboard may start with *)
  irq_enable,   (* the argument of ps2_keyboard_driver_init() *)
  MaxTyped, MaxResends  (* bounds: scan codes, bytes the keyboard asks again for *)

ASSUME Ps2Assumption ==
  /\ Configs \cup ResetConfigs \subseteq SUBSET (0..7)
  /\ ScanSets \subseteq 1..3
  /\ irq_enable \in BOOLEAN

VARIABLES
  at,           (* the driver's next access to a port, its last at the end *)
  result,       (* "running", "SUCCESS" or "FAILURE" *)
  config_byte,  (* the driver's variable *)
  input,        (* the controller's input buffer: [full, command, byte] *)
  output,       (* its output buffer, the data port: [full, byte, kbd] *)
  ctl,          (* the controller: [config, owed, awaits] *)
  kbd,          (* the keyboard: [set, queue, awaits, discards] *)
  used,         (* bounded counters, typed and resends, and auxiliary: *)
                (* lookalike, a key was typed whose byte is one the driver expects *)
  late          (* auxiliary: the controller was once slower than the driver *)

driver == <<at, result, config_byte>>
vars == <<at, result, config_byte, input, output, ctl, kbd, used, late>>

Byte == SUBSET (0..7)

(* Bits of the configuration. *)
PORT1_INT_EN == 0
PORT2_INT_EN == 1
SYSTEM_FLAG == 2
PORT1_CLK_DISABLE == 4

PORT2_CLK_DISABLE == 5
Translate == 6   \* the driver keeps this one as it finds it

CONTLR_SELF_TEST_OK == {0, 2, 4, 6}
PORT_1_SELF_TEST_OK == {}
KBD_ACK == {1, 3, 4, 5, 6, 7}
KBD_RESEND == {1, 2, 3, 4, 5, 6, 7}
KBD_CMD_GET_SET_SCAN_CODE_SET == {4, 5, 6, 7}
KBD_CMD_GET_SCAN_CODE_SET == {}
KBD_SCAN_CODE_SET_2 == {1}
SCAN_CODE_SET2 == {0, 6}

SetByte == [n \in 1..3 |-> CASE n = 1 -> {0} [] n = 2 -> {1} [] n = 3 -> {0, 1}]

(* Keys in set 2: A, for all keys whose bytes, translated or not, are none  *)
(* that the driver compares with; F7, which translates to SCAN_CODE_SET2;   *)
(* comma, which is SCAN_CODE_SET2; and equals, which is CONTLR_SELF_TEST_OK. *)
KeyByte == {2, 3, 4}
F7 == {0, 1, 7}
Comma == {0, 6}
Equals == {0, 2, 4, 6}
Lookalikes == {F7, Comma, Equals}
Keys == {KeyByte} \cup Lookalikes

(* What the controller makes of a keyboard's byte while it translates. *)
Translated(b) ==
  CASE b = {0}     -> {0, 1, 6}
    [] b = {1}     -> SCAN_CODE_SET2
    [] b = {0, 1}  -> {0, 1, 2, 3, 4, 5}
    [] b = KeyByte -> {1, 2, 3, 4}
    [] b = F7      -> SCAN_CODE_SET2
    [] b = Comma   -> {0, 1, 4, 5}
    [] b = Equals  -> {0, 2, 3}
    [] OTHER       -> b
-----------------------------------------------------------------------------
(***************************************************************************)
(* The driver: accesses to the ports, each going on at another one.        *)
(***************************************************************************)
Labels ==
  {"disable_1", "disable_2", "flush", "flush_again", "ask_config", "config",
   "send_config", "new_config", "test", "tested", "ask_config_again",
   "config_again", "resend_config", "old_config", "test_port", "port_tested",
   "reset_port", "port_reset", "set", "to_set_2", "set_answer",
   "get", "which_set", "get_answer", "set_got", "enable_1"}

(* A command to the controller: nobody asks whether the last byte written   *)
(* has been taken.                                                          *)
Write(here, command, byte, next) ==
  /\ result = "running" /\ at = here
  /\ input' = [full |-> TRUE, command |-> command, byte |-> byte]
  /\ late' = (late \/ input.full)
  /\ at' = next
  /\ UNCHANGED <<result, config_byte, output, ctl, kbd, used>>

command_register_cmd(here, cmd, next) == Write(here, TRUE, cmd, next)
data_port_write(here, byte, next) == Write(here, FALSE, byte, next)

(* The data port is read, full or not: when it is empty it still holds the  *)
(* last byte.  The driver has only waited for what it asked for: it is late *)
(* when a byte is not taken or an answer not given.  A byte that is not the *)
(* expected one makes the set-up return FAILURE.                            *)
Read(here, good, next) ==
  /\ result = "running" /\ at = here
  /\ output' = [output EXCEPT !.full = FALSE]
  /\ late' = (late \/ input.full \/ ctl.owed # <<>>)
  /\ at' = IF good THEN next ELSE here
  /\ result' = IF good THEN result ELSE "FAILURE"
  /\ UNCHANGED <<input, ctl, kbd, used>>

data_port_read(here, good, next) == Read(here, good, next) /\ UNCHANGED config_byte

keyboard_read(here, good, next) == output.full /\ data_port_read(here, good, next)
keyboard_write(here, byte, next) == ~input.full /\ data_port_write(here, byte, next)

(* Both ports off, and what they have sent thrown away. *)
Disable ==
  \/ command_register_cmd("disable_1", "PORT_1_DISABLE", "disable_2")
  \/ command_register_cmd("disable_2", "PORT_2_DISABLE", "flush")
Flush ==
  \/ data_port_read("flush", TRUE, "flush_again")
  \/ data_port_read("flush_again", TRUE, "ask_config")

(* The configuration, as it was found but for the ports. *)
NewConfig(byte) ==
  ((byte \cup {PORT2_CLK_DISABLE, SYSTEM_FLAG})
     \ {PORT1_CLK_DISABLE, PORT1_INT_EN, PORT2_INT_EN})
    \cup (IF irq_enable THEN {PORT1_INT_EN} ELSE {})

GetConfig ==
  \/ command_register_cmd("ask_config", "READ_BYTE_0", "config")
  \/ Read("config", TRUE, "send_config") /\ config_byte' = NewConfig(output.byte)
SetConfig ==
  \/ command_register_cmd("send_config", "WRITE_BYTE_0", "new_config")
  \/ data_port_write("new_config", config_byte, "test")

SelfTest ==
  \/ command_register_cmd("test", "CONTLR_SELF_TEST", "tested")
  \/ data_port_read("tested", output.byte = CONTLR_SELF_TEST_OK, "ask_config_again")

(* The self test may have reset the configuration. *)

\* mutated: the configuration is never restored
CheckOnly(byte) == "test_port"

AfterCheck(byte) == IF byte = config_byte THEN "test_port" ELSE "resend_config"
RestoreConfig ==
  \/ command_register_cmd("ask_config_again", "READ_BYTE_0", "config_again")
  \/ data_port_read("config_again", TRUE, AfterCheck(output.byte))
  \/ command_register_cmd("resend_config", "WRITE_BYTE_0", "old_config")
  \/ data_port_write("old_config", config_byte, "test_port")

PortTest ==
  \/ command_register_cmd("test_port", "PORT_1_SELF_TEST", "port_tested")
  \/ data_port_read("port_tested", output.byte = PORT_1_SELF_TEST_OK, "reset_port")

(* Command 0xFF has no answer: what is read is the port's last byte. *)
ResetPort ==
  \/ command_register_cmd("reset_port", "PORT1_RESET", "port_reset")
  \/ data_port_read("port_reset", output.byte = {}, "set")

(* One answer is read for two bytes; RESEND starts again. *)

\* mutated: after RESEND the driver reads again, and does not send again
ReadAgain(byte) == IF byte = KBD_RESEND THEN "set_answer" ELSE "get"

AfterSet(byte) == IF byte = KBD_RESEND THEN "set" ELSE "get"

\* mutated: RESEND is a failure
SetOnce ==
  \/ keyboard_write("set", KBD_CMD_GET_SET_SCAN_CODE_SET, "to_set_2")
  \/ keyboard_write("to_set_2", KBD_SCAN_CODE_SET_2, "set_answer")
  \/ keyboard_read("set_answer", output.byte = KBD_ACK, AfterSet(output.byte))

SetScanCodes ==
  \/ keyboard_write("set", KBD_CMD_GET_SET_SCAN_CODE_SET, "to_set_2")
  \/ keyboard_write("to_set_2", KBD_SCAN_CODE_SET_2, "set_answer")
  \/ keyboard_read("set_answer", output.byte \in {KBD_ACK, KBD_RESEND}, AfterSet(output.byte))

GetScanCodes ==
  \/ keyboard_write("get", KBD_CMD_GET_SET_SCAN_CODE_SET, "which_set")
  \/ keyboard_write("which_set", KBD_CMD_GET_SCAN_CODE_SET, "get_answer")
  \/ keyboard_read("get_answer", output.byte = KBD_ACK, "set_got")

\* mutated: any set will do
AcceptAnySet == GetScanCodes \/ keyboard_read("set_got", TRUE, "enable_1")

\* mutated: acknowledgements are skipped
SkipAcks ==
  \/ GetScanCodes
  \/ keyboard_read("set_got", output.byte \in {KBD_ACK, SCAN_CODE_SET2},
                    IF output.byte = KBD_ACK THEN "set_got" ELSE "enable_1")

VerifyScanCodes ==
  \/ GetScanCodes
  \/ keyboard_read("set_got", output.byte = SCAN_CODE_SET2, "enable_1")

(* IRQ_set_handler() and IRQ_clear_mask() follow, see Devices. *)
Enable ==
  /\ result = "running" /\ at = "enable_1"
  /\ input' = [full |-> TRUE, command |-> TRUE, byte |-> "PORT_1_ENABLE"]
  /\ late' = (late \/ input.full)
  /\ result' = "SUCCESS"
  /\ UNCHANGED <<at, config_byte, output, ctl, kbd, used>>

Driver ==
  \/ Disable \/ Flush \/ GetConfig \/ SetConfig \/ SelfTest \/ RestoreConfig
  \/ PortTest \/ ResetPort \/ SetScanCodes \/ VerifyScanCodes \/ Enable
-----------------------------------------------------------------------------
(***************************************************************************)
(* The controller takes a byte from its input buffer whenever it likes.    *)
(***************************************************************************)
Commanded ==
  CASE input.byte = "PORT_1_DISABLE" -> {[ctl EXCEPT !.config = @ \cup {PORT1_CLK_DISABLE}]}
    [] input.byte = "PORT_2_DISABLE" -> {[ctl EXCEPT !.config = @ \cup {PORT2_CLK_DISABLE}]}
    [] input.byte = "PORT_1_ENABLE"  -> {[ctl EXCEPT !.config = @ \ {PORT1_CLK_DISABLE}]}
    [] input.byte = "READ_BYTE_0"    -> {[ctl EXCEPT !.owed = Append(@, ctl.config)]}
    [] input.byte = "WRITE_BYTE_0"   -> {[ctl EXCEPT !.awaits = TRUE]}
    [] input.byte = "CONTLR_SELF_TEST" ->
         {[ctl EXCEPT !.owed = Append(@, CONTLR_SELF_TEST_OK), !.config = c] :
            c \in {ctl.config} \cup ResetConfigs}
    [] input.byte = "PORT_1_SELF_TEST" ->
         {[ctl EXCEPT !.owed = Append(@, PORT_1_SELF_TEST_OK)]}
    [] OTHER -> {ctl}

TakeCommand ==
  /\ input.full /\ input.command
  /\ input' = [input EXCEPT !.full = FALSE]
  /\ ctl' \in Commanded
  /\ UNCHANGED <<driver, output, kbd, used, late>>

TakeConfig ==
  /\ input.full /\ ~input.command /\ ctl.awaits
  /\ input' = [input EXCEPT !.full = FALSE]
  /\ ctl' = [ctl EXCEPT !.config = input.byte, !.awaits = FALSE]
  /\ UNCHANGED <<driver, output, kbd, used, late>>

(* Any other byte is for the keyboard, whose port is switched on for it.    *)
(* The keyboard answers each byte.  One that discards (an emulator) drops   *)
(* the answers the driver has not read; another one (hardware) keeps them.  *)
Answered(k, answers) ==
  [k EXCEPT !.queue = IF k.discards THEN answers ELSE @ \o answers]
KeyboardAnswers(b) ==
  IF b = KBD_CMD_GET_SET_SCAN_CODE_SET
  THEN Answered([kbd EXCEPT !.awaits = TRUE], <<KBD_ACK>>)
  ELSE IF ~kbd.awaits
  THEN Answered(kbd, <<KBD_RESEND>>)
  ELSE IF b = KBD_CMD_GET_SCAN_CODE_SET
  THEN Answered([kbd EXCEPT !.awaits = FALSE], <<KBD_ACK, SetByte[kbd.set]>>)
  ELSE Answered([kbd EXCEPT !.awaits = FALSE, !.set = 2], <<KBD_ACK>>)

ForKeyboard ==
  /\ input.full /\ ~input.command /\ ~ctl.awaits
  /\ input' = [input EXCEPT !.full = FALSE]
  /\ ctl' = [ctl EXCEPT !.config = @ \ {PORT1_CLK_DISABLE}]
  /\ output' = [output EXCEPT !.full = @ /\ ~(output.kbd /\ kbd.discards)]

Forward ==
  /\ ForKeyboard
  /\ kbd' = KeyboardAnswers(input.byte)
  /\ UNCHANGED <<driver, used, late>>

(* The byte was not understood. *)
Garbled ==
  /\ ForKeyboard
  /\ used.resends < MaxResends
  /\ used' = [used EXCEPT !.resends = @ + 1]
  /\ kbd' = Answered(kbd, <<KBD_RESEND>>)
  /\ UNCHANGED <<driver, late>>

(* An answer goes to the data port when the last byte has been read. *)
Answer ==
  /\ ctl.owed # <<>> /\ ~output.full
  /\ output' = [full |-> TRUE, byte |-> Head(ctl.owed), kbd |-> FALSE]
  /\ ctl' = [ctl EXCEPT !.owed = Tail(@)]
  /\ UNCHANGED <<driver, input, kbd, used, late>>

Sent(b) == IF Translate \in ctl.config THEN Translated(b) ELSE b

KeyboardSends ==
  /\ kbd.queue # <<>> /\ ~output.full
  /\ PORT1_CLK_DISABLE \notin ctl.config
  /\ output' = [full |-> TRUE, byte |-> Sent(Head(kbd.queue)), kbd |-> TRUE]
  /\ kbd' = [kbd EXCEPT !.queue = Tail(@)]
  /\ UNCHANGED <<driver, input, ctl, used, late>>

Type ==
  /\ used.typed < MaxTyped
  /\ \E key \in Keys :
       /\ used' = [used EXCEPT !.typed = @ + 1, !.lookalike = @ \/ key \in Lookalikes]
       /\ kbd' = [kbd EXCEPT !.queue = Append(@, key)]
  /\ UNCHANGED <<driver, input, output, ctl, late>>

Controller == TakeCommand \/ TakeConfig \/ Forward \/ Garbled \/ Answer \/ KeyboardSends
-----------------------------------------------------------------------------
Init ==
  /\ at = "disable_1" /\ result = "running" /\ config_byte = {}
  /\ input = [full |-> FALSE, command |-> FALSE, byte |-> {}]
  /\ output = [full |-> FALSE, byte |-> KeyByte, kbd |-> TRUE]
  /\ ctl \in [config : Configs, owed : {<<>>}, awaits : {FALSE}]
  /\ kbd \in [set : ScanSets, queue : {<<>>}, awaits : {FALSE}, discards : BOOLEAN]
  /\ used = [typed |-> 0, resends |-> 0, lookalike |-> FALSE]
  /\ late = FALSE

Next == Driver \/ Controller \/ Type

(* The processor executes, and the devices proceed, in their own time. *)
Fairness ==
  /\ WF_vars(Driver)
  /\ WF_vars(TakeCommand) /\ WF_vars(TakeConfig) /\ WF_vars(Forward)
  /\ WF_vars(Answer) /\ WF_vars(KeyboardSends)

Spec == Init /\ [][Next]_vars /\ Fairness
-----------------------------------------------------------------------------
TypeOK ==
  /\ at \in Labels /\ result \in {"running", "SUCCESS", "FAILURE"}
  /\ config_byte \in Byte /\ output.byte \in Byte /\ ctl.config \in Byte
  /\ input.command \/ input.byte \in Byte
  /\ Len(ctl.owed) <= 4 /\ kbd.set \in 1..3

(***************************************************************************)
(* The last part of the dialogue is polled (ps2_keyboard_driver.c:579-595):*)
(* whatever the controller's pace, the bytes garbled and the keys pressed, *)
(* but for those whose byte is one the driver waits for, a SUCCESS means   *)
(* that the keyboard uses scan code set 2 and that the controller          *)
(* translates it, for which process_scan_code() is written.                *)
(* (With the types.)                                                       *)
(***************************************************************************)
Verified == kbd.set = 2 /\ Translate \in ctl.config
SuccessMeansSet2 ==
  /\ TypeOK
  /\ result = "SUCCESS" /\ ~used.lookalike => Verified

(***************************************************************************)
(* When no byte was overtaken, a SUCCESS leaves the configuration that was *)
(* meant, whatever the self test reset and the user typed: the keyboard's  *)
(* clock on, its interrupt as asked for, the other port off (:479-509).    *)
(***************************************************************************)
ConfiguredUnlessLate ==
  result = "SUCCESS" /\ ~late =>
    /\ ctl.config = config_byte /\ PORT1_CLK_DISABLE \notin ctl.config
    /\ PORT1_INT_EN \in ctl.config <=> irq_enable
    /\ PORT2_CLK_DISABLE \in ctl.config /\ PORT2_INT_EN \notin ctl.config

(***************************************************************************)
(* The set-up of sound hardware that keeps up with the driver fails only   *)
(* where the dialogue does not retry: the verification, when a byte of it  *)
(* was garbled (:558-595).  Sound is a keyboard that forgets unread        *)
(* answers, on which nobody types, and a controller that translates.       *)
(***************************************************************************)
Sound == ~late /\ kbd.discards /\ used.typed = 0 /\ Translate \in ctl.config
PromptSucceeds ==
  result = "FAILURE" /\ Sound =>
    used.resends > 0 /\ at \in {"get_answer", "set_got"}

(***************************************************************************)
(* One answer is read where the keyboard gives two, an ACK for each byte:  *)
(* only with a keyboard that forgets the unread one can the verification   *)
(* succeed (:563-595), unless a key sends the byte it waits for.           *)
(***************************************************************************)
NeedsForgetting == result = "SUCCESS" => kbd.discards \/ used.lookalike

(***************************************************************************)
(* The set-up comes to an end, although it polls without a time-out, as    *)
(* long as the devices proceed and the keyboard garbles finitely many      *)
(* bytes (:279-306, 559-577).                                     *)
(***************************************************************************)
Terminates == <>(result # "running")
=============================================================================
