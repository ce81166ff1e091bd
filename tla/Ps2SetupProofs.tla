--------------------------- MODULE Ps2SetupProofs ---------------------------
(***************************************************************************)
(* Theorems about Ps2Setup, for every configuration the firmware or the    *)
(* self test leaves, every scan code set the keyboard starts with, any     *)
(* number of keys pressed and bytes garbled, and any pace of the devices.  *)
(***************************************************************************)
EXTENDS Ps2Setup, TLAPS

-----------------------------------------------------------------------------
(* The parts of the dialogue. *)
Start == {"disable_1", "disable_2", "flush", "flush_again", "ask_config"}
Configuring == {"config", "send_config", "new_config", "test", "tested"}
Checking == {"ask_config_again", "config_again", "resend_config", "old_config",
             "test_port", "port_tested"}
Resetting == {"reset_port", "port_reset"}
Polling == {"set", "to_set_2", "set_answer", "get", "which_set"}
Final == {"get_answer", "set_got", "enable_1"}

Commands == {"PORT_1_DISABLE", "PORT_2_DISABLE", "READ_BYTE_0", "WRITE_BYTE_0",
             "CONTLR_SELF_TEST", "PORT_1_SELF_TEST", "PORT1_RESET", "PORT_1_ENABLE"}
Asking == {"READ_BYTE_0", "CONTLR_SELF_TEST", "PORT_1_SELF_TEST"}

KbdBytes == {KBD_ACK, KBD_RESEND, {0}, {1}, {0, 1}, KeyByte}
AllBytes == KbdBytes \cup Lookalikes

OutputType == [full : BOOLEAN, byte : Byte, kbd : BOOLEAN]
ControllerType == [config : Byte, owed : Seq(Byte), awaits : BOOLEAN]
KeyboardType == [set : 1..3, queue : Seq(AllBytes), awaits : BOOLEAN, discards : BOOLEAN]
UsedType == [typed : Nat, resends : Nat, lookalike : BOOLEAN]

Types ==
  /\ at \in Labels /\ result \in {"running", "SUCCESS", "FAILURE"}
  /\ config_byte \in Byte
  /\ input \in [full : BOOLEAN, command : BOOLEAN, byte : Byte \cup Commands]
  /\ input.command \/ input.byte \in Byte
  /\ output \in OutputType /\ ctl \in ControllerType /\ kbd \in KeyboardType
  /\ used \in UsedType /\ (used.typed = 0 => ~used.lookalike)
  /\ late \in BOOLEAN

(* What may wait in the input buffer when the driver is at an access. *)
Command(c) == [full |-> TRUE, command |-> TRUE, byte |-> c]
Data(b) == [full |-> TRUE, command |-> FALSE, byte |-> b]

Waiting(l) ==
  CASE l = "disable_1" -> {}
    [] l = "disable_2" -> {Command("PORT_1_DISABLE")}
    [] l \in {"flush", "flush_again", "ask_config"} -> {Command("PORT_2_DISABLE")}
    [] l \in {"config", "send_config", "config_again", "resend_config"} ->
         {Command("READ_BYTE_0")}
    [] l \in {"new_config", "old_config"} -> {Command("WRITE_BYTE_0")}
    [] l = "test" -> {Data(config_byte)}
    [] l \in {"tested", "ask_config_again"} -> {Command("CONTLR_SELF_TEST")}
    [] l = "test_port" -> {Command("READ_BYTE_0"), Data(config_byte)}
    [] l \in {"port_tested", "reset_port"} -> {Command("PORT_1_SELF_TEST")}
    [] l = "port_reset" -> {Command("PORT1_RESET")}
    [] l = "set" -> {Command("PORT1_RESET"), Data(KBD_SCAN_CODE_SET_2)}
    [] l \in {"to_set_2", "which_set"} -> {Data(KBD_CMD_GET_SET_SCAN_CODE_SET)}
    [] l \in {"set_answer", "get"} -> {Data(KBD_SCAN_CODE_SET_2)}
    [] l \in {"get_answer", "set_got"} -> {Data(KBD_CMD_GET_SCAN_CODE_SET)}
    [] l = "enable_1" -> {Data(KBD_CMD_GET_SCAN_CODE_SET), Command("PORT_1_ENABLE")}

InputInv ==
  /\ input.full => input \in Waiting(at)
  /\ result = "SUCCESS" => at = "enable_1"
  /\ at \notin Start \cup {"config"} =>
       /\ SYSTEM_FLAG \in config_byte /\ PORT2_CLK_DISABLE \in config_byte
       /\ PORT2_INT_EN \notin config_byte /\ PORT1_CLK_DISABLE \notin config_byte
       /\ PORT1_INT_EN \in config_byte <=> irq_enable

(* The answers still owed, and the last one given.  Behind b comes only b: *)
(* a driver that has read b has overtaken nothing else.                    *)
Only(owed, b) == \A i \in 1..Len(owed) : owed[i] = b
Behind(owed, last, b) ==
  /\ \A i, j \in 1..Len(owed) : i < j /\ owed[i] = b => owed[j] = b
  /\ last = b => Only(owed, b)
Without(owed, last, b) == last # b /\ \A i \in 1..Len(owed) : owed[i] # b
Asked == input.full /\ input.command /\ input.byte = "READ_BYTE_0"

OwedInv ==
  /\ at \in Start => Without(ctl.owed, output.byte, CONTLR_SELF_TEST_OK)
  /\ at \in Configuring =>
       /\ Behind(ctl.owed, output.byte, CONTLR_SELF_TEST_OK)
       /\ Asked => Without(ctl.owed, output.byte, CONTLR_SELF_TEST_OK)
  /\ at \in Checking =>
       /\ Behind(ctl.owed, output.byte, PORT_1_SELF_TEST_OK)
       /\ Asked \/ at = "ask_config_again" =>
            Without(ctl.owed, output.byte, PORT_1_SELF_TEST_OK)
  /\ at \in Resetting \cup Polling \cup Final => Only(ctl.owed, PORT_1_SELF_TEST_OK)

(* No more answers are owed than were asked for. *)
AskedUpTo(l) ==
  CASE l \in Start -> 0
    [] l \in Configuring \ {"tested"} -> 1
    [] l \in {"tested", "ask_config_again"} -> 2
    [] l \in {"config_again", "resend_config", "old_config", "test_port"} -> 3
    [] OTHER -> 4

Pending == IF input.full /\ input.command /\ input.byte \in Asking THEN 1 ELSE 0
LengthInv == Len(ctl.owed) + Pending <= AskedUpTo(at)

(* In the end the driver polls: only the keyboard's answer to the last     *)
(* question, translated, is the byte it accepts.                           *)
PolledInv ==
  /\ at \in Polling \cup Final /\ output.byte = SCAN_CODE_SET2 =>
       at \in Final /\ kbd.set = 2 /\ Translate \in ctl.config
  /\ \A i \in 1..Len(kbd.queue) : kbd.queue[i] = {1} => at \in Final /\ kbd.set = 2
  /\ at = "to_set_2" /\ ~input.full => ~ctl.awaits
  /\ at \in (Polling \ {"set", "to_set_2"}) \cup Final => ~ctl.awaits
  /\ at = "enable_1" => kbd.set = 2 /\ Translate \in ctl.config

(* A keyboard that keeps its answers has one before the last that the      *)
(* driver does not read.                                                   *)
Shown == IF output.full THEN 1 ELSE 0
Needed == CASE at = "get_answer" -> 2 [] at = "set_got" -> 1 [] OTHER -> 0
ForgetInv ==
  ~kbd.discards /\ result # "FAILURE" =>
    /\ at = "which_set" => input.full \/ Shown + Len(kbd.queue) >= 1
    /\ at = "get_answer" /\ input.full => Shown + Len(kbd.queue) >= 1
    /\ \A i \in 1..Len(kbd.queue) : kbd.queue[i] = {1} => Shown + i > Needed
    /\ at \in {"get_answer", "set_got"} => output.byte # SCAN_CODE_SET2
    /\ at # "enable_1"

(* When nothing was overtaken, the configuration is the one meant. *)
AsMeant == ctl.config \ {PORT1_CLK_DISABLE} = config_byte \ {PORT1_CLK_DISABLE}
ConfigInv ==
  ~late =>
    /\ at \in {"test", "to_set_2"} /\ ~input.full => ~ctl.awaits
    /\ at \in {"tested", "ask_config_again", "config_again", "resend_config"} =>
         ~ctl.awaits
    /\ at = "config_again" =>
         \/ input.full /\ ctl.owed = <<>>
         \/ ~input.full /\ ctl.owed = <<ctl.config>>
         \/ ~input.full /\ ctl.owed = <<>> /\ output.full /\ output.byte = ctl.config
    /\ at = "ask_config_again" => ~input.full /\ ctl.owed = <<>>
    /\ at = "resend_config" => ~input.full
    /\ at = "old_config" => input.full \/ ctl.awaits
    /\ at = "test_port" =>
         \/ ~input.full /\ ~ctl.awaits /\ AsMeant
         \/ input = Data(config_byte) /\ ctl.awaits
    /\ at \in {"port_tested"} \cup Resetting \cup Polling \cup Final =>
         ~ctl.awaits /\ AsMeant
    /\ at = "to_set_2" /\ ~input.full => PORT1_CLK_DISABLE \notin ctl.config
    /\ at \in {"set_answer", "get", "which_set"} \cup Final =>
         PORT1_CLK_DISABLE \notin ctl.config

(* What the bytes say, as long as none of a key was taken for another.     *)
Plain == \A i \in 1..Len(kbd.queue) : kbd.queue[i] \in KbdBytes
BytesInv == ~used.lookalike => Plain /\ OwedInv /\ PolledInv /\ ForgetInv

IInv == Types /\ InputInv /\ LengthInv /\ ConfigInv /\ BytesInv

-----------------------------------------------------------------------------
(* Bytes are told apart by their bits. *)
LEMMA BytesDiffer ==
  /\ CONTLR_SELF_TEST_OK # PORT_1_SELF_TEST_OK
  /\ \A b \in KbdBytes : /\ b # CONTLR_SELF_TEST_OK /\ b # PORT_1_SELF_TEST_OK
                         /\ b # SCAN_CODE_SET2
                         /\ Translated(b) # CONTLR_SELF_TEST_OK
                         /\ Translated(b) # PORT_1_SELF_TEST_OK
                         /\ Translated(b) = SCAN_CODE_SET2 => b = {1}
  /\ KBD_ACK # {1} /\ KBD_RESEND # {1} /\ SetByte[1] # {1} /\ SetByte[3] # {1}
  /\ \A key \in Keys : key # {1}
  /\ Translated(KBD_ACK) = KBD_ACK /\ Translated(KBD_RESEND) = KBD_RESEND
  /\ Translated({1}) = SCAN_CODE_SET2
  /\ KBD_ACK # SCAN_CODE_SET2 /\ KBD_RESEND # SCAN_CODE_SET2 /\ KBD_ACK # KBD_RESEND
  /\ PORT_1_SELF_TEST_OK # SCAN_CODE_SET2
  /\ KBD_CMD_GET_SET_SCAN_CODE_SET # KBD_CMD_GET_SCAN_CODE_SET
  /\ KBD_SCAN_CODE_SET_2 # KBD_CMD_GET_SCAN_CODE_SET
  /\ KBD_SCAN_CODE_SET_2 # KBD_CMD_GET_SET_SCAN_CODE_SET
<1>1. /\ 0 \in CONTLR_SELF_TEST_OK /\ 2 \in CONTLR_SELF_TEST_OK /\ 6 \in CONTLR_SELF_TEST_OK
      /\ 1 \notin CONTLR_SELF_TEST_OK /\ 3 \notin CONTLR_SELF_TEST_OK
  BY DEF CONTLR_SELF_TEST_OK
<1>2. /\ 0 \in SCAN_CODE_SET2 /\ 6 \in SCAN_CODE_SET2
      /\ 1 \notin SCAN_CODE_SET2 /\ 2 \notin SCAN_CODE_SET2
  BY DEF SCAN_CODE_SET2
<1>3. /\ 1 \in KBD_ACK /\ 0 \notin KBD_ACK /\ 2 \notin KBD_ACK
      /\ 1 \in KBD_RESEND /\ 2 \in KBD_RESEND /\ 3 \in KBD_RESEND /\ 0 \notin KBD_RESEND
      /\ 2 \in KeyByte /\ 3 \in KeyByte /\ 0 \notin KeyByte /\ 1 \notin KeyByte
      /\ 3 \in KBD_ACK
  BY DEF KBD_ACK, KBD_RESEND, KeyByte
<1>4. /\ 4 \in KBD_CMD_GET_SET_SCAN_CODE_SET /\ 1 \notin KBD_CMD_GET_SET_SCAN_CODE_SET
      /\ KBD_CMD_GET_SCAN_CODE_SET = {} /\ PORT_1_SELF_TEST_OK = {}
      /\ KBD_SCAN_CODE_SET_2 = {1}
  BY DEF KBD_CMD_GET_SET_SCAN_CODE_SET, KBD_CMD_GET_SCAN_CODE_SET, PORT_1_SELF_TEST_OK,
         KBD_SCAN_CODE_SET_2
<1>5. SetByte[1] = {0} /\ SetByte[3] = {0, 1}
  BY DEF SetByte
<1>6. KBD_ACK # {1} /\ KBD_RESEND # {1} /\ KeyByte # {1} /\ {0} # {1} /\ {0, 1} # {1}
  BY <1>3
<1>7. KBD_ACK # {0} /\ KBD_RESEND # {0} /\ KBD_ACK # {0, 1} /\ KBD_RESEND # {0, 1}
      /\ KBD_ACK # KeyByte /\ KBD_RESEND # KeyByte /\ KBD_ACK # KBD_RESEND
  BY <1>3
<1>8. /\ Translated(KBD_ACK) = KBD_ACK /\ Translated(KBD_RESEND) = KBD_RESEND
      /\ Translated({0}) = {0, 1, 6} /\ Translated({0, 1}) = {0, 1, 2, 3, 4, 5}
      /\ Translated(KeyByte) = {1, 2, 3, 4} /\ Translated({1}) = SCAN_CODE_SET2
  <2>1. {0} # {1} /\ {0, 1} # {0} /\ {0, 1} # {1} /\ KeyByte # {0} /\ KeyByte # {0, 1}
    BY <1>3
  <2>2. ASSUME NEW b \in KbdBytes, NEW k \in Lookalikes PROVE b # k
    <3>1. 0 \in k /\ (2 \in k \/ 6 \in k \/ 7 \in k)
      BY DEF Lookalikes, F7, Comma, Equals
    <3>2. 0 \in b => b = {0} \/ b = {0, 1}
      BY <1>3 DEF KbdBytes
    <3> QED BY <3>1, <3>2
  <2>3. \A b \in KbdBytes : b # F7 /\ b # Comma /\ b # Equals
    BY <2>2 DEF Lookalikes
  <2>4. \A b \in KbdBytes : Translated(b) =
          CASE b = {0}     -> {0, 1, 6}
            [] b = {1}     -> SCAN_CODE_SET2
            [] b = {0, 1}  -> {0, 1, 2, 3, 4, 5}
            [] b = KeyByte -> {1, 2, 3, 4}
            [] OTHER       -> b
    BY <2>3 DEF Translated
  <2> QED BY <1>6, <1>7, <2>1, <2>4 DEF KbdBytes
<1>9. ASSUME NEW b \in KbdBytes
      PROVE  /\ b # CONTLR_SELF_TEST_OK /\ b # PORT_1_SELF_TEST_OK /\ b # SCAN_CODE_SET2
             /\ Translated(b) # CONTLR_SELF_TEST_OK
             /\ Translated(b) # PORT_1_SELF_TEST_OK
             /\ Translated(b) = SCAN_CODE_SET2 => b = {1}
  <2>1. CASE b = KBD_ACK
    BY <1>1, <1>2, <1>3, <1>4, <1>8, <2>1
  <2>2. CASE b = KBD_RESEND
    BY <1>1, <1>2, <1>3, <1>4, <1>8, <2>2
  <2>3. CASE b = {0}
    BY <1>1, <1>2, <1>4, <1>8, <2>3
  <2>4. CASE b = {1}
    BY <1>1, <1>2, <1>4, <1>8, <2>4
  <2>5. CASE b = {0, 1}
    BY <1>1, <1>2, <1>4, <1>8, <2>5
  <2>6. CASE b = KeyByte
    BY <1>1, <1>2, <1>3, <1>4, <1>8, <2>6
  <2> QED BY <2>1, <2>2, <2>3, <2>4, <2>5, <2>6 DEF KbdBytes
<1>10. ASSUME NEW key \in Keys PROVE key # {1}
  <2>1. KeyByte # {1} /\ 0 \in F7 /\ 0 \in Comma /\ 0 \in Equals /\ 0 \notin {1}
    BY <1>6 DEF F7, Comma, Equals
  <2> QED BY <2>1 DEF Keys, Lookalikes
<1> QED BY <1>1, <1>2, <1>3, <1>4, <1>5, <1>6, <1>7, <1>8, <1>9, <1>10

LEMMA Bytes ==
  /\ AllBytes \subseteq Byte /\ CONTLR_SELF_TEST_OK \in Byte /\ PORT_1_SELF_TEST_OK \in Byte
  /\ KBD_CMD_GET_SET_SCAN_CODE_SET \in Byte /\ KBD_CMD_GET_SCAN_CODE_SET \in Byte
  /\ KBD_SCAN_CODE_SET_2 \in Byte /\ {} \in Byte
  /\ \A b \in AllBytes : Translated(b) \in Byte
  /\ \A b \in Byte : NewConfig(b) \in Byte
<1>1. AllBytes \subseteq Byte
  BY DEF AllBytes, Lookalikes, F7, Comma, Equals, KbdBytes, KBD_ACK, KBD_RESEND, KeyByte, Byte
<1>2. \A b \in AllBytes : Translated(b) \in Byte
  <2>1. {0, 1, 6} \in Byte /\ SCAN_CODE_SET2 \in Byte /\ {0, 1, 2, 3, 4, 5} \in Byte
        /\ {1, 2, 3, 4} \in Byte /\ {0, 1, 4, 5} \in Byte /\ {0, 2, 3} \in Byte
    BY DEF Byte, SCAN_CODE_SET2
  <2> QED BY <1>1, <2>1 DEF Translated
<1>3. \A b \in Byte : NewConfig(b) \in Byte
  BY DEF NewConfig, Byte, PORT2_CLK_DISABLE, SYSTEM_FLAG, PORT1_CLK_DISABLE, PORT1_INT_EN,
         PORT2_INT_EN
<1>4. /\ CONTLR_SELF_TEST_OK \in Byte /\ PORT_1_SELF_TEST_OK \in Byte
      /\ KBD_CMD_GET_SET_SCAN_CODE_SET \in Byte /\ KBD_CMD_GET_SCAN_CODE_SET \in Byte
      /\ KBD_SCAN_CODE_SET_2 \in Byte /\ {} \in Byte
  BY DEF Byte, CONTLR_SELF_TEST_OK, PORT_1_SELF_TEST_OK, KBD_CMD_GET_SET_SCAN_CODE_SET,
         KBD_CMD_GET_SCAN_CODE_SET, KBD_SCAN_CODE_SET_2
<1> QED BY <1>1, <1>2, <1>3, <1>4

-----------------------------------------------------------------------------
(* The driver's accesses, one line for each: where a write goes on, and    *)
(* what it leaves in the input buffer; where a read goes on, if its byte   *)
(* is the expected one.                                                    *)
Writes ==
  \/ Write("disable_1", TRUE, "PORT_1_DISABLE", "disable_2")
  \/ Write("disable_2", TRUE, "PORT_2_DISABLE", "flush")
  \/ Write("ask_config", TRUE, "READ_BYTE_0", "config")
  \/ Write("send_config", TRUE, "WRITE_BYTE_0", "new_config")
  \/ Write("new_config", FALSE, config_byte, "test")
  \/ Write("test", TRUE, "CONTLR_SELF_TEST", "tested")
  \/ Write("ask_config_again", TRUE, "READ_BYTE_0", "config_again")
  \/ Write("resend_config", TRUE, "WRITE_BYTE_0", "old_config")
  \/ Write("old_config", FALSE, config_byte, "test_port")
  \/ Write("test_port", TRUE, "PORT_1_SELF_TEST", "port_tested")
  \/ Write("reset_port", TRUE, "PORT1_RESET", "port_reset")

PolledWrites ==
  /\ ~input.full
  /\ \/ Write("set", FALSE, KBD_CMD_GET_SET_SCAN_CODE_SET, "to_set_2")
     \/ Write("to_set_2", FALSE, KBD_SCAN_CODE_SET_2, "set_answer")
     \/ Write("get", FALSE, KBD_CMD_GET_SET_SCAN_CODE_SET, "which_set")
     \/ Write("which_set", FALSE, KBD_CMD_GET_SCAN_CODE_SET, "get_answer")

Reads ==
  /\ UNCHANGED config_byte
  /\ \/ Read("flush", TRUE, "flush_again")
     \/ Read("flush_again", TRUE, "ask_config")
     \/ Read("tested", output.byte = CONTLR_SELF_TEST_OK, "ask_config_again")
     \/ Read("config_again", TRUE, IF output.byte = config_byte THEN "test_port" ELSE "resend_config")
     \/ Read("port_tested", output.byte = PORT_1_SELF_TEST_OK, "reset_port")
     \/ Read("port_reset", output.byte = PORT_1_SELF_TEST_OK, "set")

PolledReads ==
  /\ output.full /\ UNCHANGED config_byte
  /\ \/ Read("set_answer", output.byte \in {KBD_ACK, KBD_RESEND}, 
             IF output.byte = KBD_RESEND THEN "set" ELSE "get")
     \/ Read("get_answer", output.byte = KBD_ACK, "set_got")
     \/ Read("set_got", output.byte = SCAN_CODE_SET2, "enable_1")

ReadConfig == Read("config", TRUE, "send_config") /\ config_byte' = NewConfig(output.byte)

LEMMA DriverSteps ==
  ASSUME Driver
  PROVE  Writes \/ PolledWrites \/ Reads \/ PolledReads \/ ReadConfig \/ Enable
<1> USE DEF command_register_cmd, data_port_write, data_port_read, keyboard_read,
            keyboard_write, Writes, PolledWrites, Reads, PolledReads, ReadConfig
<1>1. CASE Disable
  BY <1>1 DEF Disable
<1>2. CASE Flush
  BY <1>2 DEF Flush
<1>3. CASE GetConfig
  BY <1>3 DEF GetConfig
<1>4. CASE SetConfig
  BY <1>4 DEF SetConfig
<1>5. CASE SelfTest
  BY <1>5 DEF SelfTest
<1>6. CASE RestoreConfig
  BY <1>6 DEF RestoreConfig, AfterCheck
<1>7. CASE PortTest
  BY <1>7 DEF PortTest
<1>8. CASE ResetPort
  BY <1>8 DEF ResetPort, PORT_1_SELF_TEST_OK
<1>9. CASE SetScanCodes
  BY <1>9 DEF SetScanCodes, AfterSet
<1>10. CASE VerifyScanCodes
  BY <1>10 DEF VerifyScanCodes, GetScanCodes
<1>11. CASE Enable
  BY <1>11
<1> QED BY <1>1, <1>2, <1>3, <1>4, <1>5, <1>6, <1>7, <1>8, <1>9, <1>10, <1>11 DEF Driver

(* The driver leaves the devices alone. *)
LEMMA DriverKeeps ==
  ASSUME Types, Driver
  PROVE  /\ UNCHANGED <<ctl, kbd, used>> /\ output'.byte = output.byte
         /\ output' = output \/ output' = [output EXCEPT !.full = FALSE]
         /\ late => late'
<1> USE DEF Writes, PolledWrites, Reads, PolledReads, ReadConfig, Write, Read, Enable
<1>1. UNCHANGED <<ctl, kbd, used>>
  BY DriverSteps
<1>2. output' = output \/ output' = [output EXCEPT !.full = FALSE]
  BY DriverSteps
<1>3. late => late'
  BY DriverSteps
<1>4. \A o \in OutputType : [o EXCEPT !.full = FALSE].byte = o.byte
  BY DEF OutputType
<1> QED BY <1>1, <1>2, <1>3, <1>4 DEF Types

-----------------------------------------------------------------------------
(* The types. *)
LEMMA Fields ==
  /\ \A o \in OutputType : o.full \in BOOLEAN /\ o.byte \in Byte /\ o.kbd \in BOOLEAN
  /\ \A c \in ControllerType : c.config \in Byte /\ c.owed \in Seq(Byte) /\ c.awaits \in BOOLEAN
  /\ \A k \in KeyboardType : /\ k.set \in 1..3 /\ k.queue \in Seq(AllBytes)
                              /\ k.awaits \in BOOLEAN /\ k.discards \in BOOLEAN
  BY DEF OutputType, ControllerType, KeyboardType

LEMMA Updated ==
  /\ \A o \in OutputType, f \in BOOLEAN : [o EXCEPT !.full = f] \in OutputType
  /\ \A b \in Byte, f \in BOOLEAN : [full |-> TRUE, byte |-> b, kbd |-> f] \in OutputType
  /\ \A c \in ControllerType, b \in Byte : [c EXCEPT !.config = b] \in ControllerType
  /\ \A c \in ControllerType, q \in Seq(Byte) : [c EXCEPT !.owed = q] \in ControllerType
  /\ \A c \in ControllerType, q \in Seq(Byte), b \in Byte :
       [c EXCEPT !.owed = q, !.config = b] \in ControllerType
  /\ \A c \in ControllerType, f \in BOOLEAN : [c EXCEPT !.awaits = f] \in ControllerType
  /\ \A c \in ControllerType, b \in Byte, f \in BOOLEAN :
       [c EXCEPT !.config = b, !.awaits = f] \in ControllerType
  /\ \A k \in KeyboardType, q \in Seq(AllBytes) : [k EXCEPT !.queue = q] \in KeyboardType
  /\ \A k \in KeyboardType, f \in BOOLEAN : [k EXCEPT !.awaits = f] \in KeyboardType
  /\ \A k \in KeyboardType, f \in BOOLEAN, n \in 1..3 :
       [k EXCEPT !.awaits = f, !.set = n] \in KeyboardType
  BY DEF OutputType, ControllerType, KeyboardType

LEMMA WriteTypes ==
  ASSUME Types, NEW here, NEW c \in BOOLEAN, NEW b \in Byte \cup Commands, c \/ b \in Byte,
         NEW next \in Labels, Write(here, c, b, next)
  PROVE  Types'
  BY DEF Types, Write

LEMMA ReadTypes ==
  ASSUME Types, NEW here, NEW good, NEW next, good => next \in Labels,
         Read(here, good, next), config_byte' \in Byte
  PROVE  Types'
  BY Fields, Updated DEF Types, Read

LEMMA DriverTypes ==
  ASSUME Types, Driver
  PROVE  Types'
<1>1. /\ config_byte \in Byte
      /\ \A c \in Commands : TRUE \in BOOLEAN /\ c \in Byte \cup Commands
      /\ \A l \in Start \cup Configuring \cup Checking \cup Resetting \cup Polling \cup Final :
           l \in Labels
  BY DEF Types, Labels, Start, Configuring, Checking, Resetting, Polling, Final
<1>2. CASE Writes
  <2> DEFINE W(here, c, b, next) == Write(here, c, b, next) => Types'
  <2>1. \A here : \A c \in Commands : \A next \in Labels : W(here, TRUE, c, next)
    BY WriteTypes
  <2>2. \A here : \A next \in Labels : W(here, FALSE, config_byte, next)
    BY <1>1, WriteTypes
  <2> QED BY <1>2, <2>1, <2>2 DEF Writes, Commands, Labels
<1>3. CASE PolledWrites
  <2>1. \A here : \A b \in Byte : \A next \in Labels : Write(here, FALSE, b, next) => Types'
    BY WriteTypes
  <2> QED BY <1>3, <2>1, Bytes DEF PolledWrites, Labels
<1>4. CASE Reads \/ PolledReads
  <2>1. config_byte' \in Byte
    BY <1>1, <1>4 DEF Reads, PolledReads
  <2>2. \A here, good : \A next \in Labels : Read(here, good, next) => Types'
    BY <2>1, ReadTypes
  <2> QED BY <1>4, <2>2 DEF Reads, PolledReads, Labels
<1>5. CASE ReadConfig
  <2>1. config_byte' \in Byte
    <3>1. output.byte \in Byte
      BY Fields DEF Types
    <3> QED BY <1>5, <3>1, Bytes DEF ReadConfig
  <2> QED BY <1>5, <2>1, ReadTypes DEF ReadConfig, Labels
<1>6. CASE Enable
  BY <1>6 DEF Enable, Types, Commands
<1> QED BY <1>2, <1>3, <1>4, <1>5, <1>6, DriverSteps

LEMMA AnsweredTypes ==
  ASSUME NEW k \in KeyboardType, NEW q \in Seq(AllBytes)
  PROVE  Answered(k, q) \in KeyboardType
<1>1. k.queue \o q \in Seq(AllBytes)
  <2>1. k.queue \in Seq(AllBytes)
    BY Fields
  <2> QED BY <2>1
<1> QED BY <1>1, Updated DEF Answered

(* What a command does to the controller. *)
Owed(cmd, config, owed) ==
  CASE cmd = "READ_BYTE_0"      -> Append(owed, config)
    [] cmd = "CONTLR_SELF_TEST" -> Append(owed, CONTLR_SELF_TEST_OK)
    [] cmd = "PORT_1_SELF_TEST" -> Append(owed, PORT_1_SELF_TEST_OK)
    [] OTHER                    -> owed

LEMMA CommandTaken ==
  ASSUME ctl \in ControllerType, TakeCommand
  PROVE  /\ input.full /\ input.command
         /\ input' = [input EXCEPT !.full = FALSE]
         /\ UNCHANGED <<driver, output, kbd, used, late>>
         /\ ctl' \in ControllerType
         /\ ctl'.owed = Owed(input.byte, ctl.config, ctl.owed)
         /\ ctl'.awaits = (ctl.awaits \/ input.byte = "WRITE_BYTE_0")
         /\ input.byte \in Commands \ {"PORT_1_DISABLE", "PORT_2_DISABLE", "CONTLR_SELF_TEST"}
              => /\ ctl'.config \subseteq ctl.config
                 /\ ctl.config \ {PORT1_CLK_DISABLE} \subseteq ctl'.config
         /\ input.byte \in {"READ_BYTE_0", "WRITE_BYTE_0", "PORT_1_SELF_TEST", "PORT1_RESET"}
              => ctl'.config = ctl.config
<1>1. /\ input.full /\ input.command /\ input' = [input EXCEPT !.full = FALSE]
      /\ UNCHANGED <<driver, output, kbd, used, late>> /\ ctl' \in Commanded
  BY DEF TakeCommand
<1>2. ctl.owed \in Seq(Byte) /\ ctl.config \in Byte /\ ctl.awaits \in BOOLEAN
  BY Fields
<1>3. /\ ctl.config \cup {PORT1_CLK_DISABLE} \in Byte
      /\ ctl.config \cup {PORT2_CLK_DISABLE} \in Byte
      /\ ctl.config \ {PORT1_CLK_DISABLE} \in Byte
  BY <1>2 DEF Byte, PORT1_CLK_DISABLE, PORT2_CLK_DISABLE
<1>4. \A b \in Byte : Append(ctl.owed, b) \in Seq(Byte)
  BY <1>2
<1>5. CASE input.byte = "PORT_1_DISABLE"
  <2>1. ctl' = [ctl EXCEPT !.config = ctl.config \cup {PORT1_CLK_DISABLE}]
    BY <1>1, <1>5 DEF Commanded
  <2> QED BY <1>1, <1>2, <1>3, <1>5, <2>1 DEF Owed, ControllerType
<1>6. CASE input.byte = "PORT_2_DISABLE"
  <2>1. ctl' = [ctl EXCEPT !.config = ctl.config \cup {PORT2_CLK_DISABLE}]
    BY <1>1, <1>6 DEF Commanded
  <2> QED BY <1>1, <1>2, <1>3, <1>6, <2>1 DEF Owed, ControllerType
<1>7. CASE input.byte = "PORT_1_ENABLE"
  <2>1. ctl' = [ctl EXCEPT !.config = ctl.config \ {PORT1_CLK_DISABLE}]
    BY <1>1, <1>7 DEF Commanded
  <2> QED BY <1>1, <1>2, <1>3, <1>7, <2>1 DEF Owed, ControllerType
<1>8. CASE input.byte = "READ_BYTE_0"
  <2>1. ctl' = [ctl EXCEPT !.owed = Append(ctl.owed, ctl.config)]
    BY <1>1, <1>8 DEF Commanded
  <2>2. Append(ctl.owed, ctl.config) \in Seq(Byte)
    BY <1>2, <1>4
  <2> QED BY <1>1, <1>2, <1>8, <2>1, <2>2 DEF Owed, ControllerType
<1>9. CASE input.byte = "WRITE_BYTE_0"
  <2>1. ctl' = [ctl EXCEPT !.awaits = TRUE]
    BY <1>1, <1>9 DEF Commanded
  <2> QED BY <1>1, <1>2, <1>9, <2>1 DEF Owed, ControllerType
<1>10. CASE input.byte = "CONTLR_SELF_TEST"
  <2>1. PICK c \in {ctl.config} \cup ResetConfigs :
          ctl' = [ctl EXCEPT !.owed = Append(ctl.owed, CONTLR_SELF_TEST_OK), !.config = c]
    BY <1>1, <1>10 DEF Commanded
  <2>2. Append(ctl.owed, CONTLR_SELF_TEST_OK) \in Seq(Byte) /\ c \in Byte
    BY <1>2, <1>4, Bytes, Ps2Assumption DEF Byte
  <2> QED BY <1>1, <1>2, <1>10, <2>1, <2>2 DEF Owed, ControllerType
<1>11. CASE input.byte = "PORT_1_SELF_TEST"
  <2>1. ctl' = [ctl EXCEPT !.owed = Append(ctl.owed, PORT_1_SELF_TEST_OK)]
    BY <1>1, <1>11 DEF Commanded
  <2>2. Append(ctl.owed, PORT_1_SELF_TEST_OK) \in Seq(Byte)
    BY <1>4, Bytes
  <2> QED BY <1>1, <1>2, <1>11, <2>1, <2>2 DEF Owed, ControllerType
<1>12. CASE input.byte \notin Commands \ {"PORT1_RESET"}
  <2>1. ctl' = ctl
    BY <1>1, <1>12 DEF Commanded, Commands
  <2> QED BY <1>1, <1>2, <1>12, <2>1 DEF Owed, Commands
<1> QED BY <1>5, <1>6, <1>7, <1>8, <1>9, <1>10, <1>11, <1>12 DEF Commands

(* What a byte for the keyboard does to it: it answers, the only answer    *)
(* that says set 2 being that to the question for the set.                 *)
Kept(q) == IF kbd.discards THEN <<>> ELSE q
Discarded == output.kbd /\ kbd.discards

LEMMA ByteForwarded ==
  ASSUME Types, Forward \/ Garbled
  PROVE  /\ input.full /\ ~input.command /\ ~ctl.awaits
         /\ input' = [input EXCEPT !.full = FALSE]
         /\ output' = [output EXCEPT !.full = output.full /\ ~Discarded]
         /\ ctl' = [ctl EXCEPT !.config = ctl.config \ {PORT1_CLK_DISABLE}]
         /\ UNCHANGED <<driver, late>> 
         /\ used'.typed = used.typed /\ used'.lookalike = used.lookalike
         /\ kbd' \in KeyboardType /\ kbd'.discards = kbd.discards
         /\ kbd'.set \in {kbd.set, 2}
         /\ \E q \in Seq(AllBytes) :
              /\ kbd'.queue = Kept(kbd.queue) \o q
              /\ \/ Len(q) = 1 /\ q[1] \in {KBD_ACK, KBD_RESEND}
                 \/ /\ Len(q) = 2 /\ q[1] = KBD_ACK /\ q[2] = SetByte[kbd.set]
                    /\ input.byte = KBD_CMD_GET_SCAN_CODE_SET /\ kbd'.set = kbd.set
<1>1. /\ input \in [full : BOOLEAN, command : BOOLEAN, byte : Byte \cup Commands]
      /\ kbd \in KeyboardType /\ kbd.queue \in Seq(AllBytes) /\ kbd.set \in 1..3
      /\ used \in UsedType
  BY Fields DEF Types
<1>2. KBD_ACK \in AllBytes /\ KBD_RESEND \in AllBytes /\ SetByte[kbd.set] \in AllBytes
  BY <1>1 DEF AllBytes, KbdBytes, SetByte
<1> DEFINE a == <<KBD_ACK>>
           r == <<KBD_RESEND>>
           s == <<KBD_ACK, SetByte[kbd.set]>>
<1>3. /\ a \in Seq(AllBytes) /\ Len(a) = 1 /\ a[1] = KBD_ACK
      /\ r \in Seq(AllBytes) /\ Len(r) = 1 /\ r[1] = KBD_RESEND
      /\ s \in Seq(AllBytes) /\ Len(s) = 2 /\ s[1] = KBD_ACK /\ s[2] = SetByte[kbd.set]
  BY <1>2
<1> HIDE DEF a, r, s
<1>4. ASSUME NEW k \in KeyboardType, NEW q \in Seq(AllBytes),
             k.queue = kbd.queue, k.discards = kbd.discards
      PROVE  /\ Answered(k, q) \in KeyboardType
             /\ Answered(k, q).queue = Kept(kbd.queue) \o q
             /\ Answered(k, q).discards = kbd.discards /\ Answered(k, q).set = k.set
  <2>1. k.queue \o q \in Seq(AllBytes) /\ <<>> \o q = q
    BY <1>1, <1>4
  <2>2. Answered(k, q) = [k EXCEPT !.queue = IF k.discards THEN q ELSE k.queue \o q]
    BY DEF Answered
  <2> QED BY <1>4, <2>1, <2>2 DEF Kept, KeyboardType
<1>5. /\ ForKeyboard /\ UNCHANGED <<driver, late>>
      /\ used'.typed = used.typed /\ used'.lookalike = used.lookalike
  BY <1>1 DEF Forward, Garbled, UsedType
<1>6. /\ kbd' \in KeyboardType /\ kbd'.discards = kbd.discards
      /\ kbd'.set \in {kbd.set, 2}
      /\ \E q \in Seq(AllBytes) :
           /\ kbd'.queue = Kept(kbd.queue) \o q
           /\ \/ Len(q) = 1 /\ q[1] \in {KBD_ACK, KBD_RESEND}
              \/ /\ Len(q) = 2 /\ q[1] = KBD_ACK /\ q[2] = SetByte[kbd.set]
                 /\ input.byte = KBD_CMD_GET_SCAN_CODE_SET /\ kbd'.set = kbd.set
  <2> DEFINE k1 == [kbd EXCEPT !.awaits = TRUE]
             k2 == [kbd EXCEPT !.awaits = FALSE]
             k3 == [kbd EXCEPT !.awaits = FALSE, !.set = 2]
  <2>1. /\ k1 \in KeyboardType /\ k1.queue = kbd.queue /\ k1.discards = kbd.discards
        /\ k1.set = kbd.set
        /\ k2 \in KeyboardType /\ k2.queue = kbd.queue /\ k2.discards = kbd.discards
        /\ k2.set = kbd.set
        /\ k3 \in KeyboardType /\ k3.queue = kbd.queue /\ k3.discards = kbd.discards
        /\ k3.set = 2
    <3>1. k1 \in KeyboardType /\ k2 \in KeyboardType /\ k3 \in KeyboardType
      <4>1. /\ \A f \in BOOLEAN : [kbd EXCEPT !.awaits = f] \in KeyboardType
            /\ \A f \in BOOLEAN, n \in 1..3 : [kbd EXCEPT !.awaits = f, !.set = n] \in KeyboardType
        BY <1>1, Updated
      <4>2. k1 \in KeyboardType /\ k2 \in KeyboardType
        BY <4>1
      <4>3. FALSE \in BOOLEAN /\ 2 \in 1..3
        OBVIOUS
      <4>4. k3 \in KeyboardType
        BY <4>1, <4>3, Zenon
      <4> QED BY <4>2, <4>4
    <3>2. k1.queue = kbd.queue /\ k1.discards = kbd.discards /\ k1.set = kbd.set
      BY <1>1 DEF KeyboardType
    <3>3. k2.queue = kbd.queue /\ k2.discards = kbd.discards /\ k2.set = kbd.set
      BY <1>1 DEF KeyboardType
    <3>4. k3.queue = kbd.queue /\ k3.discards = kbd.discards /\ k3.set = 2
      BY <1>1 DEF KeyboardType
    <3> QED BY <3>1, <3>2, <3>3, <3>4
  <2>2. \/ kbd' = Answered(k1, a)
        \/ kbd' = Answered(kbd, r)
        \/ kbd' = Answered(k2, s) /\ input.byte = KBD_CMD_GET_SCAN_CODE_SET
        \/ kbd' = Answered(k3, a)
    BY DEF Forward, Garbled, KeyboardAnswers, a, r, s
  <2> HIDE DEF k1, k2, k3
  <2>3. CASE kbd' = Answered(k1, a)
    BY <1>3, <1>4, <2>1, <2>3
  <2>4. CASE kbd' = Answered(kbd, r)
    BY <1>1, <1>3, <1>4, <2>4
  <2>5. CASE kbd' = Answered(k2, s) /\ input.byte = KBD_CMD_GET_SCAN_CODE_SET
    BY <1>3, <1>4, <2>1, <2>5
  <2>6. CASE kbd' = Answered(k3, a)
    BY <1>3, <1>4, <2>1, <2>6
  <2> QED BY <2>2, <2>3, <2>4, <2>5, <2>6
<1> QED BY <1>5, <1>6 DEF ForKeyboard, Discarded

LEMMA NewAnswer ==
  ASSUME Types, Forward \/ Garbled, NEW i \in 1..Len(kbd'.queue), kbd'.queue[i] = {1}
  PROVE  \/ i \in 1..Len(kbd.queue) /\ kbd.queue[i] = {1}
         \/ /\ i = Len(Kept(kbd.queue)) + 2
            /\ input.byte = KBD_CMD_GET_SCAN_CODE_SET /\ kbd'.set = 2
<1> DEFINE k == Kept(kbd.queue)
<1>1. /\ kbd.queue \in Seq(AllBytes) /\ k \in {<<>>, kbd.queue} /\ kbd.set \in 1..3
      /\ k \in Seq(AllBytes)
  BY Fields DEF Types, Kept
<1>2. PICK q \in Seq(AllBytes) :
        /\ kbd'.queue = k \o q
        /\ \/ Len(q) = 1 /\ q[1] \in {KBD_ACK, KBD_RESEND}
           \/ /\ Len(q) = 2 /\ q[1] = KBD_ACK /\ q[2] = SetByte[kbd.set]
              /\ input.byte = KBD_CMD_GET_SCAN_CODE_SET /\ kbd'.set = kbd.set
  BY ByteForwarded
<1> HIDE DEF k
<1>3. /\ Len(k) \in Nat /\ Len(q) \in Nat /\ Len(kbd'.queue) = Len(k) + Len(q)
      /\ \A j \in 1..Len(k) : kbd'.queue[j] = k[j]
      /\ \A j \in 1..Len(q) : kbd'.queue[Len(k) + j] = q[j]
  BY <1>1, <1>2
<1>4. CASE i \in 1..Len(k)
  <2>1. k[i] = {1}
    BY <1>3, <1>4
  <2> QED BY <1>1, <1>4, <2>1
<1>5. CASE i \notin 1..Len(k)
  <2>1. PICK j \in 1..Len(q) : i = Len(k) + j
    <3>1. i - Len(k) \in 1..Len(q) /\ i = Len(k) + (i - Len(k))
      BY <1>3, <1>5
    <3> QED BY <3>1
  <2>2. q[j] = {1}
    BY <1>3, <2>1
  <2>3. KBD_ACK # {1} /\ KBD_RESEND # {1} /\ SetByte[1] # {1} /\ SetByte[3] # {1}
    BY BytesDiffer
  <2>4. (Len(q) = 1 => j = 1) /\ (Len(q) = 2 => j = 1 \/ j = 2)
    <3>1. 1..1 = {1} /\ 1..2 = {1, 2}
      OBVIOUS
    <3>2. ASSUME Len(q) = 1 PROVE j = 1
      BY <3>1, <3>2
    <3>3. ASSUME Len(q) = 2 PROVE j = 1 \/ j = 2
      BY <3>1, <3>3
    <3> QED BY <3>2, <3>3
  <2>5. j = 2 /\ SetByte[kbd.set] = {1} /\ input.byte = KBD_CMD_GET_SCAN_CODE_SET
        /\ kbd'.set = kbd.set
    BY <1>2, <2>2, <2>3, <2>4
  <2>6. kbd.set = 2
    <3>1. kbd.set = 1 \/ kbd.set = 2 \/ kbd.set = 3
      BY <1>1
    <3> QED BY <2>3, <2>5, <3>1
  <2> QED BY <2>1, <2>5, <2>6 DEF k
<1> QED BY <1>4, <1>5

LEMMA ControllerTypes ==
  ASSUME Types, Controller \/ Type
  PROVE  Types'
<1>1. /\ input \in [full : BOOLEAN, command : BOOLEAN, byte : Byte \cup Commands]
      /\ input.command \/ input.byte \in Byte
      /\ output \in OutputType /\ ctl \in ControllerType /\ kbd \in KeyboardType
      /\ used \in UsedType
  BY DEF Types
<1>2. /\ ctl.owed \in Seq(Byte) /\ ctl.config \in Byte
      /\ kbd.queue \in Seq(AllBytes) /\ output.full \in BOOLEAN
  BY <1>1, Fields
<1>3. CASE TakeCommand
  BY <1>1, <1>3, CommandTaken DEF Types, driver
<1>4. CASE TakeConfig
  <2>1. ctl' \in ControllerType
    BY <1>1, <1>4, Updated DEF TakeConfig
  <2> QED BY <1>1, <1>4, <2>1 DEF TakeConfig, Types, driver
<1>5. CASE Forward \/ Garbled
  <2>1. ctl.config \ {PORT1_CLK_DISABLE} \in Byte
    BY <1>2 DEF Byte, PORT1_CLK_DISABLE
  <2>2. /\ kbd' \in KeyboardType /\ UNCHANGED <<driver, late>>
        /\ input' = [input EXCEPT !.full = FALSE]
        /\ output' = [output EXCEPT !.full = output.full /\ ~Discarded]
        /\ ctl' = [ctl EXCEPT !.config = ctl.config \ {PORT1_CLK_DISABLE}]
    BY <1>5, ByteForwarded
  <2>3. output' \in OutputType /\ ctl' \in ControllerType
    BY <1>1, <1>2, <2>1, <2>2, Updated
  <2>4. used' \in UsedType /\ used'.typed = used.typed /\ used'.lookalike = used.lookalike
    BY <1>1, <1>5 DEF Forward, Garbled, UsedType
  <2> QED BY <1>1, <2>2, <2>3, <2>4 DEF Types, driver
<1>6. CASE Answer
  <2>1. Head(ctl.owed) \in Byte /\ Tail(ctl.owed) \in Seq(Byte)
    BY <1>2, <1>6 DEF Answer
  <2>2. output' \in OutputType /\ ctl' \in ControllerType
    BY <1>1, <1>6, <2>1, Updated DEF Answer
  <2> QED BY <1>1, <1>6, <2>2 DEF Answer, Types, driver
<1>7. CASE KeyboardSends
  <2>1. Head(kbd.queue) \in AllBytes /\ Tail(kbd.queue) \in Seq(AllBytes)
    BY <1>2, <1>7 DEF KeyboardSends
  <2>2. Sent(Head(kbd.queue)) \in Byte
    BY <2>1, Bytes DEF Sent
  <2>3. output' \in OutputType /\ kbd' \in KeyboardType
    BY <1>1, <1>7, <2>1, <2>2, Updated DEF KeyboardSends
  <2> QED BY <1>1, <1>7, <2>3 DEF KeyboardSends, Types, driver
<1>8. CASE Type
  <2>1. PICK key \in Keys :
          /\ used' = [used EXCEPT !.typed = @ + 1, !.lookalike = @ \/ key \in Lookalikes]
          /\ kbd' = [kbd EXCEPT !.queue = Append(@, key)]
    BY <1>8 DEF Type
  <2>2. kbd' \in KeyboardType
    <3>1. key \in AllBytes
      BY DEF AllBytes, KbdBytes, Keys
    <3>2. Append(kbd.queue, key) \in Seq(AllBytes)
      BY <1>2, <3>1
    <3> QED BY <1>1, <2>1, <3>2, Updated
  <2>3. used' \in UsedType /\ used'.typed # 0
    <3>1. used.typed \in Nat /\ used.resends \in Nat /\ used.lookalike \in BOOLEAN
      BY <1>1 DEF UsedType
    <3>2. PICK n \in Nat : n = used.typed + 1 /\ n # 0
      BY <3>1
    <3>3. PICK f \in BOOLEAN : f = (used.lookalike \/ key \in Lookalikes)
      BY <3>1
    <3>4. used' = [used EXCEPT !.typed = n, !.lookalike = f]
      BY <2>1, <3>2, <3>3
    <3>5. used'.typed = n /\ used' \in UsedType
      BY <1>1, <3>4 DEF UsedType
    <3> QED BY <3>2, <3>5
  <2> QED BY <1>1, <1>8, <2>2, <2>3 DEF Type, Types, driver
<1> QED BY <1>3, <1>4, <1>5, <1>6, <1>7, <1>8 DEF Controller
-----------------------------------------------------------------------------
(* The invariant holds at first. *)
LEMMA InitIInv == Init => IInv
<1> SUFFICES ASSUME Init PROVE IInv
  OBVIOUS
<1>1. /\ at = "disable_1" /\ result = "running" /\ config_byte = {}
      /\ input = [full |-> FALSE, command |-> FALSE, byte |-> {}]
      /\ output = [full |-> FALSE, byte |-> KeyByte, kbd |-> TRUE]
      /\ used = [typed |-> 0, resends |-> 0, lookalike |-> FALSE] /\ late = FALSE
  BY DEF Init
<1>2. PICK c \in Configs : ctl = [config |-> c, owed |-> <<>>, awaits |-> FALSE]
  BY DEF Init
<1>3. PICK n \in ScanSets, d \in BOOLEAN :
        kbd = [set |-> n, queue |-> <<>>, awaits |-> FALSE, discards |-> d]
  BY DEF Init
<1>4. KeyByte \in Byte /\ {} \in Byte /\ c \in Byte /\ n \in 1..3 /\ KeyByte # CONTLR_SELF_TEST_OK
  BY Bytes, BytesDiffer, Ps2Assumption DEF AllBytes, KbdBytes, Byte
<1>5. Len(ctl.owed) = 0 /\ Len(kbd.queue) = 0 /\ 1..0 = {}
  <2>1. ctl.owed = <<>> /\ kbd.queue = <<>>
    BY <1>2, <1>3
  <2> QED BY <2>1
<1>6. Types
  <2>1. output \in OutputType
    BY <1>1, <1>4 DEF OutputType
  <2>2. ctl \in ControllerType
    BY <1>2, <1>4 DEF ControllerType
  <2>3. kbd \in KeyboardType
    BY <1>3, <1>4 DEF KeyboardType
  <2>4. used \in UsedType /\ ~used.lookalike
    BY <1>1 DEF UsedType
  <2> QED BY <1>1, <1>4, <2>1, <2>2, <2>3, <2>4 DEF Types, Labels
<1>7. InputInv
  BY <1>1 DEF InputInv, Start
<1>8. OwedInv
  BY <1>1, <1>4, <1>5 DEF OwedInv, Without, Start, Configuring, Checking, Resetting, Polling, Final
<1>9. LengthInv
  <2>1. AskedUpTo(at) = 0
    BY <1>1 DEF AskedUpTo, Start, Configuring
  <2>2. Pending = 0
    BY <1>1 DEF Pending
  <2> QED BY <1>5, <2>1, <2>2 DEF LengthInv
<1>10. PolledInv
  BY <1>1, <1>5 DEF PolledInv, Polling, Final
<1>11. ForgetInv
  BY <1>1, <1>5 DEF ForgetInv
<1>12. ConfigInv
  BY <1>1 DEF ConfigInv, Resetting, Polling, Final
<1>13. Plain
  BY <1>5 DEF Plain
<1> QED BY <1>6, <1>7, <1>8, <1>9, <1>10, <1>11, <1>12, <1>13 DEF IInv, BytesInv

-----------------------------------------------------------------------------
(* What waits in the input buffer, and what the driver writes as the       *)
(* configuration.                                                          *)
LEMMA ConfigMeant ==
  ASSUME NEW b
  PROVE  /\ SYSTEM_FLAG \in NewConfig(b) /\ PORT2_CLK_DISABLE \in NewConfig(b)
         /\ PORT2_INT_EN \notin NewConfig(b) /\ PORT1_CLK_DISABLE \notin NewConfig(b)
         /\ PORT1_INT_EN \in NewConfig(b) <=> irq_enable
<1> DEFINE on == (b \cup {PORT2_CLK_DISABLE, SYSTEM_FLAG})
                   \ {PORT1_CLK_DISABLE, PORT1_INT_EN, PORT2_INT_EN}
<1>1. /\ SYSTEM_FLAG \in on /\ PORT2_CLK_DISABLE \in on /\ PORT2_INT_EN \notin on
      /\ PORT1_INT_EN \notin on /\ PORT1_INT_EN # PORT2_INT_EN
      /\ PORT1_CLK_DISABLE \notin on /\ PORT1_CLK_DISABLE # PORT1_INT_EN
  BY DEF SYSTEM_FLAG, PORT2_CLK_DISABLE, PORT2_INT_EN, PORT1_INT_EN, PORT1_CLK_DISABLE
<1>2. NewConfig(b) = on \cup (IF irq_enable THEN {PORT1_INT_EN} ELSE {})
  BY DEF NewConfig
<1> HIDE DEF on
<1>3. CASE irq_enable
  BY <1>1, <1>2, <1>3
<1>4. CASE ~irq_enable
  BY <1>1, <1>2, <1>4
<1> QED BY <1>3, <1>4

LEMMA InputByDriver ==
  ASSUME InputInv, Driver
  PROVE  InputInv'
<1> USE DEF InputInv, Waiting, Command, Data
<1>1. CASE Writes
  BY <1>1 DEF Writes, Write, Start
<1>2. CASE PolledWrites
  BY <1>2 DEF PolledWrites, Write, Start
<1>3. CASE Reads
  BY <1>3 DEF Reads, Read, Start
<1>4. CASE PolledReads
  BY <1>4 DEF PolledReads, Read, Start
<1>5. CASE ReadConfig
  <2>1. LET c == NewConfig(output.byte)
        IN  /\ SYSTEM_FLAG \in c /\ PORT2_CLK_DISABLE \in c /\ PORT2_INT_EN \notin c
            /\ PORT1_CLK_DISABLE \notin c
            /\ PORT1_INT_EN \in c <=> irq_enable
    BY ConfigMeant
  <2> QED BY <1>5, <2>1 DEF ReadConfig, Read, Start
<1>6. CASE Enable
  BY <1>6 DEF Enable, Start
<1> QED BY <1>1, <1>2, <1>3, <1>4, <1>5, <1>6, DriverSteps

LEMMA InputByController ==
  ASSUME Types, InputInv, Controller \/ Type
  PROVE  InputInv'
<1>1. \/ input'.full = FALSE
      \/ input' = input
  <2>1. input \in [full : BOOLEAN, command : BOOLEAN, byte : Byte \cup Commands]
    BY DEF Types
  <2> QED BY <2>1 DEF Controller, Type, TakeCommand, TakeConfig, Forward, Garbled, ForKeyboard,
              Answer, KeyboardSends
<1>2. UNCHANGED driver
  BY DEF Controller, Type, TakeCommand, TakeConfig, Forward, Garbled, Answer, KeyboardSends
<1> QED BY <1>1, <1>2 DEF InputInv, Waiting, driver
(* The other way round: where the driver is while a byte waits. *)
WhileCommand(c) ==
  CASE c = "PORT_1_DISABLE"   -> {"disable_2"}
    [] c = "PORT_2_DISABLE"   -> {"flush", "flush_again", "ask_config"}
    [] c = "READ_BYTE_0"      -> {"config", "send_config", "config_again", "resend_config",
                                  "test_port"}
    [] c = "WRITE_BYTE_0"     -> {"new_config", "old_config"}
    [] c = "CONTLR_SELF_TEST" -> {"tested", "ask_config_again"}
    [] c = "PORT_1_SELF_TEST" -> {"port_tested", "reset_port"}
    [] c = "PORT1_RESET"      -> {"port_reset", "set"}
    [] c = "PORT_1_ENABLE"    -> {"enable_1"}

LEMMA WhileWaiting ==
  ASSUME Types, InputInv, input.full
  PROVE  /\ input.command => input.byte \in Commands /\ at \in WhileCommand(input.byte)
         /\ ~input.command =>
              \/ at \in {"test", "test_port"} /\ input.byte = config_byte
              \/ at \in {"to_set_2", "which_set"} /\ input.byte = KBD_CMD_GET_SET_SCAN_CODE_SET
              \/ at \in {"set", "set_answer", "get"} /\ input.byte = KBD_SCAN_CODE_SET_2
              \/ at \in Final /\ input.byte = KBD_CMD_GET_SCAN_CODE_SET
<1> DEFINE Goal ==
      /\ input.command => input.byte \in Commands /\ at \in WhileCommand(input.byte)
      /\ ~input.command =>
           \/ at \in {"test", "test_port"} /\ input.byte = config_byte
           \/ at \in {"to_set_2", "which_set"} /\ input.byte = KBD_CMD_GET_SET_SCAN_CODE_SET
           \/ at \in {"set", "set_answer", "get"} /\ input.byte = KBD_SCAN_CODE_SET_2
           \/ at \in Final /\ input.byte = KBD_CMD_GET_SCAN_CODE_SET
<1>1. at \in Labels /\ input \in Waiting(at)
  BY DEF Types, InputInv
<1>2. \A c \in Commands : input = Command(c) /\ at \in WhileCommand(c) => Goal
  BY DEF Command
<1>3. \A b : Data(b).byte = b /\ Data(b).command = FALSE
  BY DEF Data
<1>4. CASE at = "disable_1"
  <2>1. Waiting(at) = {}
    BY <1>4 DEF Waiting
  <2> QED BY <1>1, <1>2, <1>3, <1>4, <2>1 DEF Final
<1>5. CASE at = "disable_2"
  <2>1. Waiting(at) = {Command("PORT_1_DISABLE")}
    BY <1>5 DEF Waiting
  <2>2. at \in WhileCommand("PORT_1_DISABLE") /\ "PORT_1_DISABLE" \in Commands
    BY <1>5 DEF WhileCommand, Commands
  <2> QED BY <1>1, <1>2, <1>3, <1>5, <2>1, <2>2 DEF Final
<1>6. CASE at \in {"flush", "flush_again", "ask_config"}
  <2>1. Waiting(at) = {Command("PORT_2_DISABLE")}
    BY <1>6 DEF Waiting
  <2>2. at \in WhileCommand("PORT_2_DISABLE") /\ "PORT_2_DISABLE" \in Commands
    BY <1>6 DEF WhileCommand, Commands
  <2> QED BY <1>1, <1>2, <1>3, <1>6, <2>1, <2>2 DEF Final
<1>7. CASE at \in {"config", "send_config", "config_again", "resend_config"}
  <2>1. Waiting(at) = {Command("READ_BYTE_0")}
    BY <1>7 DEF Waiting
  <2>2. at \in WhileCommand("READ_BYTE_0") /\ "READ_BYTE_0" \in Commands
    BY <1>7 DEF WhileCommand, Commands
  <2> QED BY <1>1, <1>2, <1>3, <1>7, <2>1, <2>2 DEF Final
<1>8. CASE at \in {"new_config", "old_config"}
  <2>1. Waiting(at) = {Command("WRITE_BYTE_0")}
    BY <1>8 DEF Waiting
  <2>2. at \in WhileCommand("WRITE_BYTE_0") /\ "WRITE_BYTE_0" \in Commands
    BY <1>8 DEF WhileCommand, Commands
  <2> QED BY <1>1, <1>2, <1>3, <1>8, <2>1, <2>2 DEF Final
<1>9. CASE at = "test"
  <2>1. Waiting(at) = {Data(config_byte)}
    BY <1>9 DEF Waiting
  <2> QED BY <1>1, <1>2, <1>3, <1>9, <2>1 DEF Final
<1>10. CASE at \in {"tested", "ask_config_again"}
  <2>1. Waiting(at) = {Command("CONTLR_SELF_TEST")}
    BY <1>10 DEF Waiting
  <2>2. at \in WhileCommand("CONTLR_SELF_TEST") /\ "CONTLR_SELF_TEST" \in Commands
    BY <1>10 DEF WhileCommand, Commands
  <2> QED BY <1>1, <1>2, <1>3, <1>10, <2>1, <2>2 DEF Final
<1>11. CASE at = "test_port"
  <2>1. Waiting(at) = {Command("READ_BYTE_0"), Data(config_byte)}
    BY <1>11 DEF Waiting
  <2>2. at \in WhileCommand("READ_BYTE_0") /\ "READ_BYTE_0" \in Commands
    BY <1>11 DEF WhileCommand, Commands
  <2> QED BY <1>1, <1>2, <1>3, <1>11, <2>1, <2>2 DEF Final
<1>12. CASE at \in {"port_tested", "reset_port"}
  <2>1. Waiting(at) = {Command("PORT_1_SELF_TEST")}
    BY <1>12 DEF Waiting
  <2>2. at \in WhileCommand("PORT_1_SELF_TEST") /\ "PORT_1_SELF_TEST" \in Commands
    BY <1>12 DEF WhileCommand, Commands
  <2> QED BY <1>1, <1>2, <1>3, <1>12, <2>1, <2>2 DEF Final
<1>13. CASE at = "port_reset"
  <2>1. Waiting(at) = {Command("PORT1_RESET")}
    BY <1>13 DEF Waiting
  <2>2. at \in WhileCommand("PORT1_RESET") /\ "PORT1_RESET" \in Commands
    BY <1>13 DEF WhileCommand, Commands
  <2> QED BY <1>1, <1>2, <1>3, <1>13, <2>1, <2>2 DEF Final
<1>14. CASE at = "set"
  <2>1. Waiting(at) = {Command("PORT1_RESET"), Data(KBD_SCAN_CODE_SET_2)}
    BY <1>14 DEF Waiting
  <2>2. at \in WhileCommand("PORT1_RESET") /\ "PORT1_RESET" \in Commands
    BY <1>14 DEF WhileCommand, Commands
  <2> QED BY <1>1, <1>2, <1>3, <1>14, <2>1, <2>2 DEF Final
<1>15. CASE at \in {"to_set_2", "which_set"}
  <2>1. Waiting(at) = {Data(KBD_CMD_GET_SET_SCAN_CODE_SET)}
    BY <1>15 DEF Waiting
  <2> QED BY <1>1, <1>2, <1>3, <1>15, <2>1 DEF Final
<1>16. CASE at \in {"set_answer", "get"}
  <2>1. Waiting(at) = {Data(KBD_SCAN_CODE_SET_2)}
    BY <1>16 DEF Waiting
  <2> QED BY <1>1, <1>2, <1>3, <1>16, <2>1 DEF Final
<1>17. CASE at \in {"get_answer", "set_got"}
  <2>1. Waiting(at) = {Data(KBD_CMD_GET_SCAN_CODE_SET)}
    BY <1>17 DEF Waiting
  <2> QED BY <1>1, <1>2, <1>3, <1>17, <2>1 DEF Final
<1>18. CASE at = "enable_1"
  <2>1. Waiting(at) = {Data(KBD_CMD_GET_SCAN_CODE_SET), Command("PORT_1_ENABLE")}
    BY <1>18 DEF Waiting
  <2>2. at \in WhileCommand("PORT_1_ENABLE") /\ "PORT_1_ENABLE" \in Commands
    BY <1>18 DEF WhileCommand, Commands
  <2> QED BY <1>1, <1>2, <1>3, <1>18, <2>1, <2>2 DEF Final
<1> QED BY <1>1, <1>4, <1>5, <1>6, <1>7, <1>8, <1>9, <1>10, <1>11, <1>12, <1>13, <1>14, <1>15, <1>16, <1>17, <1>18 DEF Labels

-----------------------------------------------------------------------------
(* The answers owed: one is added behind, or the first one is given. *)
LEMMA OneMoreOwed ==
  ASSUME NEW owed \in Seq(Byte), NEW last, NEW b, NEW new \in Byte
  PROVE  /\ Without(owed, last, b) => Behind(Append(owed, new), last, b)
         /\ Without(owed, last, b) /\ new # b => Without(Append(owed, new), last, b)
         /\ Behind(owed, last, b) /\ new = b => Behind(Append(owed, new), last, b)
         /\ Only(owed, b) /\ new = b => Only(Append(owed, new), b)
<1> DEFINE q == Append(owed, new)
<1>1. /\ Len(owed) \in Nat /\ Len(q) = Len(owed) + 1 /\ q[Len(owed) + 1] = new
      /\ \A i \in 1..Len(owed) : q[i] = owed[i]
  OBVIOUS
<1> HIDE DEF q
<1>2. \A i \in 1..Len(q) : q[i] = new \/ (i \in 1..Len(owed) /\ q[i] = owed[i])
  BY <1>1
<1>3. ASSUME Without(owed, last, b) PROVE Behind(q, last, b)
  <2>1. ASSUME NEW i \in 1..Len(q), NEW j \in 1..Len(q), i < j, q[i] = b PROVE q[j] = b
    <3>1. i \in 1..Len(owed)
      BY <1>1, <2>1
    <3> QED BY <1>1, <1>3, <2>1, <3>1 DEF Without
  <2> QED BY <1>3, <2>1 DEF Behind, Without
<1>4. Without(owed, last, b) /\ new # b => Without(q, last, b)
  BY <1>2 DEF Without
<1>5. ASSUME Only(owed, b), new = b PROVE Only(q, b)
  BY <1>2, <1>5 DEF Only
<1>6. ASSUME Behind(owed, last, b), new = b PROVE Behind(q, last, b)
  <2>1. ASSUME NEW i \in 1..Len(q), NEW j \in 1..Len(q), i < j, q[i] = b PROVE q[j] = b
    <3>1. CASE j \in 1..Len(owed)
      <4>1. i \in 1..Len(owed) /\ owed[i] = b
        BY <1>1, <2>1, <3>1
      <4> QED BY <1>1, <1>6, <2>1, <3>1, <4>1 DEF Behind
    <3>2. CASE j \notin 1..Len(owed)
      BY <1>2, <1>6, <3>2
    <3> QED BY <3>1, <3>2
  <2> QED BY <1>5, <1>6, <2>1 DEF Behind
<1> QED BY <1>3, <1>4, <1>5, <1>6 DEF q

LEMMA OneLessOwed ==
  ASSUME NEW owed \in Seq(Byte), owed # <<>>, NEW last, NEW b
  PROVE  /\ Behind(owed, last, b) => Behind(Tail(owed), Head(owed), b)
         /\ Without(owed, last, b) => Without(Tail(owed), Head(owed), b)
         /\ Only(owed, b) => Only(Tail(owed), b) /\ Head(owed) = b
<1> DEFINE q == Tail(owed)
           h == Head(owed)
<1>1. /\ Len(owed) \in Nat \ {0} /\ Len(q) = Len(owed) - 1 /\ h = owed[1]
      /\ \A i \in 1..Len(q) : q[i] = owed[i + 1]
  OBVIOUS
<1> HIDE DEF q, h
<1>2. /\ 1 \in 1..Len(owed)
      /\ \A i \in 1..Len(q) : i + 1 \in 1..Len(owed) /\ 1 < i + 1 /\ q[i] = owed[i + 1]
  BY <1>1
<1>3. Only(owed, b) => Only(q, b) /\ h = b
  BY <1>1, <1>2 DEF Only
<1>4. Without(owed, last, b) => Without(q, h, b)
  BY <1>1, <1>2 DEF Without
<1>5. ASSUME Behind(owed, last, b) PROVE Behind(q, h, b)
  <2>1. ASSUME NEW i \in 1..Len(q), NEW j \in 1..Len(q), i < j, q[i] = b PROVE q[j] = b
    <3>1. i + 1 < j + 1
      BY <2>1
    <3>2. /\ i + 1 \in 1..Len(owed) /\ j + 1 \in 1..Len(owed)
          /\ owed[i + 1] = b /\ q[j] = owed[j + 1]
      BY <1>2, <2>1
    <3>3. \A k, l \in 1..Len(owed) : k < l /\ owed[k] = b => owed[l] = b
      BY <1>5 DEF Behind
    <3> QED BY <3>1, <3>2, <3>3
  <2>2. ASSUME h = b PROVE Only(q, b)
    BY <1>1, <1>2, <1>5, <2>2 DEF Behind, Only
  <2> QED BY <2>1, <2>2 DEF Behind
<1> QED BY <1>3, <1>4, <1>5 DEF q, h

LEMMA OtherByte ==
  ASSUME NEW owed, NEW last, NEW b, NEW new, new # b
  PROVE  /\ Behind(owed, last, b) => Behind(owed, new, b)
         /\ Without(owed, last, b) => Without(owed, new, b)
         /\ Without(owed, last, b) => Behind(owed, last, b)
  BY DEF Behind, Without

(* No answer overtakes another. *)
LEMMA OwedByDriver ==
  ASSUME Types, OwedInv, Driver
  PROVE  OwedInv'
<1> USE DEF Start, Configuring, Checking, Resetting, Polling, Final, Asked
<1>1. /\ Without(ctl.owed, output.byte, CONTLR_SELF_TEST_OK) =>
           Behind(ctl.owed, output.byte, CONTLR_SELF_TEST_OK)
      /\ Behind(ctl.owed, output.byte, CONTLR_SELF_TEST_OK) /\ output.byte = CONTLR_SELF_TEST_OK =>
           Without(ctl.owed, output.byte, PORT_1_SELF_TEST_OK)
      /\ Without(ctl.owed, output.byte, PORT_1_SELF_TEST_OK) =>
           Behind(ctl.owed, output.byte, PORT_1_SELF_TEST_OK)
      /\ Behind(ctl.owed, output.byte, PORT_1_SELF_TEST_OK) /\ output.byte = PORT_1_SELF_TEST_OK =>
           Only(ctl.owed, PORT_1_SELF_TEST_OK)
  BY BytesDiffer DEF Without, Behind, Only
<1>2. UNCHANGED ctl /\ output'.byte = output.byte
  BY DriverKeeps
<1>3. CASE Writes
  <2>1. \/ at \in Start /\ at' \in Start
        \/ at \in Start /\ at' \in Configuring
        \/ at \in Configuring /\ at' \in Configuring /\ ~Asked'
        \/ at \in Checking /\ at' \in Checking \ {"ask_config_again"} /\ ~Asked'
        \/ at = "ask_config_again" /\ at' = "config_again"
        \/ at \in Resetting /\ at' \in Resetting
    <3>1. \A here, b, next : Write(here, FALSE, b, next) =>
                             at = here /\ at' = next /\ ~Asked'
      BY DEF Write
    <3>2. \A here, b, next : Write(here, TRUE, b, next) /\ b # "READ_BYTE_0" =>
                             at = here /\ at' = next /\ ~Asked'
      BY DEF Write
    <3>3. \A here, b, next : Write(here, TRUE, b, next) => at = here /\ at' = next
      BY DEF Write
    <3> HIDE DEF Asked
    <3>4. CASE Write("disable_1", TRUE, "PORT_1_DISABLE", "disable_2")
      BY <3>1, <3>2, <3>3, <3>4
    <3>5. CASE Write("disable_2", TRUE, "PORT_2_DISABLE", "flush")
      BY <3>1, <3>2, <3>3, <3>5
    <3>6. CASE Write("ask_config", TRUE, "READ_BYTE_0", "config")
      BY <3>1, <3>2, <3>3, <3>6
    <3>7. CASE Write("send_config", TRUE, "WRITE_BYTE_0", "new_config")
      BY <3>1, <3>2, <3>3, <3>7
    <3>8. CASE Write("new_config", FALSE, config_byte, "test")
      BY <3>1, <3>2, <3>3, <3>8
    <3>9. CASE Write("test", TRUE, "CONTLR_SELF_TEST", "tested")
      BY <3>1, <3>2, <3>3, <3>9
    <3>10. CASE Write("ask_config_again", TRUE, "READ_BYTE_0", "config_again")
      BY <3>1, <3>2, <3>3, <3>10
    <3>11. CASE Write("resend_config", TRUE, "WRITE_BYTE_0", "old_config")
      BY <3>1, <3>2, <3>3, <3>11
    <3>12. CASE Write("old_config", FALSE, config_byte, "test_port")
      <4>1. at = "old_config" /\ at' = "test_port" /\ ~Asked'
        BY <3>1, <3>12
      <4>2. at \in Checking /\ at' \in Checking \ {"ask_config_again"}
        BY <4>1
      <4> QED BY <4>1, <4>2
    <3>13. CASE Write("test_port", TRUE, "PORT_1_SELF_TEST", "port_tested")
      BY <3>1, <3>2, <3>3, <3>13
    <3>14. CASE Write("reset_port", TRUE, "PORT1_RESET", "port_reset")
      BY <3>1, <3>2, <3>3, <3>14
    <3> QED BY <1>3, <3>4, <3>5, <3>6, <3>7, <3>8, <3>9, <3>10, <3>11, <3>12, <3>13, <3>14 DEF Writes
  <2> QED BY <1>1, <1>2, <2>1 DEF OwedInv
<1>4. CASE PolledWrites
  BY <1>2, <1>4 DEF PolledWrites, Write, OwedInv
<1>5. CASE Reads
  BY <1>1, <1>2, <1>5 DEF Reads, Read, OwedInv
<1>6. CASE PolledReads
  BY <1>2, <1>6 DEF PolledReads, Read, OwedInv
<1>7. CASE ReadConfig
  BY <1>1, <1>2, <1>7 DEF ReadConfig, Read, OwedInv
<1>8. CASE Enable
  BY <1>2, <1>8 DEF Enable, OwedInv
<1> QED BY <1>3, <1>4, <1>5, <1>6, <1>7, <1>8, DriverSteps
LEMMA OwedByController ==
  ASSUME Types, Plain, InputInv, OwedInv, Controller \/ Type
  PROVE  OwedInv'
<1> USE DEF Start, Configuring, Checking, Resetting, Polling, Final, Asked
<1>1. /\ output \in OutputType /\ ctl \in ControllerType /\ kbd \in KeyboardType
      /\ ctl.owed \in Seq(Byte) /\ ctl.config \in Byte /\ kbd.queue \in Seq(AllBytes)
      /\ input \in [full : BOOLEAN, command : BOOLEAN, byte : Byte \cup Commands]
      /\ at \in Labels
  BY Fields DEF Types
<1> DEFINE ok == CONTLR_SELF_TEST_OK
           p == PORT_1_SELF_TEST_OK
<1>2. ok \in Byte /\ p \in Byte /\ ok # p
  BY Bytes, BytesDiffer
<1>3. \A owed, last, b : Without(owed, last, b) => Behind(owed, last, b)
  BY DEF Behind, Without
<1> HIDE DEF ok, p
<1>4. CASE TakeCommand
  <2>1. /\ input \in Waiting(at) /\ at' = at /\ output' = output /\ ~Asked'
        /\ ctl'.owed = Owed(input.byte, ctl.config, ctl.owed)
    BY <1>1, <1>4, CommandTaken DEF InputInv, driver
  <2>2. CASE input.byte = "READ_BYTE_0"
    <3>1. Asked /\ ctl'.owed = Append(ctl.owed, ctl.config)
      BY <1>1, <1>4, <2>1, <2>2, CommandTaken DEF Owed
    <3>2. at \in {"config", "send_config", "config_again", "resend_config", "test_port"}
      BY <1>1, <1>4, <2>2, CommandTaken, WhileWaiting DEF WhileCommand
    <3>3. \A b : Without(ctl.owed, output.byte, b) => Behind(ctl'.owed, output.byte, b)
      BY <1>1, <3>1, OneMoreOwed
    <3> QED BY <2>1, <3>1, <3>2, <3>3 DEF OwedInv
  <2>3. CASE input.byte = "CONTLR_SELF_TEST"
    <3>1. ~Asked /\ ctl'.owed = Append(ctl.owed, ok)
      BY <1>1, <1>4, <2>1, <2>3, CommandTaken DEF Owed, ok
    <3>2. at \in {"tested", "ask_config_again"}
      BY <1>1, <1>4, <2>3, CommandTaken, WhileWaiting DEF WhileCommand
    <3>3. CASE at = "tested"
      <4>1. Behind(ctl.owed, output.byte, ok)
        BY <3>3 DEF OwedInv, ok
      <4>2. Behind(ctl'.owed, output.byte, ok)
        BY <1>1, <1>2, <3>1, <4>1, OneMoreOwed
      <4> QED BY <2>1, <3>3, <4>2 DEF OwedInv, ok
    <3>4. CASE at = "ask_config_again"
      <4>1. Without(ctl.owed, output.byte, p)
        BY <3>4 DEF OwedInv, p
      <4>2. Without(ctl'.owed, output.byte, p)
        BY <1>1, <1>2, <3>1, <4>1, OneMoreOwed
      <4> QED BY <1>3, <2>1, <3>4, <4>2 DEF OwedInv, p
    <3> QED BY <3>2, <3>3, <3>4
  <2>4. CASE input.byte = "PORT_1_SELF_TEST"
    <3>1. ctl'.owed = Append(ctl.owed, p)
      BY <1>1, <1>4, <2>1, <2>4, CommandTaken DEF Owed, p
    <3>2. at \in {"port_tested", "reset_port"}
      BY <1>1, <1>4, <2>4, CommandTaken, WhileWaiting DEF WhileCommand
    <3>3. /\ Behind(ctl.owed, output.byte, p) => Behind(ctl'.owed, output.byte, p)
          /\ Only(ctl.owed, p) => Only(ctl'.owed, p)
      BY <1>1, <1>2, <3>1, OneMoreOwed
    <3> QED BY <2>1, <3>2, <3>3 DEF OwedInv, p
  <2>5. CASE input.byte \notin {"READ_BYTE_0", "CONTLR_SELF_TEST", "PORT_1_SELF_TEST"}
    <3>1. ctl'.owed = ctl.owed
      BY <2>1, <2>5 DEF Owed
    <3> QED BY <2>1, <3>1 DEF OwedInv
  <2> QED BY <2>2, <2>3, <2>4, <2>5
<1>5. CASE TakeConfig \/ Forward \/ Garbled
  <2>1. at' = at /\ ~Asked' /\ output'.byte = output.byte /\ ctl'.owed = ctl.owed
    <3>1. CASE TakeConfig
      BY <1>1, <3>1 DEF TakeConfig, driver, ControllerType
    <3>2. CASE Forward \/ Garbled
      BY <1>1, <3>2, ByteForwarded DEF driver, ControllerType, OutputType
    <3> QED BY <1>5, <3>1, <3>2
  <2> QED BY <2>1 DEF OwedInv
<1>6. CASE Answer
  <2>1. /\ at' = at /\ input' = input /\ ctl.owed # <<>>
        /\ ctl'.owed = Tail(ctl.owed) /\ output'.byte = Head(ctl.owed)
    BY <1>1, <1>6 DEF Answer, driver, ControllerType
  <2>2. /\ \A last, b : Behind(ctl.owed, last, b) => Behind(ctl'.owed, output'.byte, b)
        /\ \A last, b : Without(ctl.owed, last, b) => Without(ctl'.owed, output'.byte, b)
        /\ \A b : Only(ctl.owed, b) => Only(ctl'.owed, b)
    BY <1>1, <2>1, OneLessOwed
  <2> QED BY <2>1, <2>2 DEF OwedInv
<1>7. CASE KeyboardSends
  <2>1. /\ at' = at /\ input' = input /\ ctl' = ctl
        /\ output'.byte = Sent(Head(kbd.queue)) /\ Head(kbd.queue) \in KbdBytes
    <3>1. 1 \in 1..Len(kbd.queue) /\ Head(kbd.queue) = kbd.queue[1]
      BY <1>1, <1>7 DEF KeyboardSends
    <3> QED BY <1>7, <3>1 DEF KeyboardSends, driver, Plain
  <2>2. output'.byte # ok /\ output'.byte # p
    BY <2>1, BytesDiffer DEF Sent, ok, p
  <2>3. \A b \in {ok, p} :
          /\ Behind(ctl.owed, output.byte, b) => Behind(ctl.owed, output'.byte, b)
          /\ Without(ctl.owed, output.byte, b) => Without(ctl.owed, output'.byte, b)
    BY <2>2, OtherByte
  <2> QED BY <2>1, <2>3 DEF OwedInv, ok, p
<1>8. CASE Type
  BY <1>8 DEF Type, driver, OwedInv
<1> QED BY <1>4, <1>5, <1>6, <1>7, <1>8 DEF Controller
-----------------------------------------------------------------------------
(* No more answers are owed than were asked for. *)
LEMMA Table ==
  ASSUME NEW l
  PROVE  /\ l \in Start => AskedUpTo(l) = 0
         /\ l \in {"config", "send_config", "new_config", "test"} => AskedUpTo(l) = 1
         /\ l \in {"tested", "ask_config_again"} => AskedUpTo(l) = 2
         /\ l \in {"config_again", "resend_config", "old_config", "test_port"} => AskedUpTo(l) = 3
         /\ l \in {"port_tested"} \cup Resetting \cup Polling \cup Final => AskedUpTo(l) = 4
  BY DEF AskedUpTo, Start, Configuring, Resetting, Polling, Final

LEMMA LengthByDriver ==
  ASSUME Types, LengthInv, Driver
  PROVE  LengthInv'
<1> USE DEF Start, Resetting, Polling, Final
<1>1. Pending \in 0..1 /\ Pending' \in 0..1 /\ Len(ctl.owed) \in Nat
  <2>1. ctl.owed \in Seq(Byte)
    BY Fields DEF Types
  <2> QED BY <2>1 DEF Pending
<1>2. UNCHANGED ctl
  BY DriverKeeps
<1>3. CASE Writes
  <2>1. \A here, next : \A c \in Commands \ Asking : Write(here, TRUE, c, next) =>
                        at = here /\ at' = next /\ Pending' = 0
    BY DEF Write, Pending
  <2>2. \A here, b, next : Write(here, FALSE, b, next) =>
                           at = here /\ at' = next /\ Pending' = 0
    BY DEF Write, Pending
  <2>3. \A here, b, next : Write(here, TRUE, b, next) => at = here /\ at' = next
    BY DEF Write
  <2>4. \/ /\ Pending' = 0
           /\ \/ at \in Start /\ at' \in Start
              \/ /\ at \in {"config", "send_config", "new_config", "test"}
                 /\ at' \in {"config", "send_config", "new_config", "test"}
              \/ /\ at \in {"resend_config", "old_config", "test_port"}
                 /\ at' \in {"resend_config", "old_config", "test_port"}
              \/ at \in Resetting /\ at' \in Resetting
        \/ at = "ask_config" /\ at' = "config"
        \/ at = "test" /\ at' = "tested"
        \/ at = "ask_config_again" /\ at' = "config_again"
        \/ at = "test_port" /\ at' = "port_tested"
    BY <1>3, <2>1, <2>2, <2>3 DEF Writes, Commands, Asking
  <2>5. \/ Pending' = 0 /\ AskedUpTo(at') = AskedUpTo(at)
        \/ AskedUpTo(at') = AskedUpTo(at) + 1
    <3>1. CASE Pending' = 0 /\ at \in Start /\ at' \in Start
      BY <3>1, Table
    <3>2. CASE /\ Pending' = 0
               /\ at \in {"config", "send_config", "new_config", "test"}
               /\ at' \in {"config", "send_config", "new_config", "test"}
      <4>1. AskedUpTo(at) = 1 /\ AskedUpTo(at') = 1
        BY <3>2, Table
      <4> QED BY <3>2, <4>1
    <3>3. CASE /\ Pending' = 0
               /\ at \in {"resend_config", "old_config", "test_port"}
               /\ at' \in {"resend_config", "old_config", "test_port"}
      <4>1. AskedUpTo(at) = 3 /\ AskedUpTo(at') = 3
        BY <3>3, Table
      <4> QED BY <3>3, <4>1
    <3>4. CASE Pending' = 0 /\ at \in Resetting /\ at' \in Resetting
      BY <3>4, Table
    <3>5. CASE at = "ask_config" /\ at' = "config"
      <4>1. AskedUpTo(at) = 0 /\ AskedUpTo(at') = 1
        BY <3>5, Table
      <4> QED BY <4>1
    <3>6. CASE at = "test" /\ at' = "tested"
      <4>1. AskedUpTo(at) = 1 /\ AskedUpTo(at') = 2
        BY <3>6, Table
      <4> QED BY <4>1
    <3>7. CASE at = "ask_config_again" /\ at' = "config_again"
      <4>1. AskedUpTo(at) = 2 /\ AskedUpTo(at') = 3
        BY <3>7, Table
      <4> QED BY <4>1
    <3>8. CASE at = "test_port" /\ at' = "port_tested"
      <4>1. AskedUpTo(at) = 3 /\ AskedUpTo(at') = 4
        BY <3>8, Table
      <4> QED BY <4>1
    <3> QED BY <2>4, <3>1, <3>2, <3>3, <3>4, <3>5, <3>6, <3>7, <3>8
  <2>6. AskedUpTo(at) \in Nat
    <3>1. AskedUpTo(at) \in {0, 1, 2, 3, 4}
      BY Table DEF Types, Labels
    <3> QED BY <3>1
  <2> QED BY <1>1, <1>2, <2>5, <2>6 DEF LengthInv
<1>4. CASE PolledWrites \/ Enable
  <2>1. Pending' = 0
    <3>1. \A here, b, next : Write(here, FALSE, b, next) => Pending' = 0
      BY DEF Write, Pending
    <3>2. Enable => Pending' = 0
      <4>1. ASSUME Enable PROVE input'.byte = "PORT_1_ENABLE"
        <5>1. input' = Command("PORT_1_ENABLE")
          BY <4>1 DEF Enable, Command
        <5>2. \A c : Command(c).byte = c
          BY DEF Command
        <5> QED BY <5>1, <5>2
      <4> QED BY <4>1 DEF Pending, Asking
    <3> QED BY <1>4, <3>1, <3>2 DEF PolledWrites
  <2>2. AskedUpTo(at') = 4 /\ AskedUpTo(at) = 4
    <3>1. at \in Polling \cup Final /\ at' \in Polling \cup Final
      BY <1>4 DEF PolledWrites, Enable, Write
    <3> QED BY <3>1, Table
  <2> QED BY <1>1, <1>2, <2>1, <2>2 DEF LengthInv
<1>5. CASE Reads \/ PolledReads \/ ReadConfig
  <2>1. Pending' = Pending
    BY <1>5 DEF Reads, PolledReads, ReadConfig, Read, Pending
  <2>2. \/ at \in Start /\ at' \in Start
        \/ at \in {"config", "send_config"} /\ at' \in {"config", "send_config"}
        \/ /\ at \in {"tested", "ask_config_again"} /\ at' \in {"tested", "ask_config_again"}
        \/ at = "config_again" /\ at' \in {"test_port", "resend_config"}
        \/ /\ at \in {"port_tested"} \cup Resetting \cup Polling \cup Final
           /\ at' \in {"port_tested"} \cup Resetting \cup Polling \cup Final
    BY <1>5 DEF Reads, PolledReads, ReadConfig, Read
  <2>3. AskedUpTo(at') = AskedUpTo(at)
    BY <2>2, Table
  <2> QED BY <1>2, <2>1, <2>3 DEF LengthInv
<1> QED BY <1>3, <1>4, <1>5, DriverSteps

LEMMA LengthByController ==
  ASSUME Types, LengthInv, Controller \/ Type
  PROVE  LengthInv'
<1>1. /\ ctl \in ControllerType /\ ctl.owed \in Seq(Byte) /\ ctl.config \in Byte
      /\ Len(ctl.owed) \in Nat /\ at \in Labels
      /\ input \in [full : BOOLEAN, command : BOOLEAN, byte : Byte \cup Commands]
  <2>1. ctl \in ControllerType /\ ctl.owed \in Seq(Byte) /\ ctl.config \in Byte
    BY Fields DEF Types
  <2> QED BY <2>1 DEF Types
<1>2. /\ Pending \in 0..1 /\ Pending' \in 0..1
      /\ AskedUpTo(at) \in Nat
  <2>1. AskedUpTo(at) \in {0, 1, 2, 3, 4}
    BY <1>1, Table DEF Labels, Start, Resetting, Polling, Final
  <2> QED BY <2>1 DEF Pending
<1>3. UNCHANGED at
  BY DEF Controller, Type, TakeCommand, TakeConfig, Forward, Garbled, Answer, KeyboardSends, driver
<1>4. CASE TakeCommand
  <2>1. /\ input.full /\ input.command /\ Pending' = 0
        /\ ctl'.owed = Owed(input.byte, ctl.config, ctl.owed)
    BY <1>1, <1>4, CommandTaken DEF Pending
  <2>2. CASE input.byte \in Asking
    <3>1. Pending = 1
      BY <2>1, <2>2 DEF Pending
    <3>2. PICK b \in Byte : ctl'.owed = Append(ctl.owed, b)
      BY <1>1, <2>1, <2>2, Bytes DEF Owed, Asking
    <3>3. Len(ctl'.owed) = Len(ctl.owed) + 1
      BY <1>1, <3>2
    <3> QED BY <1>1, <1>2, <1>3, <2>1, <3>1, <3>3 DEF LengthInv
  <2>3. CASE input.byte \notin Asking
    <3>1. ctl'.owed = ctl.owed
      BY <2>1, <2>3 DEF Owed, Asking
    <3> QED BY <1>1, <1>2, <1>3, <2>1, <3>1 DEF LengthInv
  <2> QED BY <2>2, <2>3
<1>5. CASE TakeConfig \/ Forward \/ Garbled
  <2>1. Pending' = 0 /\ ctl'.owed = ctl.owed
    <3>1. CASE TakeConfig
      BY <1>1, <3>1 DEF TakeConfig, ControllerType, Pending
    <3>2. CASE Forward \/ Garbled
      BY <1>1, <3>2, ByteForwarded DEF ControllerType, Pending
    <3> QED BY <1>5, <3>1, <3>2
  <2> QED BY <1>1, <1>2, <1>3, <2>1 DEF LengthInv
<1>6. CASE Answer
  <2>1. Pending' = Pending /\ ctl.owed # <<>> /\ ctl'.owed = Tail(ctl.owed)
    BY <1>1, <1>6 DEF Answer, ControllerType, Pending
  <2>2. Len(ctl'.owed) = Len(ctl.owed) - 1
    BY <1>1, <2>1
  <2> QED BY <1>1, <1>2, <1>3, <2>1, <2>2 DEF LengthInv
<1>7. CASE KeyboardSends \/ Type
  BY <1>3, <1>7 DEF KeyboardSends, Type, LengthInv, Pending
<1> QED BY <1>4, <1>5, <1>6, <1>7 DEF Controller
-----------------------------------------------------------------------------
(* What the driver polls for in the end. *)
LEMMA PolledByDriver ==
  ASSUME Types, PolledInv, Driver
  PROVE  PolledInv'
<1> USE DEF Polling, Final
<1>1. UNCHANGED <<ctl, kbd>> /\ output'.byte = output.byte
  BY DriverKeeps
<1>2. CASE Writes
  <2>1. at \notin Polling \cup Final /\ at' \notin Polling \cup Final
    BY <1>2 DEF Writes, Write
  <2> QED BY <1>1, <2>1 DEF PolledInv
<1>3. CASE PolledWrites
  <2>1. /\ ~input.full
        /\ \/ at = "set" /\ at' = "to_set_2" /\ input'.full
           \/ at = "to_set_2" /\ at' = "set_answer"
           \/ at = "get" /\ at' = "which_set"
           \/ at = "which_set" /\ at' = "get_answer"
    <3>1. \A here, b, next : Write(here, FALSE, b, next) => at = here /\ at' = next /\ input'.full
      BY DEF Write
    <3> QED BY <1>3, <3>1 DEF PolledWrites
  <2> QED BY <1>1, <2>1 DEF PolledInv
<1>4. CASE Reads \/ ReadConfig
  <2>1. /\ at \notin Polling \cup Final
        /\ at' \in Polling \cup Final => at' = "set" /\ output.byte = PORT_1_SELF_TEST_OK
    BY <1>4 DEF Reads, ReadConfig, Read
  <2>2. output.byte = PORT_1_SELF_TEST_OK => output.byte # SCAN_CODE_SET2
    BY BytesDiffer
  <2> QED BY <1>1, <2>1, <2>2 DEF PolledInv
<1>5. CASE PolledReads
  <2>1. \/ at = "set_answer" /\ at' \in {"set_answer", "set", "get"}
        \/ at = "get_answer" /\ at' \in {"get_answer", "set_got"}
        \/ at = "set_got" /\ at' = "set_got"
        \/ at = "set_got" /\ at' = "enable_1" /\ output.byte = SCAN_CODE_SET2
    BY <1>5 DEF PolledReads, Read
  <2> QED BY <1>1, <2>1 DEF PolledInv
<1>6. CASE Enable
  BY <1>1, <1>6 DEF Enable, PolledInv
<1> QED BY <1>2, <1>3, <1>4, <1>5, <1>6, DriverSteps

LEMMA PolledByController ==
  ASSUME Types, Plain, InputInv, OwedInv, PolledInv, Controller \/ Type
  PROVE  PolledInv'
<1> USE DEF Polling, Final
<1>1. /\ output \in OutputType /\ ctl \in ControllerType /\ kbd \in KeyboardType
      /\ ctl.owed \in Seq(Byte) /\ ctl.config \in Byte /\ kbd.queue \in Seq(AllBytes)
      /\ input \in [full : BOOLEAN, command : BOOLEAN, byte : Byte \cup Commands]
      /\ at \in Labels /\ Len(kbd.queue) \in Nat /\ kbd.set \in 1..3
  BY Fields DEF Types
<1>2. UNCHANGED at
  BY DEF Controller, Type, TakeCommand, TakeConfig, Forward, Garbled, Answer, KeyboardSends, driver
<1>3. Translate # PORT1_CLK_DISABLE
  BY DEF Translate, PORT1_CLK_DISABLE
<1>4. CASE TakeCommand
  <2>1. /\ input.full /\ input.command /\ UNCHANGED <<output, kbd>>
        /\ ctl'.awaits = (ctl.awaits \/ input.byte = "WRITE_BYTE_0")
        /\ input.byte \in Commands /\ at \in WhileCommand(input.byte)
    BY <1>1, <1>4, CommandTaken, WhileWaiting
  <2>2. at \in Polling \cup Final =>
          /\ input.byte \in {"PORT1_RESET", "PORT_1_ENABLE"} /\ at \notin {"to_set_2"}
    BY <2>1 DEF WhileCommand, Commands
  <2>3. at \in Final /\ Translate \in ctl.config => Translate \in ctl'.config
    BY <1>1, <1>3, <1>4, <2>2, CommandTaken DEF Commands
  <2>4. at \in Polling \cup Final => ctl'.awaits = ctl.awaits
    BY <1>1, <2>1, <2>2 DEF ControllerType
  <2> QED BY <1>2, <2>1, <2>2, <2>3, <2>4 DEF PolledInv
<1>5. CASE TakeConfig
  <2>1. ctl.awaits /\ ctl'.awaits = FALSE /\ UNCHANGED <<output, kbd>>
    BY <1>1, <1>5 DEF TakeConfig, ControllerType
  <2>2. at \notin Final
    BY <2>1 DEF PolledInv
  <2> QED BY <1>2, <2>1, <2>2 DEF PolledInv
<1>6. CASE Forward \/ Garbled
  <2>1. /\ input.full /\ ~input.command /\ ~ctl.awaits /\ ctl'.awaits = ctl.awaits
        /\ output'.byte = output.byte
        /\ ctl'.config = ctl.config \ {PORT1_CLK_DISABLE} /\ kbd'.set \in {kbd.set, 2}
    BY <1>1, <1>6, ByteForwarded DEF ControllerType, OutputType
  <2>2. ASSUME NEW i \in 1..Len(kbd'.queue), kbd'.queue[i] = {1}
        PROVE  at \in Final /\ kbd'.set = 2
    <3>1. CASE i \in 1..Len(kbd.queue) /\ kbd.queue[i] = {1}
      BY <2>1, <3>1 DEF PolledInv
    <3>2. CASE input.byte = KBD_CMD_GET_SCAN_CODE_SET /\ kbd'.set = 2
      <4>1. input.byte # KBD_CMD_GET_SET_SCAN_CODE_SET /\ input.byte # KBD_SCAN_CODE_SET_2
        BY <3>2, BytesDiffer
      <4>2. at \notin Start \cup {"config"} => input.byte # config_byte
        BY <3>2 DEF InputInv, KBD_CMD_GET_SCAN_CODE_SET
      <4> QED BY <2>1, <3>2, <4>1, <4>2, WhileWaiting DEF Start
    <3> QED BY <1>6, <2>2, <3>1, <3>2, NewAnswer
  <2>3. Translate \in ctl.config => Translate \in ctl'.config
    BY <1>3, <2>1
  <2> QED BY <1>2, <2>1, <2>2, <2>3 DEF PolledInv
<1>7. CASE Answer
  <2>1. /\ UNCHANGED <<input, kbd>> /\ ctl'.config = ctl.config /\ ctl'.awaits = ctl.awaits
        /\ output'.byte = Head(ctl.owed) /\ ctl.owed # <<>>
    BY <1>1, <1>7 DEF Answer, ControllerType
  <2>2. at \in Polling \cup Final => output'.byte # SCAN_CODE_SET2
    <3>1. Head(ctl.owed) = ctl.owed[1] /\ 1 \in 1..Len(ctl.owed)
      BY <1>1, <2>1
    <3>2. PORT_1_SELF_TEST_OK # SCAN_CODE_SET2
      BY BytesDiffer
    <3> QED BY <2>1, <3>1, <3>2 DEF OwedInv, Only
  <2> QED BY <1>2, <2>1, <2>2 DEF PolledInv
<1>8. CASE KeyboardSends
  <2>1. /\ UNCHANGED <<input, ctl>> /\ kbd'.set = kbd.set /\ kbd.queue # <<>>
        /\ output'.byte = Sent(Head(kbd.queue)) /\ kbd'.queue = Tail(kbd.queue)
    BY <1>1, <1>8 DEF KeyboardSends, KeyboardType
  <2>2. /\ Head(kbd.queue) = kbd.queue[1] /\ 1 \in 1..Len(kbd.queue) /\ kbd.queue[1] \in KbdBytes
        /\ \A i \in 1..Len(kbd'.queue) :
             i + 1 \in 1..Len(kbd.queue) /\ kbd'.queue[i] = kbd.queue[i + 1]
    <3>1. /\ Head(kbd.queue) = kbd.queue[1] /\ 1 \in 1..Len(kbd.queue)
          /\ \A i \in 1..Len(kbd'.queue) :
               i + 1 \in 1..Len(kbd.queue) /\ kbd'.queue[i] = kbd.queue[i + 1]
      BY <1>1, <2>1
    <3> QED BY <3>1 DEF Plain
  <2>3. output'.byte = SCAN_CODE_SET2 => kbd.queue[1] = {1} /\ Translate \in ctl.config
    BY <2>1, <2>2, BytesDiffer DEF Sent
  <2> QED BY <1>2, <2>1, <2>2, <2>3 DEF PolledInv
<1>9. CASE Type
  <2>1. PICK key \in Keys : kbd' = [kbd EXCEPT !.queue = Append(kbd.queue, key)]
    BY <1>9 DEF Type
  <2>2. /\ UNCHANGED <<input, output, ctl>> /\ kbd'.set = kbd.set
        /\ kbd'.queue = Append(kbd.queue, key) /\ key # {1}
    BY <1>1, <1>9, <2>1, BytesDiffer DEF Type, KeyboardType
  <2>3. \A i \in 1..Len(kbd'.queue) : kbd'.queue[i] = {1} =>
          i \in 1..Len(kbd.queue) /\ kbd.queue[i] = {1}
    BY <1>1, <2>2
  <2> QED BY <1>2, <2>2, <2>3 DEF PolledInv
<1> QED BY <1>4, <1>5, <1>6, <1>7, <1>8, <1>9 DEF Controller
-----------------------------------------------------------------------------
(* A keyboard that keeps its answers. *)
LEMMA Positive == \A n \in Nat : \A i \in 1..n : \A s \in 0..1 : s + i > 0
  OBVIOUS

LEMMA ForgetByDriver ==
  ASSUME Types, PolledInv, ForgetInv, Driver
  PROVE  ForgetInv'
<1>0. SUFFICES ASSUME ~kbd.discards, result' # "FAILURE"
               PROVE  ForgetInv'
  <2>1. UNCHANGED kbd
    BY DriverKeeps
  <2> QED BY <2>1 DEF ForgetInv
<1>1. /\ UNCHANGED kbd /\ output'.byte = output.byte
      /\ output \in OutputType /\ kbd.queue \in Seq(AllBytes) /\ Len(kbd.queue) \in Nat
      /\ Shown \in 0..1 /\ Shown' \in 0..1 /\ Len(kbd'.queue) \in Nat
  <2>1. output \in OutputType /\ kbd.queue \in Seq(AllBytes)
    BY Fields DEF Types
  <2>2. Len(kbd.queue) \in Nat
    BY <2>1
  <2> QED BY <2>1, <2>2, DriverKeeps DEF Shown
<1>2. ASSUME at' \notin {"which_set", "get_answer", "set_got", "enable_1"}
      PROVE  ForgetInv'
  <2>1. Needed' = 0
    BY <1>2 DEF Needed
  <2>2. \A i \in 1..Len(kbd'.queue) : Shown' + i > Needed'
    BY <1>1, <2>1, Positive
  <2> QED BY <1>2, <2>2 DEF ForgetInv
<1>3. CASE Writes \/ Reads \/ ReadConfig
  <2>1. at' \notin {"which_set", "get_answer", "set_got", "enable_1"}
    BY <1>3 DEF Writes, Write, Reads, ReadConfig, Read
  <2> QED BY <1>2, <2>1
<1>4. CASE PolledWrites
  <2>1. \A here, b, next : Write(here, FALSE, b, next) =>
          at = here /\ at' = next /\ input'.full /\ result # "FAILURE" /\ output' = output
    BY DEF Write
  <2>2. ~input.full /\ input'.full /\ result # "FAILURE" /\ output' = output
    BY <1>4, <2>1 DEF PolledWrites
  <2>3. \/ at' \in {"to_set_2", "set_answer"}
        \/ at = "get" /\ at' = "which_set"
        \/ at = "which_set" /\ at' = "get_answer"
    BY <1>4, <2>1 DEF PolledWrites
  <2>4. CASE at = "get" /\ at' = "which_set"
    <3>1. Needed' = 0
      BY <2>4 DEF Needed
    <3>2. \A i \in 1..Len(kbd'.queue) : Shown' + i > Needed'
      BY <1>1, <3>1, Positive
    <3> QED BY <2>2, <2>4, <3>2 DEF ForgetInv
  <2>5. CASE at = "which_set" /\ at' = "get_answer"
    <3>1. output.byte # SCAN_CODE_SET2 /\ \A i \in 1..Len(kbd.queue) : kbd.queue[i] # {1}
      BY <2>5 DEF PolledInv, Polling, Final
    <3>2. Shown' + Len(kbd'.queue) >= 1
      BY <1>0, <1>1, <2>2, <2>5 DEF ForgetInv, Shown
    <3> QED BY <1>1, <2>5, <3>1, <3>2 DEF ForgetInv
  <2> QED BY <1>2, <2>3, <2>4, <2>5
<1>5. CASE PolledReads
  <2>1. /\ output.full /\ output' = [output EXCEPT !.full = FALSE] /\ result # "FAILURE"
        /\ \/ at' \in {"set", "get"}
           \/ at = "get_answer" /\ at' = "set_got"
           \/ at = "set_got" /\ output.byte = SCAN_CODE_SET2
    BY <1>0, <1>5 DEF PolledReads, Read
  <2>2. CASE at' \in {"set", "get"}
    BY <1>2, <2>2
  <2>3. CASE at = "get_answer" /\ at' = "set_got"
    <3>1. Shown = 1 /\ Shown' = 0 /\ Needed = 2 /\ Needed' = 1
      BY <1>1, <2>1, <2>3 DEF Shown, Needed, OutputType
    <3>2. /\ output.byte # SCAN_CODE_SET2
          /\ \A i \in 1..Len(kbd.queue) : kbd.queue[i] = {1} => Shown + i > Needed
      BY <1>0, <2>1, <2>3 DEF ForgetInv
    <3>3. \A i \in 1..Len(kbd'.queue) : kbd'.queue[i] = {1} => Shown' + i > Needed'
      BY <1>1, <3>1, <3>2
    <3> QED BY <1>1, <2>3, <3>2, <3>3 DEF ForgetInv
  <2>4. CASE at = "set_got" /\ output.byte = SCAN_CODE_SET2
    BY <1>0, <2>1, <2>4 DEF ForgetInv
  <2> QED BY <2>1, <2>2, <2>3, <2>4
<1>6. CASE Enable
  BY <1>0, <1>6 DEF Enable, ForgetInv
<1> QED BY <1>3, <1>4, <1>5, <1>6, DriverSteps

LEMMA ForgetByController ==
  ASSUME Types, Plain, InputInv, OwedInv, PolledInv, ForgetInv, Controller \/ Type
  PROVE  ForgetInv'
<1>1. /\ output \in OutputType /\ ctl \in ControllerType /\ kbd \in KeyboardType
      /\ ctl.owed \in Seq(Byte) /\ ctl.config \in Byte /\ kbd.queue \in Seq(AllBytes)
      /\ input \in [full : BOOLEAN, command : BOOLEAN, byte : Byte \cup Commands]
      /\ at \in Labels /\ Len(kbd.queue) \in Nat /\ Shown \in 0..1 /\ kbd.discards \in BOOLEAN
  <2>1. /\ output \in OutputType /\ ctl \in ControllerType /\ kbd \in KeyboardType
        /\ ctl.owed \in Seq(Byte) /\ ctl.config \in Byte /\ kbd.queue \in Seq(AllBytes)
        /\ kbd.discards \in BOOLEAN
    BY Fields DEF Types
  <2> QED BY <2>1 DEF Types, Shown
<1>2. UNCHANGED driver /\ kbd'.discards = kbd.discards
  <2>1. UNCHANGED driver
    BY DEF Controller, Type, TakeCommand, TakeConfig, Forward, Garbled, Answer, KeyboardSends
  <2>2. CASE Forward \/ Garbled
    BY <2>1, <2>2, ByteForwarded
  <2>3. CASE ~(Forward \/ Garbled)
    BY <1>1, <2>1, <2>3
       DEF Controller, Type, TakeCommand, TakeConfig, Answer, KeyboardSends, KeyboardType
  <2> QED BY <2>2, <2>3
<1>0. SUFFICES ASSUME ~kbd.discards, result # "FAILURE"
               PROVE  ForgetInv'
  BY <1>2 DEF ForgetInv, driver
<1>3. Needed' = Needed /\ Needed \in Nat
  BY <1>2 DEF Needed, driver
<1>4. \A i \in 1..Len(kbd.queue) : kbd.queue[i] = {1} => Shown + i > Needed
  BY <1>0 DEF ForgetInv
<1>5. /\ at' = at /\ at # "enable_1"
      /\ at \in {"get_answer", "set_got"} => output.byte # SCAN_CODE_SET2
  BY <1>0, <1>2 DEF ForgetInv, driver
<1>6. CASE at \notin {"which_set", "get_answer", "set_got"}
  <2>1. Needed' = 0 /\ Shown' \in 0..1
    BY <1>5, <1>6 DEF Needed, Shown
  <2>2. kbd' \in KeyboardType
    BY ControllerTypes DEF Types
  <2>3. kbd'.queue \in Seq(AllBytes)
    BY <2>2, Fields
  <2>4. Len(kbd'.queue) \in Nat
    BY <2>3
  <2>5. \A i \in 1..Len(kbd'.queue) : Shown' + i > Needed'
    BY <2>1, <2>4, Positive
  <2> QED BY <1>5, <1>6, <2>5 DEF ForgetInv
<1> SUFFICES ASSUME at \in {"which_set", "get_answer", "set_got"}
             PROVE  ForgetInv'
  BY <1>6
<1>7. CASE TakeCommand
  <2>1. at \in WhileCommand(input.byte) /\ input.byte \in Commands
    BY <1>1, <1>7, CommandTaken, WhileWaiting
  <2> QED BY <2>1 DEF WhileCommand, Commands
<1>8. CASE TakeConfig
  BY <1>8 DEF TakeConfig, PolledInv, Polling, Final
<1>9. ASSUME Len(kbd'.queue) \in Nat, Shown' + Len(kbd'.queue) >= 1,
             at \in {"get_answer", "set_got"} => output'.byte # SCAN_CODE_SET2,
             ASSUME NEW i \in 1..Len(kbd'.queue), kbd'.queue[i] = {1}
             PROVE  Shown' + i > Needed'
      PROVE  ForgetInv'
  BY <1>5, <1>9 DEF ForgetInv
<1>10. CASE Forward \/ Garbled
  <2>1. /\ input.full /\ output'.byte = output.byte /\ output'.full = output.full
        /\ Kept(kbd.queue) = kbd.queue
    <3>1. output' = [output EXCEPT !.full = output.full /\ ~Discarded] /\ input.full
      BY <1>10, ByteForwarded
    <3>2. (output.full /\ ~Discarded) = output.full
      BY <1>0, <1>1 DEF Discarded, OutputType
    <3> QED BY <1>0, <1>1, <3>1, <3>2 DEF OutputType, Kept
  <2>2. Shown' = Shown
    BY <2>1 DEF Shown
  <2>3. Len(kbd'.queue) \in Nat /\ Len(kbd'.queue) >= 1
    <3>1. PICK q \in Seq(AllBytes) :
            kbd'.queue = kbd.queue \o q /\ (Len(q) = 1 \/ Len(q) = 2)
      BY <1>10, <2>1, ByteForwarded
    <3>2. Len(kbd'.queue) = Len(kbd.queue) + Len(q)
      BY <1>1, <3>1
    <3>3. Len(kbd.queue) \in Nat
      BY <1>1
    <3>4. CASE Len(q) = 1
      BY <3>2, <3>3, <3>4
    <3>5. CASE Len(q) = 2
      BY <3>2, <3>3, <3>5
    <3> QED BY <3>1, <3>4, <3>5
  <2>4. ASSUME NEW i \in 1..Len(kbd'.queue), kbd'.queue[i] = {1}
        PROVE  Shown' + i > Needed'
    <3>1. CASE i \in 1..Len(kbd.queue) /\ kbd.queue[i] = {1}
      BY <1>3, <1>4, <2>2, <3>1
    <3>2. CASE i = Len(kbd.queue) + 2
      <4>1. Needed \in 0..1 \/ (Needed = 2 /\ Shown + Len(kbd.queue) >= 1)
        <5>1. CASE at = "get_answer"
          BY <1>0, <2>1, <5>1 DEF ForgetInv, Needed
        <5>2. CASE at # "get_answer"
          BY <5>2 DEF Needed
        <5> QED BY <5>1, <5>2
      <4> QED BY <1>1, <1>3, <2>2, <3>2, <4>1
    <3> QED BY <1>10, <2>1, <2>4, <3>1, <3>2, NewAnswer
  <2>5. Shown' + Len(kbd'.queue) >= 1
    BY <1>1, <2>2, <2>3
  <2> QED BY <1>5, <1>9, <2>1, <2>3, <2>4, <2>5
<1>11. CASE Answer
  <2>1. /\ UNCHANGED <<input, kbd>> /\ ctl.owed # <<>> /\ output'.byte = Head(ctl.owed)
    BY <1>11 DEF Answer
  <2>2. Shown' = 1
    BY <1>11 DEF Answer, Shown
  <2>3. at \in {"get_answer", "set_got"} => output'.byte # SCAN_CODE_SET2
    <3>1. Head(ctl.owed) = ctl.owed[1] /\ 1 \in 1..Len(ctl.owed)
      BY <1>1, <2>1
    <3>2. PORT_1_SELF_TEST_OK # SCAN_CODE_SET2
      BY BytesDiffer
    <3> QED BY <2>1, <3>1, <3>2 DEF OwedInv, Only, Final
  <2>4. ASSUME NEW i \in 1..Len(kbd'.queue), kbd'.queue[i] = {1}
        PROVE  Shown' + i > Needed'
    <3>1. Shown + i > Needed /\ i \in Nat
      BY <1>1, <1>4, <2>1, <2>4
    <3> QED BY <1>1, <1>3, <2>2, <3>1
  <2>5. Len(kbd'.queue) \in Nat /\ Shown' + Len(kbd'.queue) >= 1
    BY <1>1, <2>1, <2>2
  <2> QED BY <1>9, <2>3, <2>4, <2>5
<1>12. CASE KeyboardSends
  <2>1. /\ UNCHANGED input /\ kbd.queue # <<>>
        /\ output'.byte = Sent(Head(kbd.queue)) /\ kbd'.queue = Tail(kbd.queue)
    BY <1>1, <1>12 DEF KeyboardSends, KeyboardType
  <2>2. Shown = 0 /\ Shown' = 1
    BY <1>12 DEF KeyboardSends, Shown
  <2>3. /\ Head(kbd.queue) = kbd.queue[1] /\ 1 \in 1..Len(kbd.queue) /\ kbd.queue[1] \in KbdBytes
        /\ Len(kbd'.queue) \in Nat
        /\ \A i \in 1..Len(kbd'.queue) :
             i + 1 \in 1..Len(kbd.queue) /\ kbd'.queue[i] = kbd.queue[i + 1]
    <3>1. /\ Head(kbd.queue) = kbd.queue[1] /\ 1 \in 1..Len(kbd.queue)
          /\ Len(kbd'.queue) \in Nat
          /\ \A i \in 1..Len(kbd'.queue) :
               i + 1 \in 1..Len(kbd.queue) /\ kbd'.queue[i] = kbd.queue[i + 1]
      BY <1>1, <2>1
    <3> QED BY <3>1 DEF Plain
  <2>4. at \in {"get_answer", "set_got"} => output'.byte # SCAN_CODE_SET2
    <3>1. output'.byte = SCAN_CODE_SET2 => kbd.queue[1] = {1}
      BY <2>1, <2>3, BytesDiffer DEF Sent
    <3>2. kbd.queue[1] = {1} => Needed = 0
      <4>1. kbd.queue[1] = {1} => Shown + 1 > Needed
        BY <1>4, <2>3
      <4> QED BY <1>3, <2>2, <4>1
    <3>3. at \in {"get_answer", "set_got"} => Needed # 0
      BY DEF Needed
    <3> QED BY <3>1, <3>2, <3>3
  <2>5. ASSUME NEW i \in 1..Len(kbd'.queue), kbd'.queue[i] = {1}
        PROVE  Shown' + i > Needed'
    <3>1. i \in Nat /\ i + 1 \in 1..Len(kbd.queue) /\ kbd.queue[i + 1] = {1}
      BY <2>3, <2>5
    <3>2. Shown + (i + 1) > Needed
      BY <1>4, <3>1
    <3> QED BY <1>3, <2>2, <3>1, <3>2
  <2>6. Shown' + Len(kbd'.queue) >= 1
    BY <2>2, <2>3
  <2> QED BY <1>9, <2>3, <2>4, <2>5, <2>6
<1>13. CASE Type
  <2>0. PICK key \in Keys : kbd' = [kbd EXCEPT !.queue = Append(kbd.queue, key)]
    BY <1>13 DEF Type
  <2>1. /\ UNCHANGED <<input, output>> /\ kbd'.queue = Append(kbd.queue, key)
    BY <1>1, <1>13, <2>0 DEF Type, KeyboardType
  <2>2. key # {1}
    BY BytesDiffer
  <2>3. /\ Len(kbd'.queue) = Len(kbd.queue) + 1
        /\ \A i \in 1..Len(kbd'.queue) : kbd'.queue[i] = {1} =>
             i \in 1..Len(kbd.queue) /\ kbd.queue[i] = {1}
    BY <1>1, <2>1, <2>2
  <2>4. Shown' = Shown
    BY <2>1 DEF Shown
  <2>5. Len(kbd'.queue) \in Nat /\ Shown' + Len(kbd'.queue) >= 1
    BY <1>1, <2>3, <2>4
  <2>6. ASSUME NEW i \in 1..Len(kbd'.queue), kbd'.queue[i] = {1}
        PROVE  Shown' + i > Needed'
    BY <1>3, <1>4, <2>3, <2>4, <2>6
  <2>7. at \in {"get_answer", "set_got"} => output'.byte # SCAN_CODE_SET2
    BY <1>5, <2>1
  <2> QED BY <1>9, <2>5, <2>6, <2>7
<1> QED BY <1>7, <1>8, <1>10, <1>11, <1>12, <1>13 DEF Controller
-----------------------------------------------------------------------------
(* The configuration, while nothing is overtaken. *)
LEMMA ConfigByDriver ==
  ASSUME Types, InputInv, ConfigInv, Driver
  PROVE  ConfigInv'
<1>0. SUFFICES ASSUME late' = FALSE PROVE ConfigInv'
  <2>1. late' \in BOOLEAN
    BY DriverTypes DEF Types
  <2> QED BY <2>1 DEF ConfigInv
<1> USE DEF Resetting, Polling, Final
<1>1. /\ UNCHANGED ctl /\ output'.byte = output.byte /\ late = FALSE
      /\ ctl \in ControllerType /\ ctl.awaits \in BOOLEAN
  <2>1. ctl \in ControllerType /\ ctl.awaits \in BOOLEAN /\ late \in BOOLEAN
    BY Fields DEF Types
  <2> QED BY <1>0, <2>1, DriverKeeps
<1>2. ASSUME NEW here, NEW c, NEW b, NEW next, Write(here, c, b, next)
      PROVE  /\ at = here /\ at' = next /\ input' = [full |-> TRUE, command |-> c, byte |-> b]
             /\ input'.full = TRUE /\ input.full = FALSE /\ config_byte' = config_byte
  <2>1. input.full \in BOOLEAN
    BY DEF Types
  <2> QED BY <1>0, <1>2, <2>1 DEF Write
<1>3. ASSUME NEW here, NEW good, NEW next, Read(here, good, next)
      PROVE  at = here /\ at' = (IF good THEN next ELSE here)
             /\ input' = input /\ input.full = FALSE /\ ctl.owed = <<>>
  <2>1. input.full \in BOOLEAN
    BY DEF Types
  <2> QED BY <1>0, <1>3, <2>1 DEF Read
<1>4. CASE Writes
  <2>1. /\ input'.full = TRUE /\ input.full = FALSE /\ config_byte' = config_byte
        /\ \/ at' \in {"disable_2", "flush", "config", "new_config"}
           \/ at' = "test"
           \/ at = "test" /\ at' = "tested"
           \/ at = "ask_config_again" /\ at' = "config_again"
           \/ at' = "old_config"
           \/ at = "old_config" /\ at' = "test_port" /\ input' = Data(config_byte)
           \/ at = "test_port" /\ at' = "port_tested"
           \/ at = "reset_port" /\ at' = "port_reset"
    <3>1. at' = "test_port" => input' = Data(config_byte)
      BY <1>4 DEF Writes, Write, Data
    <3>2. \/ at' \in {"disable_2", "flush", "config", "new_config"}
          \/ at' = "test"
          \/ at = "test" /\ at' = "tested"
          \/ at = "ask_config_again" /\ at' = "config_again"
          \/ at' = "old_config"
          \/ at = "old_config" /\ at' = "test_port"
          \/ at = "test_port" /\ at' = "port_tested"
          \/ at = "reset_port" /\ at' = "port_reset"
      BY <1>4 DEF Writes, Write
    <3>3. input'.full = TRUE /\ input.full = FALSE /\ config_byte' = config_byte
      BY <1>2, <1>4 DEF Writes
    <3> QED BY <3>1, <3>2, <3>3
  <2>2. AsMeant' = AsMeant
    BY <1>1, <2>1 DEF AsMeant
  <2>3. CASE at' \in {"disable_2", "flush", "config", "new_config"}
    BY <2>3 DEF ConfigInv
  <2>4. CASE at' \in {"test", "old_config"}
    BY <2>1, <2>4 DEF ConfigInv
  <2>5. CASE at = "test" /\ at' = "tested"
    BY <1>1, <2>1, <2>5 DEF ConfigInv
  <2>6. CASE at = "ask_config_again" /\ at' = "config_again"
    BY <1>1, <2>1, <2>6 DEF ConfigInv
  <2>7. CASE at = "old_config" /\ at' = "test_port" /\ input' = Data(config_byte)
    <3>1. ctl.awaits
      BY <1>1, <2>1, <2>7 DEF ConfigInv
    <3>2. input' = Data(config_byte')
      BY <2>1, <2>7
    <3> QED BY <1>1, <2>7, <3>1, <3>2 DEF ConfigInv, Data
  <2>8. CASE at = "test_port" /\ at' = "port_tested"
    <3>1. ~ctl.awaits /\ AsMeant
      BY <1>1, <2>1, <2>8 DEF ConfigInv, Data
    <3> QED BY <1>1, <2>2, <2>8, <3>1 DEF ConfigInv
  <2>9. CASE at = "reset_port" /\ at' = "port_reset"
    BY <1>1, <2>2, <2>9 DEF ConfigInv
  <2> QED BY <2>1, <2>3, <2>4, <2>5, <2>6, <2>7, <2>8, <2>9
<1>5. CASE PolledWrites \/ PolledReads \/ Enable
  <2>1. /\ at \in Polling \cup Final /\ at' \in Polling \cup Final
        /\ at' = "to_set_2" => input'.full
        /\ at = "set" => at' = "to_set_2"
        /\ at = "to_set_2" => ~input.full
        /\ config_byte' = config_byte
    <3>1. CASE PolledWrites
      <4>1. ~input.full
        BY <3>1 DEF PolledWrites
      <4>2. /\ input'.full /\ config_byte' = config_byte
            /\ \/ at = "set" /\ at' = "to_set_2"
               \/ at = "to_set_2" /\ at' = "set_answer"
               \/ at = "get" /\ at' = "which_set"
               \/ at = "which_set" /\ at' = "get_answer"
        BY <3>1 DEF PolledWrites, Write
      <4> QED BY <4>1, <4>2
    <3>2. CASE PolledReads
      BY <3>2 DEF PolledReads, Read
    <3>3. CASE Enable
      BY <3>3 DEF Enable
    <3> QED BY <1>5, <3>1, <3>2, <3>3
  <2>2. AsMeant' = AsMeant
    BY <1>1, <2>1 DEF AsMeant
  <2>3. ~ctl.awaits /\ AsMeant
    BY <1>1, <2>1 DEF ConfigInv
  <2>4. at # "set" => PORT1_CLK_DISABLE \notin ctl.config
    BY <1>1, <2>1 DEF ConfigInv
  <2>5. \/ at' \in {"set", "to_set_2"} /\ (at' = "to_set_2" => input'.full)
        \/ PORT1_CLK_DISABLE \notin ctl.config
    BY <2>1, <2>4
  <2> QED BY <1>1, <2>1, <2>2, <2>3, <2>5 DEF ConfigInv
<1>6. CASE Reads
  <2>1. /\ input' = input /\ input.full = FALSE /\ ctl.owed = <<>> /\ config_byte' = config_byte
        /\ \/ at' \in {"flush_again", "ask_config"}
           \/ at = "tested" /\ at' \in {"tested", "ask_config_again"}
           \/ at = "config_again" /\ at' = "resend_config"
           \/ at = "config_again" /\ at' = "test_port" /\ output.byte = config_byte
           \/ at = "port_tested" /\ at' \in {"port_tested", "reset_port"}
           \/ at = "port_reset" /\ at' \in {"port_reset", "set"}
    <3>0. config_byte' = config_byte
      BY <1>6 DEF Reads
    <3>1. CASE Read("flush", TRUE, "flush_again")
      BY <1>3, <3>0, <3>1
    <3>2. CASE Read("flush_again", TRUE, "ask_config")
      BY <1>3, <3>0, <3>2
    <3>3. CASE Read("tested", output.byte = CONTLR_SELF_TEST_OK, "ask_config_again")
      BY <1>3, <3>0, <3>3
    <3>4. CASE Read("config_again", TRUE, IF output.byte = config_byte THEN "test_port" ELSE "resend_config")
      BY <1>3, <3>0, <3>4
    <3>5. CASE Read("port_tested", output.byte = PORT_1_SELF_TEST_OK, "reset_port")
      BY <1>3, <3>0, <3>5
    <3>6. CASE Read("port_reset", output.byte = PORT_1_SELF_TEST_OK, "set")
      BY <1>3, <3>0, <3>6
    <3> QED BY <1>6, <3>1, <3>2, <3>3, <3>4, <3>5, <3>6 DEF Reads
  <2>2. AsMeant' = AsMeant
    BY <1>1, <2>1 DEF AsMeant
  <2>3. CASE at' \in {"flush_again", "ask_config"}
    BY <2>3 DEF ConfigInv
  <2>4. CASE at = "tested" /\ at' \in {"tested", "ask_config_again"}
    BY <1>1, <2>1, <2>4 DEF ConfigInv
  <2>5. CASE at = "config_again" /\ at' = "resend_config"
    BY <1>1, <2>1, <2>5 DEF ConfigInv
  <2>6. CASE at = "config_again" /\ at' = "test_port" /\ output.byte = config_byte
    <3>1. ~ctl.awaits /\ output.byte = ctl.config
      <4>1. <<ctl.config>> # <<>>
        OBVIOUS
      <4> QED BY <1>1, <2>1, <2>6, <4>1 DEF ConfigInv
    <3>2. AsMeant
      BY <2>6, <3>1 DEF AsMeant
    <3> QED BY <1>1, <2>1, <2>2, <2>6, <3>1, <3>2 DEF ConfigInv
  <2>7. CASE \/ at = "port_tested" /\ at' \in {"port_tested", "reset_port"}
             \/ at = "port_reset" /\ at' \in {"port_reset", "set"}
    BY <1>1, <2>2, <2>7 DEF ConfigInv
  <2> QED BY <2>1, <2>3, <2>4, <2>5, <2>6, <2>7
<1>7. CASE ReadConfig
  BY <1>7 DEF ReadConfig, Read, ConfigInv
<1> QED BY <1>4, <1>5, <1>6, <1>7, DriverSteps

LEMMA ConfigByController ==
  ASSUME Types, InputInv, ConfigInv, Controller \/ Type
  PROVE  ConfigInv'
<1> USE DEF Resetting, Polling, Final
<1>1. /\ output \in OutputType /\ ctl \in ControllerType /\ kbd \in KeyboardType
      /\ ctl.owed \in Seq(Byte) /\ ctl.config \in Byte /\ ctl.awaits \in BOOLEAN
      /\ input \in [full : BOOLEAN, command : BOOLEAN, byte : Byte \cup Commands]
      /\ at \in Labels
  BY Fields DEF Types
<1>2. UNCHANGED driver /\ late' = late
  BY DEF Controller, Type, TakeCommand, TakeConfig, Forward, Garbled, Answer, KeyboardSends
<1>0. SUFFICES ASSUME late = FALSE PROVE ConfigInv'
  <2>1. late \in BOOLEAN
    BY DEF Types
  <2> QED BY <1>2, <2>1 DEF ConfigInv
<1>3. at' = at /\ config_byte' = config_byte
  BY <1>2 DEF driver
<1>4. CASE TakeCommand
  <2>1. /\ input.full = TRUE /\ input.command = TRUE /\ input'.full = FALSE /\ output' = output
        /\ ctl'.owed = Owed(input.byte, ctl.config, ctl.owed)
        /\ ctl'.awaits = (ctl.awaits \/ input.byte = "WRITE_BYTE_0")
        /\ input.byte \in Commands /\ at \in WhileCommand(input.byte)
    BY <1>1, <1>4, CommandTaken, WhileWaiting
  <2>2. CASE input.byte = "READ_BYTE_0"
    <3>1. /\ ctl'.owed = Append(ctl.owed, ctl.config) /\ ctl'.config = ctl.config
          /\ ctl'.awaits = ctl.awaits
          /\ at \in {"config", "send_config", "config_again", "resend_config", "test_port"}
      BY <1>1, <1>4, <2>1, <2>2, CommandTaken DEF Owed, WhileCommand
    <3>2. at \notin {"resend_config", "test_port"}
      BY <1>0, <2>1 DEF ConfigInv, Data
    <3>3. CASE at = "config_again"
      <4>1. ctl.owed = <<>>
        BY <1>0, <2>1, <3>3 DEF ConfigInv
      <4>2. ctl'.owed = <<ctl'.config>>
        BY <3>1, <4>1
      <4> QED BY <1>0, <1>3, <2>1, <3>1, <3>3, <4>2 DEF ConfigInv
    <3> QED BY <1>3, <3>1, <3>2, <3>3 DEF ConfigInv
  <2>3. CASE input.byte = "WRITE_BYTE_0"
    <3>1. at \in {"new_config", "old_config"} /\ ctl'.awaits
      BY <2>1, <2>3 DEF WhileCommand
    <3> QED BY <1>3, <3>1 DEF ConfigInv
  <2>4. CASE input.byte = "CONTLR_SELF_TEST"
    <3>1. at \in {"tested", "ask_config_again"} /\ ctl'.awaits = ctl.awaits
      BY <1>1, <2>1, <2>4 DEF WhileCommand
    <3>2. at # "ask_config_again"
      BY <1>0, <2>1 DEF ConfigInv
    <3> QED BY <1>0, <1>3, <3>1, <3>2 DEF ConfigInv
  <2>5. CASE input.byte \in {"PORT_1_SELF_TEST", "PORT1_RESET", "PORT_1_ENABLE"}
    <3>1. /\ at \in {"port_tested", "reset_port", "port_reset", "set", "enable_1"}
          /\ ctl'.awaits = ctl.awaits
      BY <1>1, <2>1, <2>5 DEF WhileCommand
    <3>2. ctl'.config \subseteq ctl.config /\ ctl.config \ {PORT1_CLK_DISABLE} \subseteq ctl'.config
      BY <1>1, <1>4, <2>5, CommandTaken DEF Commands
    <3>3. ctl'.config \ {PORT1_CLK_DISABLE} = ctl.config \ {PORT1_CLK_DISABLE}
      BY <3>2
    <3>4. AsMeant => AsMeant'
      BY <1>3, <3>3 DEF AsMeant
    <3>5. PORT1_CLK_DISABLE \notin ctl.config => PORT1_CLK_DISABLE \notin ctl'.config
      BY <3>2
    <3> QED BY <1>0, <1>3, <3>1, <3>4, <3>5 DEF ConfigInv
  <2>6. CASE input.byte \in {"PORT_1_DISABLE", "PORT_2_DISABLE"}
    <3>1. at \in {"disable_2", "flush", "flush_again", "ask_config"}
      BY <2>1, <2>6 DEF WhileCommand
    <3> QED BY <1>3, <3>1 DEF ConfigInv
  <2> QED BY <2>1, <2>2, <2>3, <2>4, <2>5, <2>6 DEF Commands
<1>5. CASE TakeConfig
  <2>1. /\ input.full = TRUE /\ input.command = FALSE /\ ctl.awaits = TRUE
        /\ input'.full = FALSE /\ output' = output
        /\ ctl'.config = input.byte /\ ctl'.awaits = FALSE /\ ctl'.owed = ctl.owed
    BY <1>1, <1>5 DEF TakeConfig, ControllerType
  <2>2. \/ at \in {"test", "test_port"} /\ input.byte = config_byte
        \/ at \in {"to_set_2", "which_set", "set", "set_answer", "get"} \cup Final
    BY <2>1, WhileWaiting
  <2>3. at \notin Polling \cup Final
    BY <1>0, <2>1 DEF ConfigInv
  <2>4. CASE at = "test"
    BY <1>3, <2>1, <2>4 DEF ConfigInv
  <2>5. CASE at = "test_port" /\ input.byte = config_byte
    <3>1. AsMeant'
      BY <1>3, <2>1, <2>5 DEF AsMeant
    <3> QED BY <1>3, <2>1, <2>5, <3>1 DEF ConfigInv
  <2> QED BY <2>2, <2>3, <2>4, <2>5
<1>6. CASE Forward \/ Garbled
  <2>1. /\ input.full = TRUE /\ input.command = FALSE /\ ctl.awaits = FALSE
        /\ input'.full = FALSE /\ ctl'.awaits = FALSE
        /\ ctl'.config = ctl.config \ {PORT1_CLK_DISABLE}
    BY <1>1, <1>6, ByteForwarded DEF ControllerType
  <2>2. at \in {"test", "test_port", "to_set_2", "which_set", "set", "set_answer", "get"} \cup Final
    BY <2>1, WhileWaiting
  <2>3. at # "test_port"
    BY <1>0, <2>1 DEF ConfigInv, Data
  <2>4. AsMeant => AsMeant'
    <3>1. ctl'.config \ {PORT1_CLK_DISABLE} = ctl.config \ {PORT1_CLK_DISABLE}
      BY <2>1
    <3> QED BY <1>3, <3>1 DEF AsMeant
  <2> QED BY <1>0, <1>3, <2>1, <2>2, <2>3, <2>4 DEF ConfigInv
<1>7. CASE Answer
  <2>1. /\ input' = input /\ ctl.owed # <<>> /\ output.full = FALSE
        /\ ctl'.config = ctl.config /\ ctl'.awaits = ctl.awaits /\ ctl'.owed = Tail(ctl.owed)
        /\ output'.full = TRUE /\ output'.byte = Head(ctl.owed)
    BY <1>1, <1>7 DEF Answer, ControllerType, OutputType
  <2>2. AsMeant' = AsMeant
    BY <1>3, <2>1 DEF AsMeant
  <2>3. CASE at = "config_again"
    <3>1. ctl.owed = <<ctl.config>> /\ input.full = FALSE
      BY <1>0, <1>1, <2>1, <2>3 DEF ConfigInv
    <3>2. ctl'.owed = <<>> /\ output'.byte = ctl'.config
      BY <2>1, <3>1
    <3> QED BY <1>0, <1>3, <2>1, <2>3, <3>1, <3>2 DEF ConfigInv
  <2>4. CASE at # "config_again"
    <3>1. at # "ask_config_again"
      BY <1>0, <2>1 DEF ConfigInv
    <3> QED BY <1>0, <1>3, <2>1, <2>2, <2>4, <3>1 DEF ConfigInv
  <2> QED BY <2>3, <2>4
<1>8. CASE KeyboardSends
  <2>1. UNCHANGED <<input, ctl>> /\ output.full = FALSE
    BY <1>1, <1>8 DEF KeyboardSends, OutputType
  <2>2. AsMeant' = AsMeant
    BY <1>3, <2>1 DEF AsMeant
  <2> QED BY <1>0, <1>3, <2>1, <2>2 DEF ConfigInv
<1>9. CASE Type
  <2>1. UNCHANGED <<input, ctl, output>>
    BY <1>9 DEF Type
  <2>2. AsMeant' = AsMeant
    BY <1>3, <2>1 DEF AsMeant
  <2> QED BY <1>0, <1>3, <2>1, <2>2 DEF ConfigInv
<1> QED BY <1>4, <1>5, <1>6, <1>7, <1>8, <1>9 DEF Controller
-----------------------------------------------------------------------------
(* What the bytes say, as long as no key sends a byte the driver expects. *)
LEMMA BytesByDriver ==
  ASSUME IInv, Driver
  PROVE  BytesInv'
<1>1. Types /\ BytesInv /\ UNCHANGED <<kbd, used>>
  BY DriverKeeps DEF IInv
<1>2. SUFFICES ASSUME Plain, OwedInv, PolledInv, ForgetInv PROVE BytesInv'
  BY <1>1 DEF BytesInv
<1>3. Plain'
  BY <1>1, <1>2 DEF Plain
<1>4. OwedInv' /\ PolledInv' /\ ForgetInv'
  BY <1>1, <1>2, OwedByDriver, PolledByDriver, ForgetByDriver
<1> QED BY <1>3, <1>4 DEF BytesInv

LEMMA PlainByController ==
  ASSUME Types, Plain, Controller \/ Type, ~used'.lookalike
  PROVE  Plain'
<1>1. kbd \in KeyboardType /\ kbd.queue \in Seq(AllBytes) /\ used \in UsedType /\ kbd.set \in 1..3
  BY Fields DEF Types
<1>2. CASE TakeCommand \/ TakeConfig \/ Answer
  BY <1>2 DEF TakeCommand, TakeConfig, Answer, Plain
<1>3. CASE Forward \/ Garbled
  <2> DEFINE k == Kept(kbd.queue)
  <2>1. PICK q \in Seq(AllBytes) :
          /\ kbd'.queue = k \o q
          /\ \/ Len(q) = 1 /\ q[1] \in {KBD_ACK, KBD_RESEND}
             \/ Len(q) = 2 /\ q[1] = KBD_ACK /\ q[2] = SetByte[kbd.set]
    BY <1>3, ByteForwarded
  <2>2. \A i \in 1..Len(q) : q[i] \in KbdBytes
    <3>1. KBD_ACK \in KbdBytes /\ KBD_RESEND \in KbdBytes /\ SetByte[kbd.set] \in KbdBytes
      BY <1>1 DEF KbdBytes, SetByte
    <3>2. 1..1 = {1} /\ 1..2 = {1, 2}
      OBVIOUS
    <3> QED BY <2>1, <3>1, <3>2
  <2>3. k \in Seq(AllBytes) /\ \A i \in 1..Len(k) : k[i] \in KbdBytes
    <3>1. CASE k = kbd.queue
      BY <1>1, <3>1 DEF Plain
    <3>2. CASE k = <<>>
      BY <3>2
    <3> QED BY <3>1, <3>2 DEF Kept
  <2> HIDE DEF k
  <2>4. /\ Len(kbd'.queue) = Len(k) + Len(q) /\ Len(k) \in Nat /\ Len(q) \in Nat
        /\ \A i \in 1..Len(kbd'.queue) :
             kbd'.queue[i] = IF i <= Len(k) THEN k[i] ELSE q[i - Len(k)]
    BY <2>1, <2>3
  <2>5. ASSUME NEW i \in 1..Len(kbd'.queue) PROVE kbd'.queue[i] \in KbdBytes
    <3>1. CASE i <= Len(k)
      BY <2>3, <2>4, <3>1
    <3>2. CASE ~(i <= Len(k))
      <4>1. i - Len(k) \in 1..Len(q)
        BY <2>4, <3>2
      <4> QED BY <2>2, <2>4, <3>2, <4>1
    <3> QED BY <3>1, <3>2
  <2> QED BY <2>5 DEF Plain
<1>4. CASE KeyboardSends
  <2>1. kbd'.queue = Tail(kbd.queue) /\ kbd.queue # <<>>
    BY <1>1, <1>4 DEF KeyboardSends, KeyboardType
  <2>2. \A i \in 1..Len(kbd'.queue) :
          i + 1 \in 1..Len(kbd.queue) /\ kbd'.queue[i] = kbd.queue[i + 1]
    BY <1>1, <2>1
  <2> QED BY <2>2 DEF Plain
<1>5. CASE Type
  <2>1. PICK key \in Keys :
          /\ used' = [used EXCEPT !.typed = @ + 1, !.lookalike = @ \/ key \in Lookalikes]
          /\ kbd' = [kbd EXCEPT !.queue = Append(@, key)]
    BY <1>5 DEF Type
  <2>2. key = KeyByte
    BY <1>1, <2>1 DEF UsedType, Keys
  <2>3. kbd'.queue = Append(kbd.queue, KeyByte) /\ KeyByte \in KbdBytes
    BY <1>1, <2>1, <2>2 DEF KeyboardType, KbdBytes
  <2>4. \A i \in 1..Len(kbd'.queue) :
          kbd'.queue[i] = KeyByte \/ (i \in 1..Len(kbd.queue) /\ kbd'.queue[i] = kbd.queue[i])
    BY <1>1, <2>3
  <2> QED BY <2>3, <2>4 DEF Plain
<1> QED BY <1>2, <1>3, <1>4, <1>5 DEF Controller

LEMMA BytesByController ==
  ASSUME IInv, Controller \/ Type
  PROVE  BytesInv'
<1>1. Types /\ InputInv /\ BytesInv /\ used \in UsedType
  BY DEF IInv, Types
<1>2. ~used'.lookalike => ~used.lookalike
  <2>1. CASE Forward \/ Garbled
    BY <1>1, <2>1, ByteForwarded
  <2>2. CASE Type
    BY <1>1, <2>2 DEF Type, UsedType
  <2>3. CASE ~(Forward \/ Garbled \/ Type)
    BY <2>3 DEF Controller, TakeCommand, TakeConfig, Answer, KeyboardSends
  <2> QED BY <2>1, <2>2, <2>3
<1>3. SUFFICES ASSUME ~used'.lookalike, Plain, OwedInv, PolledInv, ForgetInv PROVE BytesInv'
  BY <1>1, <1>2 DEF BytesInv
<1>4. Plain'
  BY <1>1, <1>3, PlainByController
<1>5. OwedInv' /\ PolledInv' /\ ForgetInv'
  BY <1>1, <1>3, OwedByController, PolledByController, ForgetByController
<1> QED BY <1>4, <1>5 DEF BytesInv
-----------------------------------------------------------------------------
LEMMA NextIInv ==
  ASSUME IInv, [Next]_vars
  PROVE  IInv'
<1>1. CASE Driver
  <2>1. Types' /\ InputInv' /\ LengthInv' /\ ConfigInv'
    BY <1>1, DriverTypes, InputByDriver, LengthByDriver, ConfigByDriver DEF IInv
  <2> QED BY <1>1, <2>1, BytesByDriver DEF IInv
<1>2. CASE Controller \/ Type
  <2>1. Types' /\ InputInv' /\ LengthInv' /\ ConfigInv'
    BY <1>2, ControllerTypes, InputByController, LengthByController, ConfigByController DEF IInv
  <2> QED BY <1>2, <2>1, BytesByController DEF IInv
<1>3. CASE UNCHANGED vars
  <2> USE <1>3 DEF vars
  <2>1. (Types => Types') /\ (InputInv => InputInv')
    BY DEF Types, InputInv, Waiting
  <2>2. (OwedInv => OwedInv') /\ (LengthInv => LengthInv') /\ (PolledInv => PolledInv')
    BY DEF OwedInv, Asked, LengthInv, Pending, PolledInv
  <2>3. (ForgetInv => ForgetInv') /\ (ConfigInv => ConfigInv') /\ (Plain => Plain')
    BY DEF ForgetInv, Shown, Needed, ConfigInv, AsMeant, Plain
  <2> QED BY <2>1, <2>2, <2>3 DEF IInv, BytesInv
<1> QED BY <1>1, <1>2, <1>3 DEF Next

(***************************************************************************)
(* The invariant: which byte waits at which access to a port, which        *)
(* answers are still owed, and what the bytes read so far say about the    *)
(* keyboard and the configuration (ps2_keyboard_driver.c:436-601).         *)
(***************************************************************************)
THEOREM Invariance == Spec => []IInv
<1>1. Init => IInv
  BY InitIInv
<1>2. IInv /\ [Next]_vars => IInv'
  BY NextIInv
<1> QED BY <1>1, <1>2, PTL DEF Spec

(***************************************************************************)
(* A SUCCESS of the set-up means that the keyboard uses scan code set 2    *)
(* and that the controller translates it, whatever bytes were overtaken or *)
(* garbled and whatever was typed but the keys whose bytes the driver      *)
(* expects (ps2_keyboard_driver.c:558-601).                                *)
(***************************************************************************)
THEOREM SuccessIsMeant == Spec => []SuccessMeansSet2
<1>1. ASSUME IInv PROVE TypeOK
  <2>1. /\ Types /\ LengthInv /\ at \in Labels
        /\ ctl \in ControllerType /\ output \in OutputType /\ kbd \in KeyboardType
    BY <1>1 DEF IInv, Types
  <2>2. Len(ctl.owed) <= 4
    <3>1. ctl.owed \in Seq(Byte)
      BY <2>1, Fields
    <3>2. Len(ctl.owed) \in Nat /\ Pending \in 0..1
      BY <3>1 DEF Pending
    <3>3. AskedUpTo(at) \in 0..4
      <4>1. AskedUpTo(at) \in {0, 1, 2, 3, 4}
        BY <2>1, Table DEF Labels, Start, Resetting, Polling, Final
      <4> QED BY <4>1
    <3> QED BY <2>1, <3>2, <3>3 DEF LengthInv
  <2>3. output.byte \in Byte /\ ctl.config \in Byte /\ kbd.set \in 1..3
    BY <2>1, Fields
  <2> QED BY <2>1, <2>2, <2>3 DEF TypeOK, Types
<1>2. IInv => (result = "SUCCESS" /\ ~used.lookalike => Verified)
  BY DEF IInv, InputInv, BytesInv, PolledInv, Verified
<1>3. IInv => SuccessMeansSet2
  BY <1>1, <1>2 DEF SuccessMeansSet2
<1> QED BY <1>3, Invariance, PTL

(***************************************************************************)
(* Unless a byte was overtaken, a SUCCESS leaves the configuration that    *)
(* was meant, the self test's reset repaired and the clock of the port on, *)
(* whatever was typed (:479-509).                                          *)
(***************************************************************************)
THEOREM ConfigurationHolds == Spec => []ConfiguredUnlessLate
<1>1. ASSUME IInv, result = "SUCCESS", ~late
      PROVE  /\ ctl.config = config_byte /\ PORT1_CLK_DISABLE \notin ctl.config
             /\ PORT1_INT_EN \in ctl.config <=> irq_enable
             /\ PORT2_CLK_DISABLE \in ctl.config /\ PORT2_INT_EN \notin ctl.config
  <2>1. at = "enable_1"
    BY <1>1 DEF IInv, InputInv
  <2>2. /\ ctl.config \ {PORT1_CLK_DISABLE} = config_byte \ {PORT1_CLK_DISABLE}
        /\ PORT1_CLK_DISABLE \notin ctl.config
    BY <1>1, <2>1 DEF IInv, ConfigInv, AsMeant, Final
  <2>3. /\ PORT2_CLK_DISABLE \in config_byte /\ PORT2_INT_EN \notin config_byte
        /\ PORT1_INT_EN \in config_byte <=> irq_enable
        /\ PORT1_CLK_DISABLE \notin config_byte
    BY <1>1, <2>1 DEF IInv, InputInv, Start
  <2>4. ctl.config = config_byte
    BY <2>2, <2>3
  <2> QED BY <2>2, <2>3, <2>4
<1>2. IInv => ConfiguredUnlessLate
  BY <1>1 DEF ConfiguredUnlessLate
<1> QED BY <1>2, Invariance, PTL

(***************************************************************************)
(* With a keyboard that keeps unread answers the set-up never succeeds:    *)
(* one answer is read where it gives two (:563-595), unless the byte of a  *)
(* key is taken for the answer.                                            *)
(***************************************************************************)
THEOREM SuccessNeedsForgetting == Spec => []NeedsForgetting
<1>1. IInv => NeedsForgetting
  BY DEF IInv, InputInv, BytesInv, ForgetInv, NeedsForgetting
<1> QED BY <1>1, Invariance, PTL
-----------------------------------------------------------------------------
(***************************************************************************)
(* The dialogue of hardware that keeps up and forgets unread answers, when *)
(* nobody types: what PromptSucceeds needs besides IInv.                   *)
(***************************************************************************)
Prompt == ~late /\ kbd.discards /\ used.typed = 0

(* Before the keyboard is asked nothing reaches it.                        *)
QuietInv ==
  /\ kbd.queue = <<>>
  /\ input.full => input.command \/ ctl.awaits
  /\ at = "new_config" => input.full \/ ctl.awaits

(* The controller is asked for b and for nothing else.                     *)
OnlyAnswer(b) ==
  \/ input.full /\ ctl.owed = <<>>
  \/ ~input.full /\ ctl.owed = <<b>>
  \/ ~input.full /\ ctl.owed = <<>> /\ output.byte = b

TestsInv ==
  /\ at = "tested" => OnlyAnswer(CONTLR_SELF_TEST_OK)
  /\ at = "port_tested" => OnlyAnswer(PORT_1_SELF_TEST_OK)
  /\ at \in {"send_config", "new_config", "test", "resend_config", "old_config", "test_port"}
       \cup Resetting \cup Polling \cup Final => ctl.owed = <<>>
  /\ at \in {"send_config", "reset_port"} => ~input.full
  /\ at \in Resetting => output.byte = PORT_1_SELF_TEST_OK /\ ~output.full

(* What the keyboard has answered and the driver not read.                 *)
Unshown(q) == ~output.full /\ kbd.queue = q
ShownByte(b, q) == output.full /\ output.kbd /\ output.byte = b /\ kbd.queue = q

NoAnswer == Unshown(<<>>)
OneAnswer(b) == Unshown(<<b>>) \/ ShownByte(b, <<>>)
Reply == OneAnswer(KBD_ACK) \/ OneAnswer(KBD_RESEND)
SetFollows == Unshown(<<KBD_ACK, {1}>>) \/ ShownByte(KBD_ACK, <<{1}>>)
SetAlone ==
  \/ Unshown(<<{1}>>) \/ ShownByte(SCAN_CODE_SET2, <<>>)
  \/ kbd.queue = <<>> /\ Translate \notin ctl.config

NotGarbled == used.resends = 0

AnswersInv ==
  /\ at = "set" => NoAnswer /\ (input.full => input.command)
  /\ at = "to_set_2" => IF input.full THEN NoAnswer ELSE Reply
  /\ at = "set_answer" =>
       IF input.full THEN Reply ELSE OneAnswer(KBD_RESEND) \/ (OneAnswer(KBD_ACK) /\ kbd.set = 2)
  /\ at = "get" => NoAnswer /\ ~input.full
  /\ at = "which_set" =>
       IF input.full THEN NoAnswer ELSE Reply /\ (NotGarbled => kbd.awaits)
  /\ at = "get_answer" =>
       IF input.full THEN Reply /\ (NotGarbled => kbd.awaits) ELSE NotGarbled => SetFollows
  /\ at = "set_got" => ~input.full /\ (NotGarbled => SetAlone)
  /\ at \in {"get", "which_set", "get_answer", "set_got"} => kbd.set = 2

FailedInv ==
  at \in {"get_answer", "set_got"} /\ (NotGarbled => at = "set_got" /\ Translate \notin ctl.config)

Prompted ==
  /\ at \in Start \cup Configuring \cup Checking \cup Resetting => QuietInv
  /\ TestsInv
  /\ result = "FAILURE" => FailedInv
  /\ result # "FAILURE" => AnswersInv

PromptInv == Prompt => Prompted

(* The driver keeps it: each access is made when the last byte was taken   *)
(* and the answers before it were read.                                    *)
LEMMA PromptByDriver ==
  ASSUME Types, InputInv, ConfigInv, PromptInv, Driver
  PROVE  PromptInv'
<1>0. SUFFICES ASSUME Prompt' PROVE Prompted'
  BY DEF PromptInv
<1> USE DEF Start, Configuring, Checking, Resetting, Polling, Final
<1>1. /\ UNCHANGED <<ctl, kbd, used>> /\ output'.byte = output.byte
      /\ output' = output \/ output' = [output EXCEPT !.full = FALSE]
      /\ late = FALSE /\ late' = FALSE
  <2>1. late \in BOOLEAN /\ late' \in BOOLEAN /\ ~late'
    BY <1>0, DriverTypes DEF Types, Prompt
  <2> QED BY <2>1, DriverKeeps
<1>2. Prompted
  BY <1>0, <1>1 DEF PromptInv, Prompt
<1>3. ASSUME NEW here, NEW c, NEW b, NEW next, Write(here, c, b, next)
      PROVE  /\ at = here /\ at' = next /\ input'.full = TRUE /\ input'.command = c
             /\ input.full = FALSE /\ output' = output
             /\ result = "running" /\ result' = "running"
  <2>1. input.full \in BOOLEAN
    BY DEF Types
  <2> QED BY <1>1, <1>3, <2>1 DEF Write
<1>4. ASSUME NEW here, NEW good, NEW next, Read(here, good, next)
      PROVE  /\ at = here /\ at' = (IF good THEN next ELSE here)
             /\ result = "running" /\ result' = (IF good THEN "running" ELSE "FAILURE")
             /\ input' = input /\ input.full = FALSE /\ ctl.owed = <<>>
             /\ output'.full = FALSE
  <2>1. input.full \in BOOLEAN /\ output \in OutputType
    BY DEF Types
  <2> QED BY <1>1, <1>4, <2>1 DEF Read, OutputType
<1>5. CASE Writes
  <2>1. /\ input'.full = TRUE /\ input.full = FALSE /\ output' = output
        /\ result = "running" /\ result' = "running"
        /\ \/ /\ at \in {"disable_1", "disable_2"} /\ at' \in {"disable_2", "flush"}
              /\ input'.command = TRUE
           \/ at = "ask_config" /\ at' = "config" /\ input'.command = TRUE
           \/ at = "send_config" /\ at' = "new_config" /\ input'.command = TRUE
           \/ at = "new_config" /\ at' = "test"
           \/ at = "test" /\ at' = "tested" /\ input'.command = TRUE
           \/ at = "ask_config_again" /\ at' = "config_again" /\ input'.command = TRUE
           \/ at = "resend_config" /\ at' = "old_config" /\ input'.command = TRUE
           \/ at = "old_config" /\ at' = "test_port"
           \/ at = "test_port" /\ at' = "port_tested" /\ input'.command = TRUE
           \/ at = "reset_port" /\ at' = "port_reset" /\ input'.command = TRUE
    BY <1>3, <1>5 DEF Writes
  <2>2. QuietInv /\ TestsInv
    BY <1>2, <2>1 DEF Prompted
  <2>3. QuietInv'
    <3>1. at = "old_config" => ctl.awaits
      BY <1>1, <2>1 DEF ConfigInv
    <3> QED BY <1>1, <2>1, <2>2, <3>1 DEF QuietInv
  <2>4. TestsInv'
    BY <1>1, <2>1, <2>2 DEF TestsInv, OnlyAnswer
  <2> QED BY <2>1, <2>3, <2>4 DEF Prompted, AnswersInv
<1>6. CASE PolledWrites
  <2>1. /\ input'.full = TRUE /\ input.full = FALSE /\ output' = output
        /\ result = "running" /\ result' = "running"
        /\ \/ at = "set" /\ at' = "to_set_2"
           \/ at = "to_set_2" /\ at' = "set_answer"
           \/ at = "get" /\ at' = "which_set"
           \/ at = "which_set" /\ at' = "get_answer"
    BY <1>3, <1>6 DEF PolledWrites
  <2>2. TestsInv /\ AnswersInv
    BY <1>2, <2>1 DEF Prompted
  <2>3. NoAnswer' = NoAnswer /\ Reply' = Reply /\ NotGarbled' = NotGarbled
    BY <1>1, <2>1 DEF NoAnswer, Reply, OneAnswer, Unshown, ShownByte, NotGarbled
  <2>4. AnswersInv'
    BY <1>1, <2>1, <2>2, <2>3 DEF AnswersInv
  <2>5. TestsInv'
    BY <1>1, <2>1, <2>2 DEF TestsInv
  <2> QED BY <2>1, <2>4, <2>5 DEF Prompted
<1>7. CASE Reads
  <2>1. /\ input' = input /\ input.full = FALSE /\ ctl.owed = <<>> /\ output'.full = FALSE
        /\ result = "running"
        /\ \/ at = "flush" /\ at' = "flush_again" /\ result' = "running"
           \/ at = "flush_again" /\ at' = "ask_config" /\ result' = "running"
           \/ /\ at = "tested"
              /\ output.byte = CONTLR_SELF_TEST_OK =>
                   at' = "ask_config_again" /\ result' = "running"
           \/ at = "config_again" /\ at' \in {"test_port", "resend_config"} /\ result' = "running"
           \/ /\ at = "port_tested"
              /\ output.byte = PORT_1_SELF_TEST_OK => at' = "reset_port" /\ result' = "running"
           \/ /\ at = "port_reset"
              /\ output.byte = PORT_1_SELF_TEST_OK => at' = "set" /\ result' = "running"
    BY <1>4, <1>7 DEF Reads
  <2>2. QuietInv /\ TestsInv
    BY <1>2, <2>1 DEF Prompted
  <2>3. \A b : OnlyAnswer(b) => output.byte = b
    <3>1. \A b : <<b>> # <<>>
      OBVIOUS
    <3> QED BY <2>1, <3>1 DEF OnlyAnswer
  <2>4. /\ at = "tested" => at' = "ask_config_again" /\ result' = "running"
        /\ at = "port_tested" =>
             at' = "reset_port" /\ result' = "running" /\ output.byte = PORT_1_SELF_TEST_OK
        /\ at = "port_reset" =>
             at' = "set" /\ result' = "running" /\ output.byte = PORT_1_SELF_TEST_OK
    BY <2>1, <2>2, <2>3 DEF TestsInv
  <2>5. QuietInv'
    BY <1>1, <2>1, <2>2, <2>4 DEF QuietInv
  <2>6. TestsInv'
    BY <1>1, <2>1, <2>4 DEF TestsInv
  <2>7. AnswersInv'
    BY <1>1, <2>1, <2>2, <2>4 DEF AnswersInv, QuietInv, NoAnswer, Unshown
  <2> QED BY <2>1, <2>4, <2>5, <2>6, <2>7 DEF Prompted
<1>8. CASE ReadConfig
  <2>1. /\ input' = input /\ input.full = FALSE /\ ctl.owed = <<>>
        /\ at = "config" /\ at' = "send_config" /\ result' = "running"
    BY <1>4, <1>8 DEF ReadConfig
  <2>2. QuietInv' /\ TestsInv'
    BY <1>1, <1>2, <2>1 DEF Prompted, QuietInv, TestsInv
  <2> QED BY <2>1, <2>2 DEF Prompted, AnswersInv
<1>9. CASE PolledReads
  <2>1. /\ input' = input /\ input.full = FALSE /\ ctl.owed = <<>>
        /\ output'.full = FALSE /\ output.full = TRUE /\ result = "running"
        /\ \/ /\ at = "set_answer"
              /\ output.byte = KBD_RESEND => at' = "set" /\ result' = "running"
              /\ output.byte = KBD_ACK => at' = "get" /\ result' = "running"
           \/ /\ at = "get_answer"
              /\ output.byte = KBD_ACK => at' = "set_got" /\ result' = "running"
              /\ output.byte # KBD_ACK => at' = "get_answer" /\ result' = "FAILURE"
           \/ /\ at = "set_got"
              /\ output.byte = SCAN_CODE_SET2 => at' = "enable_1" /\ result' = "running"
              /\ output.byte # SCAN_CODE_SET2 => at' = "set_got" /\ result' = "FAILURE"
    <3>1. output.full = TRUE /\ KBD_ACK # KBD_RESEND
      BY <1>9, BytesDiffer DEF PolledReads, Types, OutputType
    <3> QED BY <1>4, <1>9, <3>1 DEF PolledReads
  <2>2. TestsInv /\ AnswersInv
    BY <1>2, <2>1 DEF Prompted
  <2>3. NotGarbled' = NotGarbled
    BY <1>1 DEF NotGarbled
  <2>4. CASE at = "set_answer"
    <3>1. /\ kbd.queue = <<>>
          /\ output.byte = KBD_RESEND \/ (output.byte = KBD_ACK /\ kbd.set = 2)
      BY <2>1, <2>2, <2>4 DEF AnswersInv, OneAnswer, Unshown, ShownByte
    <3>2. NoAnswer'
      BY <1>1, <2>1, <3>1 DEF NoAnswer, Unshown
    <3>3. at' \in {"set", "get"} /\ result' = "running" /\ (at' = "get" => kbd.set = 2)
      BY <2>1, <2>4, <3>1, BytesDiffer
    <3>4. AnswersInv' /\ TestsInv'
      BY <1>1, <2>1, <3>2, <3>3 DEF AnswersInv, TestsInv
    <3> QED BY <3>3, <3>4 DEF Prompted
  <2>5. CASE at = "get_answer"
    <3>1. NotGarbled => output.byte = KBD_ACK /\ kbd.queue = <<{1}>>
      BY <2>1, <2>2, <2>5 DEF AnswersInv, SetFollows, Unshown, ShownByte
    <3>2. NotGarbled => SetAlone'
      BY <1>1, <2>1, <3>1 DEF SetAlone, Unshown
    <3>3. kbd.set = 2
      BY <2>2, <2>5 DEF AnswersInv
    <3>4. TestsInv'
      BY <1>1, <2>1, <2>5 DEF TestsInv
    <3>5. CASE output.byte = KBD_ACK
      BY <1>1, <2>1, <2>3, <2>5, <3>2, <3>3, <3>4, <3>5 DEF Prompted, AnswersInv
    <3>6. CASE output.byte # KBD_ACK
      BY <1>1, <2>1, <2>3, <2>5, <3>1, <3>4, <3>6 DEF Prompted, FailedInv
    <3> QED BY <3>5, <3>6
  <2>6. CASE at = "set_got"
    <3>1. TestsInv'
      BY <1>1, <2>1, <2>6 DEF TestsInv
    <3>2. NotGarbled => output.byte = SCAN_CODE_SET2 \/ Translate \notin ctl.config
      BY <2>1, <2>2, <2>6 DEF AnswersInv, SetAlone, Unshown, ShownByte
    <3>3. CASE output.byte = SCAN_CODE_SET2
      BY <2>1, <2>6, <3>1, <3>3 DEF Prompted, AnswersInv
    <3>4. CASE output.byte # SCAN_CODE_SET2
      BY <1>1, <2>1, <2>3, <2>6, <3>1, <3>2, <3>4 DEF Prompted, FailedInv
    <3> QED BY <3>3, <3>4
  <2> QED BY <2>1, <2>4, <2>5, <2>6
<1>10. CASE Enable
  <2>1. at = "enable_1" /\ at' = "enable_1" /\ result' = "SUCCESS" /\ result = "running"
    BY <1>10 DEF Enable
  <2>2. TestsInv'
    BY <1>1, <1>2, <2>1 DEF Prompted, TestsInv
  <2> QED BY <2>1, <2>2 DEF Prompted, AnswersInv
<1> QED BY <1>5, <1>6, <1>7, <1>8, <1>9, <1>10, DriverSteps

(* What a keyboard that forgets unread answers makes of a byte.            *)
LEMMA Forgetting ==
  ASSUME Types, kbd.discards, Forward \/ Garbled
  PROVE  /\ Garbled => /\ kbd'.queue = <<KBD_RESEND>> /\ kbd'.set = kbd.set
                       /\ kbd'.awaits = kbd.awaits /\ used'.resends # 0
         /\ Forward => used' = used
         /\ Forward /\ input.byte = KBD_CMD_GET_SET_SCAN_CODE_SET =>
              kbd'.queue = <<KBD_ACK>> /\ kbd'.set = kbd.set /\ kbd'.awaits = TRUE
         /\ Forward /\ input.byte = KBD_SCAN_CODE_SET_2 =>
              kbd'.queue = <<KBD_RESEND>> \/ (kbd'.queue = <<KBD_ACK>> /\ kbd'.set = 2)
         /\ Forward /\ input.byte = KBD_CMD_GET_SCAN_CODE_SET =>
              /\ kbd'.set = kbd.set
              /\ kbd.awaits => kbd'.queue = <<KBD_ACK, SetByte[kbd.set]>>
<1>1. /\ kbd \in KeyboardType /\ kbd.discards = TRUE
      /\ used \in UsedType
  BY Fields DEF Types
<1>2. ASSUME NEW k \in KeyboardType, NEW q, k.discards = TRUE
      PROVE  /\ Answered(k, q).queue = q /\ Answered(k, q).set = k.set
             /\ Answered(k, q).awaits = k.awaits
  <2>1. Answered(k, q) = [k EXCEPT !.queue = q]
    BY <1>2 DEF Answered
  <2> QED BY <2>1 DEF KeyboardType
<1>3. CASE Garbled
  <2>1. kbd' = Answered(kbd, <<KBD_RESEND>>) /\ used' = [used EXCEPT !.resends = @ + 1]
    BY <1>3 DEF Garbled
  <2>2. used'.resends = used.resends + 1 /\ used.resends \in Nat /\ used'.resends # 0
    BY <1>1, <2>1 DEF UsedType
  <2>3. ~Forward
    <3>1. Forward => used' = used
      BY DEF Forward
    <3>2. used' # used
      BY <2>2
    <3> QED BY <3>1, <3>2
  <2> QED BY <1>1, <1>2, <2>1, <2>2, <2>3
<1>4. CASE Forward /\ ~Garbled
  <2>1. kbd' = KeyboardAnswers(input.byte) /\ used' = used
    BY <1>4 DEF Forward
  <2>2. PICK k1, k2, k3 : /\ k1 = [kbd EXCEPT !.awaits = TRUE]
                          /\ k2 = [kbd EXCEPT !.awaits = FALSE]
                          /\ k3 = [kbd EXCEPT !.awaits = FALSE, !.set = 2]
    OBVIOUS
  <2>3. /\ k1 \in KeyboardType /\ k1.discards = TRUE /\ k1.set = kbd.set /\ k1.awaits = TRUE
        /\ k2 \in KeyboardType /\ k2.discards = TRUE /\ k2.set = kbd.set
        /\ k3 \in KeyboardType /\ k3.discards = TRUE /\ k3.set = 2
    <3>1. /\ \A f \in BOOLEAN : [kbd EXCEPT !.awaits = f] \in KeyboardType
          /\ \A f \in BOOLEAN, n \in 1..3 : [kbd EXCEPT !.awaits = f, !.set = n] \in KeyboardType
      BY <1>1, Updated
    <3>2. FALSE \in BOOLEAN /\ TRUE \in BOOLEAN /\ 2 \in 1..3
      OBVIOUS
    <3>3. k3 \in KeyboardType
      BY <2>2, <3>1, <3>2, Zenon
    <3>4. k1 \in KeyboardType /\ k2 \in KeyboardType
      BY <2>2, <3>1
    <3>5. k1.discards = TRUE /\ k1.set = kbd.set /\ k1.awaits = TRUE
      BY <1>1, <2>2 DEF KeyboardType
    <3>6. k2.discards = TRUE /\ k2.set = kbd.set
      BY <1>1, <2>2 DEF KeyboardType
    <3>7. k3.discards = TRUE /\ k3.set = 2
      BY <1>1, <2>2 DEF KeyboardType
    <3> QED BY <3>3, <3>4, <3>5, <3>6, <3>7
  <2>4. PICK f, g, h : /\ f = KBD_CMD_GET_SET_SCAN_CODE_SET /\ g = KBD_SCAN_CODE_SET_2
                       /\ h = KBD_CMD_GET_SCAN_CODE_SET /\ f # g /\ g # h /\ f # h
    BY BytesDiffer
  <2>5. CASE input.byte = KBD_CMD_GET_SET_SCAN_CODE_SET
    <3>1. kbd' = Answered(k1, <<KBD_ACK>>)
      BY <2>1, <2>2, <2>5 DEF KeyboardAnswers
    <3>2. kbd'.queue = <<KBD_ACK>> /\ kbd'.set = kbd.set /\ kbd'.awaits = TRUE
      BY <1>2, <2>3, <3>1
    <3> QED BY <1>4, <2>1, <2>4, <2>5, <3>2
  <2>6. CASE input.byte = KBD_SCAN_CODE_SET_2
    <3>1. kbd' = Answered(kbd, <<KBD_RESEND>>) \/ kbd' = Answered(k3, <<KBD_ACK>>)
      BY <2>1, <2>2, <2>6, BytesDiffer DEF KeyboardAnswers
    <3>2. kbd'.queue = <<KBD_RESEND>> \/ (kbd'.queue = <<KBD_ACK>> /\ kbd'.set = 2)
      <4>1. CASE kbd' = Answered(kbd, <<KBD_RESEND>>)
        BY <1>1, <1>2, <4>1
      <4>2. CASE kbd' = Answered(k3, <<KBD_ACK>>)
        BY <1>2, <2>3, <4>2
      <4> QED BY <3>1, <4>1, <4>2
    <3> QED BY <1>4, <2>1, <2>4, <2>6, <3>2
  <2>7. CASE input.byte = KBD_CMD_GET_SCAN_CODE_SET
    <3>1. CASE kbd.awaits
      <4>1. kbd' = Answered(k2, <<KBD_ACK, SetByte[kbd.set]>>)
        BY <2>1, <2>2, <2>7, <3>1, BytesDiffer DEF KeyboardAnswers
      <4>2. kbd'.queue = <<KBD_ACK, SetByte[kbd.set]>> /\ kbd'.set = kbd.set
        BY <1>2, <2>3, <4>1
      <4> QED BY <1>4, <2>1, <2>4, <2>7, <4>2
    <3>2. CASE ~kbd.awaits
      <4>1. kbd' = Answered(kbd, <<KBD_RESEND>>)
        BY <2>1, <2>7, <3>2, BytesDiffer DEF KeyboardAnswers
      <4>2. kbd'.set = kbd.set
        BY <1>1, <1>2, <4>1
      <4> QED BY <1>4, <2>1, <2>4, <2>7, <3>2, <4>2
    <3> QED BY <3>1, <3>2
  <2> QED BY <1>4, <2>1, <2>5, <2>6, <2>7
<1> QED BY <1>3, <1>4

(* The controller and the keyboard keep it.                                *)
LEMMA PromptByController ==
  ASSUME Types, InputInv, ConfigInv, PromptInv, Controller \/ Type
  PROVE  PromptInv'
<1>0. SUFFICES ASSUME Prompt' PROVE Prompted'
  BY DEF PromptInv
<1> USE DEF Start, Configuring, Checking, Resetting, Polling, Final
<1>1. /\ output \in OutputType /\ ctl \in ControllerType /\ kbd \in KeyboardType
      /\ ctl.owed \in Seq(Byte) /\ ctl.config \in Byte /\ ctl.awaits \in BOOLEAN
      /\ kbd.queue \in Seq(AllBytes)
      /\ input \in [full : BOOLEAN, command : BOOLEAN, byte : Byte \cup Commands]
      /\ used \in UsedType /\ at \in Labels
  BY Fields DEF Types
<1>2. at' = at /\ result' = result /\ config_byte' = config_byte /\ late' = late
  BY DEF Controller, Type, TakeCommand, TakeConfig, Forward, Garbled, Answer, KeyboardSends, driver
<1>3. CASE Type
  <2>1. used'.typed = used.typed + 1 /\ used.typed \in Nat
    BY <1>1, <1>3 DEF Type, UsedType
  <2>2. used'.typed = 0
    BY <1>0 DEF Prompt
  <2> QED BY <2>1, <2>2
<1> SUFFICES ASSUME Controller PROVE Prompted'
  BY <1>3
<1>4. late = FALSE /\ kbd.discards = TRUE /\ Prompt /\ Prompted
  <2>1. kbd'.discards = kbd.discards /\ used'.typed = used.typed
    <3>1. CASE Forward \/ Garbled
      BY <3>1, ByteForwarded
    <3>2. CASE ~(Forward \/ Garbled)
      BY <1>1, <3>2 DEF Controller, TakeCommand, TakeConfig, Answer, KeyboardSends, KeyboardType
    <3> QED BY <3>1, <3>2
  <2>2. Prompt
    BY <1>0, <1>2, <2>1 DEF Prompt
  <2>3. late \in BOOLEAN /\ kbd.discards \in BOOLEAN
    BY Fields DEF Types
  <2> QED BY <2>2, <2>3 DEF Prompt, PromptInv
<1>5. /\ TestsInv
      /\ at \in Start \cup Configuring \cup Checking \cup Resetting => QuietInv
      /\ result = "FAILURE" => FailedInv
      /\ result # "FAILURE" => AnswersInv
  BY <1>4 DEF Prompted
<1>6. CASE TakeCommand
  <2>1. /\ input.full = TRUE /\ input.command = TRUE /\ input'.full = FALSE
        /\ output' = output /\ kbd' = kbd /\ used' = used
        /\ ctl'.owed = Owed(input.byte, ctl.config, ctl.owed)
        /\ ctl'.awaits = (ctl.awaits \/ input.byte = "WRITE_BYTE_0")
        /\ input.byte \in Commands /\ at \in WhileCommand(input.byte)
    BY <1>1, <1>6, CommandTaken, WhileWaiting
  <2>2. /\ at \in {"disable_2", "flush", "flush_again", "ask_config", "config", "config_again",
                   "new_config", "old_config", "tested", "port_tested", "port_reset", "set",
                   "enable_1"}
        /\ at = "tested" => input.byte = "CONTLR_SELF_TEST"
        /\ at = "port_tested" => input.byte = "PORT_1_SELF_TEST"
        /\ at \in {"new_config", "old_config"} => input.byte = "WRITE_BYTE_0"
        /\ at = "port_reset" => input.byte = "PORT1_RESET"
        /\ at = "set" => input.byte = "PORT1_RESET"
        /\ at = "enable_1" => input.byte = "PORT_1_ENABLE"
    <3>1. at \notin {"ask_config_again", "resend_config", "test_port"}
      BY <1>4, <2>1 DEF ConfigInv, Data
    <3>2. at \notin {"send_config", "reset_port"}
      BY <1>5, <2>1 DEF TestsInv
    <3> QED BY <2>1, <3>1, <3>2 DEF WhileCommand, Commands
  <2>3. at \in Start \cup Configuring \cup Checking \cup Resetting => QuietInv'
    BY <1>2, <1>5, <2>1, <2>2 DEF QuietInv
  <2>4. at \in {"tested", "port_tested"} => ctl.owed = <<>>
    BY <1>5, <2>1 DEF TestsInv, OnlyAnswer
  <2>5. \A b : Append(<<>>, b) = <<b>>
    OBVIOUS
  <2>6. TestsInv'
    <3>1. CASE at = "tested"
      <4>1. ctl'.owed = <<CONTLR_SELF_TEST_OK>>
        BY <2>1, <2>2, <2>4, <2>5, <3>1 DEF Owed
      <4> QED BY <1>2, <2>1, <3>1, <4>1 DEF TestsInv, OnlyAnswer
    <3>2. CASE at = "port_tested"
      <4>1. ctl'.owed = <<PORT_1_SELF_TEST_OK>>
        BY <2>1, <2>2, <2>4, <2>5, <3>2 DEF Owed
      <4> QED BY <1>2, <2>1, <3>2, <4>1 DEF TestsInv, OnlyAnswer
    <3>3. CASE at \in {"new_config", "old_config", "port_reset", "set", "enable_1"}
      <4>1. ctl'.owed = ctl.owed
        BY <2>1, <2>2, <3>3 DEF Owed
      <4> QED BY <1>2, <1>5, <2>1, <3>3, <4>1 DEF TestsInv
    <3>4. CASE at \in {"disable_2", "flush", "flush_again", "ask_config", "config", "config_again"}
      BY <1>2, <3>4 DEF TestsInv
    <3> QED BY <2>2, <3>1, <3>2, <3>3, <3>4
  <2>7. result # "FAILURE" => AnswersInv'
    <3>1. NoAnswer' = NoAnswer
      BY <2>1 DEF NoAnswer, Unshown
    <3> QED BY <1>2, <1>5, <2>1, <2>2, <3>1 DEF AnswersInv
  <2>8. result # "FAILURE"
    BY <1>5, <2>2 DEF FailedInv
  <2> QED BY <1>2, <2>3, <2>6, <2>7, <2>8 DEF Prompted
<1>7. CASE TakeConfig
  <2>1. /\ input.full = TRUE /\ input.command = FALSE /\ ctl.awaits = TRUE
        /\ input'.full = FALSE /\ output' = output /\ kbd' = kbd /\ ctl'.owed = ctl.owed
    BY <1>1, <1>7 DEF TakeConfig, ControllerType
  <2>2. at \in {"test", "test_port"}
    <3>1. at \notin Polling \cup Final
      BY <1>4, <2>1 DEF ConfigInv
    <3> QED BY <2>1, <3>1, WhileWaiting
  <2>3. QuietInv' /\ TestsInv'
    BY <1>2, <1>5, <2>1, <2>2 DEF QuietInv, TestsInv
  <2>4. result # "FAILURE"
    BY <1>5, <2>2 DEF FailedInv
  <2> QED BY <1>2, <2>2, <2>3, <2>4 DEF Prompted, AnswersInv
<1>8. CASE Forward \/ Garbled
  <2>1. /\ input.full = TRUE /\ input.command = FALSE /\ ctl.awaits = FALSE
        /\ input'.full = FALSE /\ ctl'.owed = ctl.owed
        /\ ctl'.config = ctl.config \ {PORT1_CLK_DISABLE}
        /\ output'.full = (output.full /\ ~output.kbd)
    <3>1. /\ input.full /\ ~input.command /\ ~ctl.awaits
          /\ input' = [input EXCEPT !.full = FALSE]
          /\ output' = [output EXCEPT !.full = output.full /\ ~Discarded]
          /\ ctl' = [ctl EXCEPT !.config = ctl.config \ {PORT1_CLK_DISABLE}]
      BY <1>8, ByteForwarded
    <3>2. Discarded = output.kbd
      BY <1>1, <1>4 DEF Discarded, OutputType
    <3> QED BY <1>1, <3>1, <3>2 DEF ControllerType, OutputType
  <2>2. \/ at \in {"to_set_2", "which_set"} /\ input.byte = KBD_CMD_GET_SET_SCAN_CODE_SET
        \/ at \in {"set", "set_answer", "get"} /\ input.byte = KBD_SCAN_CODE_SET_2
        \/ at \in Final /\ input.byte = KBD_CMD_GET_SCAN_CODE_SET
    <3>1. at \notin {"test", "test_port"}
      BY <1>5, <2>1 DEF QuietInv
    <3> QED BY <2>1, <3>1, WhileWaiting
  <2>3. TestsInv'
    BY <1>2, <1>5, <2>1, <2>2 DEF TestsInv
  <2>4. /\ Translate \in ctl'.config <=> Translate \in ctl.config
        /\ NotGarbled' => NotGarbled /\ Forward
        /\ Garbled => kbd'.queue = <<KBD_RESEND>> /\ kbd'.set = kbd.set /\ ~NotGarbled'
    <3>1. Translate # PORT1_CLK_DISABLE
      BY DEF Translate, PORT1_CLK_DISABLE
    <3>2. NotGarbled' => NotGarbled /\ Forward
      BY <1>4, <1>8, Forgetting DEF NotGarbled
    <3>3. Garbled => kbd'.queue = <<KBD_RESEND>> /\ kbd'.set = kbd.set /\ ~NotGarbled'
      BY <1>4, <1>8, Forgetting DEF NotGarbled
    <3> QED BY <2>1, <3>1, <3>2, <3>3
  <2>5. CASE result = "FAILURE"
    <3>1. FailedInv'
      BY <1>2, <1>5, <2>4, <2>5 DEF FailedInv
    <3> QED BY <1>2, <2>2, <2>3, <2>5, <3>1 DEF Prompted
  <2>6. CASE result # "FAILURE"
    <3>1. AnswersInv
      BY <1>5, <2>6
    <3>2. NoAnswer \/ Reply => output'.full = FALSE
      BY <1>1, <2>1 DEF NoAnswer, Reply, OneAnswer, Unshown, ShownByte, OutputType
    <3>3. CASE at \in {"to_set_2", "which_set"}
      <4>1. NoAnswer
        BY <2>1, <3>1, <3>3 DEF AnswersInv
      <4>2. input.byte = KBD_CMD_GET_SET_SCAN_CODE_SET
        BY <2>2, <3>3
      <4>3. /\ kbd'.queue = <<KBD_ACK>> \/ kbd'.queue = <<KBD_RESEND>>
            /\ NotGarbled' => kbd'.awaits
            /\ kbd'.set = kbd.set
        BY <1>4, <1>8, <2>4, <4>2, Forgetting
      <4>4. Reply'
        BY <3>2, <4>1, <4>3 DEF Reply, OneAnswer, Unshown
      <4>5. AnswersInv'
        BY <1>2, <2>1, <3>1, <3>3, <4>3, <4>4 DEF AnswersInv
      <4> QED BY <1>2, <2>3, <2>6, <3>3, <4>5 DEF Prompted
    <3>4. CASE at = "set_answer"
      <4>1. Reply
        BY <2>1, <3>1, <3>4 DEF AnswersInv
      <4>2. input.byte = KBD_SCAN_CODE_SET_2
        BY <2>2, <3>4
      <4>3. kbd'.queue = <<KBD_RESEND>> \/ (kbd'.queue = <<KBD_ACK>> /\ kbd'.set = 2)
        BY <1>4, <1>8, <2>4, <4>2, Forgetting
      <4>4. OneAnswer(KBD_RESEND)' \/ (OneAnswer(KBD_ACK)' /\ kbd'.set = 2)
        BY <3>2, <4>1, <4>3 DEF OneAnswer, Unshown
      <4>5. AnswersInv'
        BY <1>2, <2>1, <3>4, <4>4 DEF AnswersInv
      <4> QED BY <1>2, <2>3, <2>6, <3>4, <4>5 DEF Prompted
    <3>5. CASE at = "get_answer"
      <4>1. Reply /\ (NotGarbled => kbd.awaits) /\ kbd.set = 2
        BY <2>1, <3>1, <3>5 DEF AnswersInv
      <4>2. input.byte = KBD_CMD_GET_SCAN_CODE_SET
        BY <2>2, <3>5
      <4>3. NotGarbled' => kbd'.queue = <<KBD_ACK, SetByte[kbd.set]>>
        BY <1>4, <1>8, <2>4, <4>1, <4>2, Forgetting
      <4>4. kbd'.set = 2
        BY <1>4, <1>8, <2>4, <4>1, <4>2, Forgetting
      <4>5. SetByte[2] = {1}
        BY DEF SetByte
      <4>6. NotGarbled' => SetFollows'
        BY <3>2, <4>1, <4>3, <4>5 DEF SetFollows, Unshown
      <4>7. AnswersInv'
        BY <1>2, <2>1, <3>5, <4>4, <4>6 DEF AnswersInv
      <4> QED BY <1>2, <2>3, <2>6, <3>5, <4>7 DEF Prompted
    <3>6. CASE at \in {"set", "get", "set_got"}
      BY <2>1, <3>1, <3>6 DEF AnswersInv
    <3>7. CASE at = "enable_1"
      BY <1>2, <2>3, <2>6, <3>7 DEF Prompted, AnswersInv
    <3> QED BY <2>2, <3>3, <3>4, <3>5, <3>6, <3>7
  <2> QED BY <2>5, <2>6
<1>9. CASE Answer
  <2>1. /\ input' = input /\ kbd' = kbd /\ ctl.owed # <<>> /\ ctl'.awaits = ctl.awaits
        /\ ctl'.owed = Tail(ctl.owed) /\ output'.byte = Head(ctl.owed)
    BY <1>1, <1>9 DEF Answer, ControllerType, OutputType
  <2>2. /\ at \notin {"send_config", "new_config", "test", "resend_config", "old_config",
                      "test_port"} \cup Resetting \cup Polling \cup Final
    BY <1>5, <2>1 DEF TestsInv
  <2>3. TestsInv'
    <3>1. \A b : OnlyAnswer(b) => OnlyAnswer(b)'
      <4>1. SUFFICES ASSUME NEW b, OnlyAnswer(b) PROVE OnlyAnswer(b)'
        OBVIOUS
      <4>2. ctl.owed = <<b>> /\ ~input.full
        BY <2>1, <4>1 DEF OnlyAnswer
      <4>3. ctl'.owed = <<>> /\ output'.byte = b
        BY <2>1, <4>2
      <4> QED BY <2>1, <4>2, <4>3 DEF OnlyAnswer
    <3>2. /\ at = "tested" => OnlyAnswer(CONTLR_SELF_TEST_OK)'
          /\ at = "port_tested" => OnlyAnswer(PORT_1_SELF_TEST_OK)'
      BY <1>5, <3>1 DEF TestsInv
    <3> QED BY <1>2, <2>2, <3>2 DEF TestsInv
  <2>4. at \in Start \cup Configuring \cup Checking \cup Resetting => QuietInv'
    BY <1>2, <1>5, <2>1 DEF QuietInv
  <2>5. result # "FAILURE"
    BY <1>5, <2>2 DEF FailedInv
  <2> QED BY <1>2, <2>2, <2>3, <2>4, <2>5 DEF Prompted, AnswersInv
<1>10. CASE KeyboardSends
  <2>1. /\ input' = input /\ ctl' = ctl /\ used' = used /\ kbd.queue # <<>>
        /\ output.full = FALSE /\ output'.full = TRUE /\ output'.kbd = TRUE
        /\ output'.byte = Sent(Head(kbd.queue)) /\ kbd'.queue = Tail(kbd.queue)
        /\ kbd'.set = kbd.set /\ kbd'.awaits = kbd.awaits
    BY <1>1, <1>10 DEF KeyboardSends, KeyboardType, OutputType
  <2>2. at \in Polling \cup Final
    <3>1. at \notin Start \cup Configuring \cup Checking \cup Resetting
      BY <1>5, <2>1 DEF QuietInv
    <3> QED BY <1>1, <3>1 DEF Labels
  <2>3. TestsInv'
    BY <1>2, <1>5, <2>1, <2>2 DEF TestsInv
  <2>4. CASE result = "FAILURE"
    BY <1>2, <1>5, <2>1, <2>2, <2>3, <2>4 DEF Prompted, FailedInv, NotGarbled
  <2>5. CASE result # "FAILURE"
    <3>1. AnswersInv
      BY <1>5, <2>5
    <3>2. /\ Sent(KBD_ACK) = KBD_ACK /\ Sent(KBD_RESEND) = KBD_RESEND
          /\ Translate \in ctl.config => Sent({1}) = SCAN_CODE_SET2
      BY BytesDiffer DEF Sent
    <3>3. ~NoAnswer
      BY <2>1 DEF NoAnswer, Unshown
    <3>4. ASSUME NEW b, OneAnswer(b), Sent(b) = b PROVE OneAnswer(b)'
      <4>1. kbd.queue = <<b>>
        BY <2>1, <3>4 DEF OneAnswer, Unshown, ShownByte
      <4>2. kbd'.queue = <<>> /\ output'.byte = b
        BY <2>1, <3>4, <4>1
      <4> QED BY <2>1, <4>2 DEF OneAnswer, ShownByte
    <3>5. /\ OneAnswer(KBD_ACK) => OneAnswer(KBD_ACK)'
          /\ OneAnswer(KBD_RESEND) => OneAnswer(KBD_RESEND)'
          /\ Reply => Reply'
      BY <3>2, <3>4 DEF Reply
    <3>6. SetFollows => SetFollows'
      <4>1. SUFFICES ASSUME SetFollows PROVE SetFollows'
        OBVIOUS
      <4>2. kbd.queue = <<KBD_ACK, {1}>>
        BY <2>1, <4>1 DEF SetFollows, Unshown, ShownByte
      <4>3. kbd'.queue = <<{1}>> /\ output'.byte = KBD_ACK
        BY <2>1, <3>2, <4>2
      <4> QED BY <2>1, <4>3 DEF SetFollows, ShownByte
    <3>7. SetAlone => SetAlone'
      <4>1. SUFFICES ASSUME SetAlone PROVE SetAlone'
        OBVIOUS
      <4>2. kbd.queue = <<{1}>>
        BY <2>1, <4>1 DEF SetAlone, Unshown, ShownByte
      <4>3. kbd'.queue = <<>> /\ output'.byte = Sent({1})
        BY <2>1, <4>2
      <4> QED BY <2>1, <3>2, <4>3 DEF SetAlone, ShownByte
    <3>8. NotGarbled' = NotGarbled
      BY <2>1 DEF NotGarbled
    <3>9. AnswersInv'
      BY <1>2, <2>1, <3>1, <3>3, <3>5, <3>6, <3>7, <3>8 DEF AnswersInv
    <3> QED BY <1>2, <2>2, <2>3, <2>5, <3>9 DEF Prompted
  <2> QED BY <2>4, <2>5
<1> QED BY <1>6, <1>7, <1>8, <1>9, <1>10 DEF Controller

(***************************************************************************)
(* The set-up of sound hardware that keeps up fails only in the            *)
(* verification, when the keyboard asked for a byte again (:558-595).      *)
(***************************************************************************)
THEOREM SoundHardwareSucceeds == Spec => []PromptSucceeds
<1>1. Init => PromptInv
  <2>1. ASSUME Init PROVE Prompted
    <3>1. /\ at = "disable_1" /\ result = "running" /\ input.full = FALSE
          /\ kbd.queue = <<>>
      BY <2>1 DEF Init
    <3> QED BY <3>1 DEF Prompted, QuietInv, TestsInv, AnswersInv, Resetting, Polling, Final
  <2> QED BY <2>1 DEF PromptInv
<1>2. IInv /\ PromptInv /\ [Next]_vars => PromptInv'
  <2>1. ASSUME IInv, PromptInv, Driver PROVE PromptInv'
    BY <2>1, PromptByDriver DEF IInv
  <2>2. ASSUME IInv, PromptInv, Controller \/ Type PROVE PromptInv'
    BY <2>2, PromptByController DEF IInv
  <2>3. ASSUME PromptInv, UNCHANGED vars PROVE PromptInv'
    BY <2>3 DEF vars, PromptInv, Prompt, Prompted, QuietInv, TestsInv, FailedInv, AnswersInv,
                OnlyAnswer, NoAnswer, Reply, OneAnswer, SetFollows, SetAlone, Unshown, ShownByte,
                NotGarbled
  <2> QED BY <2>1, <2>2, <2>3 DEF Next
<1>3. IInv /\ PromptInv => PromptSucceeds
  <2>1. ASSUME IInv, PromptInv, result = "FAILURE", Sound
        PROVE  used.resends > 0 /\ at \in {"get_answer", "set_got"}
    <3>1. Prompt /\ Translate \in ctl.config
      BY <2>1 DEF Sound, Prompt
    <3>2. at \in {"get_answer", "set_got"} /\ used.resends # 0
      BY <2>1, <3>1 DEF PromptInv, Prompted, FailedInv, NotGarbled
    <3>3. used.resends \in Nat
      BY <2>1 DEF IInv, Types, UsedType
    <3> QED BY <3>2, <3>3
  <2> QED BY <2>1 DEF PromptSucceeds
<1> QED BY <1>1, <1>2, <1>3, Invariance, PTL DEF Spec
=============================================================================
