----------------------------- MODULE Bootloader -----------------------------
(***************************************************************************)
(* The bootloader (default configuration: console on UART0, SPI flash, auto *)
(* boot) with what it works on: the host that types commands and uploads    *)
(* executables, the one-entry receive FIFO between them, the serial flash,  *)
(* and the timer interrupt.  The processor may be reset, and the power may  *)
(* fail, at every step; the flash keeps its contents.                       *)
(***************************************************************************)
EXTENDS BootImage, Functions

CONSTANTS
  Files,        (* Raw binaries that the host has.                          *)
  Stored,       (* Of these, the ones that may be in the flash at first.    *)
  Keys,         (* The characters that the host types.                      *)
  ImemWords,    (* Size of the instruction memory.                          *)
  SectorBytes,  (* SPI_FLASH_SECTOR_SIZE, 65536 in the code.                *)
  FlashBytes,
  RxDepth,      (* IO_UART0_RX_FIFO, 1 by default.                          *)
  MaxKeys, MaxUploads, MaxResets, MaxLost   (* Bounds of the faults and the input.      *)

ASSUME FilesAssumption == Files \union Stored \subseteq Seq(Bytes)
ASSUME KeysAssumption == Range(Keys) \subseteq Bytes
ASSUME ImemAssumption == ImemWords \in Nat
ASSUME SectorAssumption == SectorBytes \in Nat \ {0}
ASSUME RxAssumption == RxDepth \in Nat
(* The flash has room for the largest executable and its header. *)
ASSUME FlashAssumption == FlashBytes \in Nat /\ FlashBytes >= EXE_OFFSET_DATA + 4 * ImemWords

VARIABLES
  pc,
  cmd,            (* The command being served: auto, upload, load, store.   *)
  exe_available, getting_exe,
  irqs,           (* mstatus.MIE; the timer interrupt is the one enabled.   *)
  led,            (* Status LED.                                            *)
  imem,
  get,            (* Locals of get_exe: field, bytes of the word, and so on. *)
  save,           (* Locals of save_exe: sectors left, word and byte.       *)
  flash,          (* External: contents, WEL and the operation in progress. *)
  rx,             (* External: receive FIFO of UART0.                       *)
  host,           (* External: bytes still to be sent, and the budgets.     *)
  started         (* What was started: the words of IMEM, or none.          *)

vars == <<pc, cmd, exe_available, getting_exe, irqs, led, imem, get, save, flash, rx, host, started>>

None == <<>>
Idle == [op |-> "none", addr |-> 0, data |-> 0]
NoGet  == [field |-> 0, bytes |-> <<>>, size |-> 0, check |-> 0, sum |-> 0, i |-> 0]
NoSave == [sectors |-> 0, sector |-> 0, word |-> 0, byte |-> 0]

StoredImage(f) ==
  LET b == app_bin(f)
  IN  [x \in 0 .. FlashBytes - 1 |->
         IF x < Len(b) THEN b[4 * (x \div 4) + 4 - (x % 4)] ELSE Erased]

Init ==
  /\ pc = "crt0"
  /\ cmd = "none"
  /\ exe_available = 0 /\ getting_exe = FALSE
  /\ irqs = FALSE
  /\ led \in BOOLEAN
  /\ imem = [x \in 0 .. ImemWords - 1 |-> 0]
  /\ get = NoGet /\ save = NoSave
  /\ \E m \in {StoredImage(f) : f \in Stored} \union {[x \in 0 .. FlashBytes - 1 |-> Erased]} :
       flash = [mem |-> m, wel |-> FALSE, op |-> Idle]
  /\ rx = <<>>
  /\ host = [todo |-> <<>>, keys |-> 0, uploads |-> 0, lost |-> 0, resets |-> 0]
  /\ started = None

Goto(l) == pc' = l

-----------------------------------------------------------------------------
(* system_error, and the traps that end there. *)

system_error == Goto("error")

(* bootloader_trap_handler, for a store that finds no memory. *)
StoreFault ==
  /\ irqs' = FALSE
  /\ IF getting_exe THEN system_error ELSE UNCHANGED pc

(* Mutant: the interrupts stay on. *)
Error_IrqsOn ==
  /\ pc = "error"
  /\ Goto("lit")
  /\ UNCHANGED <<cmd, exe_available, getting_exe, irqs, led, imem, get, save, flash, rx, host, started>>

(* Interrupts go off before the LED is switched on for good. *)
Error ==
  /\ pc = "error"
  /\ irqs' = FALSE
  /\ Goto("lit")
  /\ UNCHANGED <<cmd, exe_available, getting_exe, led, imem, get, save, flash, rx, host, started>>

Lit ==
  /\ pc = "lit"
  /\ led' = TRUE
  /\ Goto("frozen")
  /\ UNCHANGED <<cmd, exe_available, getting_exe, irqs, imem, get, save, flash, rx, host, started>>

(* The heart beat: the timer interrupt toggles the LED. *)
TimerTrap ==
  /\ irqs
  /\ led' = ~led
  /\ UNCHANGED <<pc, cmd, exe_available, getting_exe, irqs, imem, get, save, flash, rx, host, started>>

-----------------------------------------------------------------------------
(* Start-up code and main. *)

Crt0 ==
  /\ pc = "crt0"
  /\ irqs' = FALSE
  /\ exe_available' = 0 /\ getting_exe' = FALSE      \* .bss
  /\ cmd' = "none" /\ get' = NoGet /\ save' = NoSave  \* locals of the last run
  /\ Goto("main")
  /\ UNCHANGED <<led, imem, flash, rx, host, started>>

(* The set-up of the UART passes through its disabled state, which empties  *)
(* the FIFO.                                                                *)
Main ==
  /\ pc = "main"
  /\ exe_available' = 0
  /\ getting_exe' = FALSE
  /\ led' = TRUE
  /\ rx' = <<>>
  /\ irqs' = TRUE
  /\ Goto("autoboot")
  /\ UNCHANGED <<cmd, imem, get, save, flash, host, started>>

(* Any key, which is consumed. *)
AbortAutoBoot ==
  /\ pc = "autoboot"
  /\ rx # <<>>
  /\ rx' = Tail(rx)
  /\ Goto("prompt")
  /\ UNCHANGED <<cmd, exe_available, getting_exe, irqs, led, imem, get, save, flash, host, started>>

(* Common to the two ways into get_exe. *)
EnterGetExe(source) ==
  /\ cmd' = source
  /\ getting_exe' = TRUE
  /\ get' = NoGet
  /\ Goto(IF source = "upload" THEN "get" ELSE "wren")

AutoBoot ==
  /\ pc = "autoboot"
  /\ EnterGetExe("auto")
  /\ UNCHANGED <<exe_available, irqs, led, imem, save, flash, rx, host, started>>

(* The console; keys without an effect: h, ? and the invalid ones. *)
Console ==
  /\ pc = "prompt"
  /\ rx # <<>>
  /\ rx' = Tail(rx)
  /\ LET c == Head(rx)
     IN  \/ c = Keys.u /\ EnterGetExe("upload") /\ UNCHANGED save
         \/ c = Keys.l /\ EnterGetExe("load") /\ UNCHANGED save
         \/ /\ c = Keys.s
            /\ Goto(IF exe_available = 0 THEN "prompt" ELSE "confirm")
            /\ UNCHANGED <<cmd, getting_exe, get, save>>
         \/ /\ c = Keys.e
            /\ Goto(IF exe_available = 0 THEN "prompt" ELSE "start")
            /\ UNCHANGED <<cmd, getting_exe, get, save>>
         \/ /\ c = Keys.r
            /\ Goto("crt0")
            /\ UNCHANGED <<cmd, getting_exe, get, save>>
         \/ /\ c \notin {Keys.u, Keys.l, Keys.s, Keys.e, Keys.r}
            /\ UNCHANGED <<pc, cmd, getting_exe, get, save>>
  /\ UNCHANGED <<exe_available, irqs, led, imem, flash, host, started>>

(* start_app: interrupts off, then the messages, then the jump. *)
StartApp ==
  /\ pc = "start"
  /\ irqs' = FALSE
  /\ Goto("jump")
  /\ UNCHANGED <<cmd, exe_available, getting_exe, led, imem, get, save, flash, rx, host, started>>

Jump ==
  /\ pc = "jump"
  /\ started' = [k \in 1 .. ImemWords |-> imem[k - 1]]
  /\ Goto("app")
  /\ UNCHANGED <<cmd, exe_available, getting_exe, irqs, led, imem, get, save, flash, rx, host>>

-----------------------------------------------------------------------------
(* get_exe *)

DataWords == get.size \div 4
Complete  == get.field = 3 /\ get.i >= DataWords

(* One character of the word being assembled. *)
GetByte ==
  /\ pc = "get" /\ cmd = "upload" /\ ~Complete
  /\ Len(get.bytes) < 4
  /\ rx # <<>>
  /\ get' = [get EXCEPT !.bytes = Append(@, Head(rx))]
  /\ rx' = Tail(rx)
  /\ UNCHANGED <<pc, cmd, exe_available, getting_exe, irqs, led, imem, save, flash, host, started>>

(* Mutant: the bytes are read in ascending order. *)
get_exe_word_Unswapped(addr) ==
  IF cmd = "upload" THEN uint32(get.bytes)
  ELSE uint32([i \in 1 .. 4 |-> flash.mem[addr + i - 1]])

(* get_exe_word, once the four characters are there or from the flash; a    *)
(* flash that is busy ignores the command, and the line reads as ones.      *)
get_exe_word(addr) ==
  IF cmd = "upload" THEN uint32(get.bytes)
  ELSE IF flash.op # Idle THEN WordSize - 1
  ELSE FlashWord(flash.mem, addr)

(* The word is the signature, the size, the checksum or one of the program. *)
(* A store behind the instruction memory raises an access fault, which the  *)
(* trap handler turns into an error while an executable is fetched; the     *)
(* handler runs with interrupts off.                                        *)
GetWord ==
  /\ pc = "get" /\ ~Complete
  /\ cmd = "upload" => Len(get.bytes) = 4
  /\ \/ /\ get.field = 0
        /\ IF get_exe_word(EXE_OFFSET_SIGNATURE) # EXE_SIGNATURE
           THEN system_error /\ UNCHANGED get
           ELSE get' = [get EXCEPT !.bytes = <<>>, !.field = 1] /\ UNCHANGED pc
        /\ UNCHANGED <<imem, irqs>>
     \/ /\ get.field = 1
        /\ get' = [get EXCEPT !.bytes = <<>>, !.field = 2, !.size = get_exe_word(EXE_OFFSET_SIZE)]
        /\ UNCHANGED <<pc, imem, irqs>>
     \/ /\ get.field = 2
        /\ get' = [get EXCEPT !.bytes = <<>>, !.field = 3,
                              !.check = get_exe_word(EXE_OFFSET_CHECKSUM)]
        /\ UNCHANGED <<pc, imem, irqs>>
     \/ /\ get.field = 3
        /\ LET d == get_exe_word(EXE_OFFSET_DATA + 4 * get.i)
           IN  IF get.i < ImemWords
               THEN /\ imem' = [imem EXCEPT ![get.i] = d]
                    /\ get' = [get EXCEPT !.bytes = <<>>, !.sum = (@ + d) % WordSize, !.i = @ + 1]
                    /\ UNCHANGED <<pc, irqs>>
               ELSE StoreFault /\ UNCHANGED <<imem, get>>
  /\ UNCHANGED <<cmd, exe_available, getting_exe, led, save, flash, rx, host, started>>

(* Mutant: the complement is not checked. *)
Verify_Unchecked ==
  /\ pc = "get" /\ Complete
  /\ exe_available' = get.size
  /\ getting_exe' = FALSE
  /\ Goto(IF cmd = "auto" THEN "start" ELSE "prompt")
  /\ cmd' = "none" /\ get' = NoGet
  /\ UNCHANGED <<irqs, led, imem, save, flash, rx, host, started>>

Verify ==
  /\ pc = "get" /\ Complete
  /\ IF (get.sum + get.check) % WordSize # 0
     THEN system_error /\ UNCHANGED <<exe_available, getting_exe>>
     ELSE /\ exe_available' = get.size
          /\ getting_exe' = FALSE
          /\ Goto(IF cmd = "auto" THEN "start" ELSE "prompt")
  /\ cmd' = "none" /\ get' = NoGet
  /\ UNCHANGED <<irqs, led, imem, save, flash, rx, host, started>>

-----------------------------------------------------------------------------
(* The flash driver.  A flash that is busy ignores every command but the    *)
(* reading of its status.                                                   *)

WriteEnable  == flash' = IF flash.op = Idle THEN [flash EXCEPT !.wel = TRUE] ELSE flash
WriteDisable == flash' = IF flash.op = Idle THEN [flash EXCEPT !.wel = FALSE] ELSE flash
Accept(op)   == flash' = IF flash.op = Idle /\ flash.wel THEN [flash EXCEPT !.op = op] ELSE flash

(* Mutant: it is enough that WEL is set. *)
FlashCheck_SetOnly ==
  /\ \/ pc = "wren"  /\ WriteEnable /\ Goto("set?")
     \/ /\ pc = "set?"
        /\ UNCHANGED flash
        /\ IF flash.wel THEN Goto(IF cmd = "store" THEN "enable" ELSE "get") ELSE system_error
  /\ UNCHANGED <<cmd, exe_available, getting_exe, irqs, led, imem, get, save, rx, host, started>>

(* spi_flash_check: WEL can be set, and cleared again. *)
FlashCheck ==
  /\ \/ pc = "wren"  /\ WriteEnable /\ Goto("set?")
     \/ pc = "set?"  /\ UNCHANGED flash /\ IF flash.wel THEN Goto("wrdi") ELSE system_error
     \/ pc = "wrdi"  /\ WriteDisable /\ Goto("clear?")
     \/ /\ pc = "clear?"
        /\ UNCHANGED flash
        /\ IF flash.wel THEN system_error ELSE Goto(IF cmd = "store" THEN "enable" ELSE "get")
  /\ UNCHANGED <<cmd, exe_available, getting_exe, irqs, led, imem, get, save, rx, host, started>>

-----------------------------------------------------------------------------
(* save_exe *)

Confirm ==
  /\ pc = "confirm"
  /\ rx # <<>>
  /\ rx' = Tail(rx)
  /\ IF Head(rx) = Keys.y
     THEN /\ save' = [NoSave EXCEPT !.sectors = exe_available \div SectorBytes + 1]
          /\ cmd' = "store"
          /\ Goto("wren")
     ELSE Goto("prompt") /\ UNCHANGED <<cmd, save>>
  /\ UNCHANGED <<exe_available, getting_exe, irqs, led, imem, get, flash, host, started>>

SaveWords == exe_available \div 4

(* Signature, size, the program, and its sum complement at the end. *)
SaveWord(n) ==
  CASE n = 0 -> [addr |-> EXE_OFFSET_SIGNATURE, data |-> EXE_SIGNATURE]
    [] n = 1 -> [addr |-> EXE_OFFSET_SIZE, data |-> exe_available]
    [] n \in 2 .. SaveWords + 1 -> [addr |-> EXE_OFFSET_DATA + 4 * (n - 2), data |-> imem[n - 2]]
    [] OTHER -> [addr |-> EXE_OFFSET_CHECKSUM,
                 data |-> Neg(SumOf([k \in 1 .. SaveWords |-> imem[k - 1]]))]

(* Mutant: five bytes to a word. *)
LastByte_Five == 4
LastByte == 3

(* The next sector, byte or word, or the end. *)
NextWrite ==
  LET last == save.word = SaveWords + 2
  IN  IF save.sectors > 0
      THEN /\ save' = [save EXCEPT !.sectors = @ - 1, !.sector = @ + SectorBytes]
           /\ Goto("enable")
      ELSE IF save.byte < LastByte
      THEN save' = [save EXCEPT !.byte = @ + 1] /\ Goto("enable")
      ELSE IF last
      THEN Goto("stored") /\ UNCHANGED save
      ELSE save' = [save EXCEPT !.byte = 0, !.word = @ + 1] /\ Goto("enable")

(* Every erase and every byte: allow the write access, give the command,    *)
(* wait until the write-in-progress flag is cleared.                        *)
SaveEnable ==
  /\ pc = "enable"
  /\ WriteEnable
  /\ Goto("command")
  /\ UNCHANGED <<cmd, exe_available, getting_exe, irqs, led, imem, get, save, rx, host, started>>

SaveCommand ==
  /\ pc = "command"
  /\ Accept(IF save.sectors > 0
            THEN [op |-> "erase", addr |-> save.sector, data |-> 0]
            ELSE [op |-> "program", addr |-> SaveWord(save.word).addr + (3 - save.byte),
                  data |-> uint8(SaveWord(save.word).data, save.byte)])
  /\ Goto("poll")
  /\ UNCHANGED <<cmd, exe_available, getting_exe, irqs, led, imem, get, save, rx, host, started>>

(* Mutant: one look at the flag, instead of waiting for it. *)
SavePoll_Once ==
  /\ pc = "poll"
  /\ NextWrite
  /\ UNCHANGED <<cmd, exe_available, getting_exe, irqs, led, imem, get, flash, rx, host, started>>

SavePoll ==
  /\ pc = "poll"
  /\ flash.op = Idle
  /\ NextWrite
  /\ UNCHANGED <<cmd, exe_available, getting_exe, irqs, led, imem, get, flash, rx, host, started>>

(* "OK" is printed, and the console goes on. *)
Stored_OK ==
  /\ pc = "stored"
  /\ Goto("prompt")
  /\ save' = NoSave
  /\ UNCHANGED <<cmd, exe_available, getting_exe, irqs, led, imem, get, flash, rx, host, started>>

-----------------------------------------------------------------------------
(* External: the flash ends an operation, the host sends, and faults.       *)

(* Programming clears bits. *)
And(a, b) ==
  LET both(p) == IF (a \div p) % 2 = 1 /\ (b \div p) % 2 = 1 THEN p ELSE 0
  IN  both(1) + both(2) + both(4) + both(8) + both(16) + both(32) + both(64) + both(128)

Effect(op) ==
  [x \in DOMAIN flash.mem |->
     CASE op.op = "erase" /\ x \in op.addr .. op.addr + SectorBytes - 1 -> Erased
       [] op.op = "program" /\ x = op.addr -> And(flash.mem[x], op.data)
       [] OTHER -> flash.mem[x]]

FlashDone ==
  /\ flash.op # Idle
  /\ flash' = [mem |-> Effect(flash.op), wel |-> FALSE, op |-> Idle]
  /\ UNCHANGED <<pc, cmd, exe_available, getting_exe, irqs, led, imem, get, save, rx, host, started>>

HostKey ==
  /\ pc \in {"autoboot", "prompt", "confirm"}
  /\ host.todo = <<>> /\ host.keys < MaxKeys
  /\ Len(rx) < RxDepth
  /\ \E k \in Range(Keys) : rx' = Append(rx, k)
  /\ host' = [host EXCEPT !.keys = @ + 1]
  /\ UNCHANGED <<pc, cmd, exe_available, getting_exe, irqs, led, imem, get, save, flash, started>>

(* The upload script sends the file once it has seen "Awaiting". *)
HostUpload ==
  /\ pc = "get" /\ cmd = "upload"
  /\ host.todo = <<>> /\ host.uploads < MaxUploads
  /\ \E f \in Files : host' = [host EXCEPT !.todo = app_bin(f), !.uploads = @ + 1]
  /\ UNCHANGED <<pc, cmd, exe_available, getting_exe, irqs, led, imem, get, save, flash, rx, started>>

(* A byte that finds the FIFO full is lost. *)
HostByte ==
  /\ host.todo # <<>>
  /\ IF Len(rx) < RxDepth
     THEN rx' = Append(rx, Head(host.todo)) /\ host' = [host EXCEPT !.todo = Tail(@)]
     ELSE /\ host.lost < MaxLost
          /\ host' = [host EXCEPT !.todo = Tail(@), !.lost = @ + 1]
          /\ UNCHANGED rx
  /\ UNCHANGED <<pc, cmd, exe_available, getting_exe, irqs, led, imem, get, save, flash, started>>

(* The reset of the processor; the host and the flash go on. *)
Reset ==
  /\ host.resets < MaxResets
  /\ Goto("crt0")
  /\ irqs' = FALSE
  /\ rx' = <<>>
  /\ host' = [host EXCEPT !.resets = @ + 1]
  /\ started' = None
  /\ UNCHANGED <<cmd, exe_available, getting_exe, led, imem, get, save, flash>>

(* A power failure also loses the memory, and it ends what the flash was    *)
(* doing, before or after it took effect.                                   *)
PowerFail ==
  /\ host.resets < MaxResets
  /\ Goto("crt0")
  /\ irqs' = FALSE
  /\ rx' = <<>>
  /\ host' = [host EXCEPT !.resets = @ + 1]
  /\ started' = None
  /\ imem' = [x \in DOMAIN imem |-> 0]
  /\ \E m \in {flash.mem, Effect(flash.op)} :
       flash' = [mem |-> m, wel |-> FALSE, op |-> Idle]
  /\ UNCHANGED <<cmd, exe_available, getting_exe, led, get, save>>

-----------------------------------------------------------------------------

Program ==
  \/ Crt0 \/ Main \/ AbortAutoBoot \/ AutoBoot \/ Console \/ StartApp \/ Jump \/ Error \/ Lit
  \/ GetByte \/ GetWord \/ Verify \/ FlashCheck
  \/ Confirm \/ SaveEnable \/ SaveCommand \/ SavePoll \/ Stored_OK

Next ==
  \/ Program
  \/ TimerTrap \/ FlashDone \/ HostKey \/ HostUpload \/ HostByte \/ Reset \/ PowerFail

(* The processor runs, and the flash ends what it began. *)
Spec == Init /\ [][Next]_vars /\ WF_vars(Program) /\ WF_vars(FlashDone)
-----------------------------------------------------------------------------

Labels ==
  {"crt0", "main", "autoboot", "prompt", "start", "jump", "app", "error", "lit", "frozen", "get",
   "wren", "set?", "wrdi", "clear?", "confirm", "enable", "command", "poll", "stored"}

TypeOK ==
  /\ pc \in Labels
  /\ cmd \in {"none", "auto", "upload", "load", "store"}
  /\ exe_available \in 0 .. WordSize - 1
  /\ getting_exe \in BOOLEAN /\ irqs \in BOOLEAN /\ led \in BOOLEAN
  /\ imem \in [0 .. ImemWords - 1 -> 0 .. WordSize - 1]
  /\ get.field \in 0 .. 3 /\ get.bytes \in UNION {[1 .. n -> Bytes] : n \in 0 .. 4}
  /\ get.i \in 0 .. ImemWords
  /\ save.word <= SaveWords + 2 /\ save.byte \in 0 .. 3
  /\ flash.mem \in [0 .. FlashBytes - 1 -> Bytes]
  /\ flash.op.addr \in 0 .. FlashBytes - 1
  /\ Len(rx) <= RxDepth
  /\ Len(started) \in {0, ImemWords}

Image(f, words) == \A k \in DOMAIN WordsOf(f) : words[k] = WordsOf(f)[k]
Fitting == {f \in Files \union Stored : Len(WordsOf(f)) <= ImemWords}

(* Only a complete executable is ever started: one that was lost a byte on  *)
(* the line, was cut off by a reset or a power failure while it was written *)
(* to the flash, or overwrote a part of the memory before it failed, is     *)
(* not.                                                                     *)
BootsWholeImage == started # None => \E f \in Fitting : Image(f, started)

(* When the console says that the executable is stored, the flash holds it: *)
(* every word of it reads back, behind the header that the loader asks for. *)
SavedIsBootable ==
  pc = "stored" => HoldsImage(flash.mem, [k \in 1 .. SaveWords |-> imem[k - 1]])

(* The flash is never asked for something while it is busy: a read would    *)
(* bring ones, a program command would be lost.  It may be busy with what   *)
(* was going on at a reset, and the check of WEL has to notice.             *)
FlashReady ==
  /\ pc = "get" /\ cmd # "upload" => flash.op = Idle
  /\ pc = "command" => flash.op = Idle /\ flash.wel

(* A bootloader that has stalled shows it: the LED stays on, the timer      *)
(* interrupt does not toggle it; and an application begins with interrupts  *)
(* off, no handler of the bootloader's is run under it.                     *)
StalledQuietly ==
  /\ pc \in {"lit", "frozen", "jump", "app"} => ~irqs
  /\ pc = "frozen" => led

(* A board that is left alone starts the executable that its flash holds.   *)
LeftAlone ==
  /\ host.todo = <<>> /\ host.keys = MaxKeys /\ host.uploads = MaxUploads /\ host.resets = MaxResets
  /\ rx = <<>> /\ flash.op = Idle
  /\ \E f \in Fitting : HoldsImage(flash.mem, WordsOf(f))
BootsUnattended == (pc = "autoboot" /\ LeftAlone) ~> started # None
=============================================================================
