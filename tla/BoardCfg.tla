------------------------------ MODULE BoardCfg ------------------------------
(***************************************************************************)
(* The board configuration of MF1 and the function key that resets it:     *)
(* flash_load_cfg, flash_save_cfg and flash_cfg_set_default of src/flash.c,*)
(* the start and the key part of the main loop of src/main.c, irq_gpiohs   *)
(* and update_key_state of src/board.c, proto_set_notify of                *)
(* src/user_cmd.c.                                                         *)
(*                                                                         *)
(* A configuration is its notify setting, which proto_set_notify writes,   *)
(* and the rest of it (soft).  The record in flash is one that passes the  *)
(* checks of header, version and sha256, or Bad.  A write can be cut by    *)
(* loss of power and can fail; either leaves anything of old, new and Bad. *)
(* A read can fail, or bring other bytes than those in flash.              *)
(*                                                                         *)
(* The key's interrupt comes at the edge of a press (bounces are presses   *)
(* too), also in the middle of update_key_state, which takes the time once *)
(* and then compares it with the time the interrupt stores.  A tick is     *)
(* half a second; between the ticks only microseconds pass.                *)
(*                                                                         *)
(* External: the flash driver, the GPIO driver.                            *)
(* Definitions named Slip... are not the code but mistakes one could make. *)
(***************************************************************************)
EXTENDS Integers

CONSTANTS
  Softs, DefaultSoft,       \* settings outside user_custom_cfg
  Notifies, DefaultNotify,  \* user_custom_cfg: en and out_fea
  Bad,                      \* a record in flash that fails the checks
  NoCfg,
  MaxPresses                \* bound: press edges from one start to the next

ASSUME SoftsAssumption == DefaultSoft \in Softs
ASSUME NotifiesAssumption == DefaultNotify \in Notifies
ASSUME MaxPressesAssumption == MaxPresses \in Nat

Cfgs    == [soft : Softs, notify : Notifies]
ASSUME BadAssumption == {Bad, NoCfg} \cap Cfgs = {}

VARIABLES
  flash,                    \* the record at BOARD_CFG_ADDR
  g_board_cfg,
  core,                     \* where core 0 is
  data,                     \* [job, cfg]: the write under way
  pin,                      \* the key: "up" or "down"
  g_gpio_flag,
  g_gpio_age,               \* ticks since g_gpio_time, at most LongAge
  later,                    \* g_gpio_time is later than v_time_now
  g_key_press, g_key_long_press,
  acked,                    \* the settings last confirmed to the host and not changed since
  misread,                  \* a start since then could not read a good record
  presses, reports          \* press edges and key events since the start

keyVars == <<pin, g_gpio_flag, g_gpio_age, later, presses>>
evtVars == <<g_key_press, g_key_long_press, reports>>
cfgVars == <<flash, g_board_cfg, data, acked, misread>>
boardVars == <<core, keyVars, evtVars, cfgVars>>

LongAge == 5                \* the first tick after 2 s

Min2(a, b) == IF a < b THEN a ELSE b

\* flash_cfg_set_default
flash_cfg_set_default == [soft |-> DefaultSoft, notify |-> DefaultNotify]

-----------------------------------------------------------------------------
(* Start: the first part of main                                           *)

\* flash_load_cfg finds a good record.
Boot ==
  /\ core = "off"
  /\ flash \in Cfgs
  /\ g_board_cfg' = flash
  /\ core' = "loop"
  /\ UNCHANGED <<flash, data, acked, misread, keyVars, evtVars>>

\* It does not: the record is bad, or a good one is not read (stat # W25QXX_OK, or
\* the sum of what was read is wrong).  Either way the defaults are saved over it.
BootFails ==
  /\ core = "off"
  /\ g_board_cfg' = flash_cfg_set_default
  /\ data' = [job |-> "boot", cfg |-> flash_cfg_set_default]
  /\ core' = "write"
  /\ misread' = (misread \/ flash \in Cfgs)
  /\ UNCHANGED <<flash, acked, keyVars, evtVars>>

-----------------------------------------------------------------------------
(* flash_save_cfg: a configuration that is being written                   *)

AfterWrite == IF data.job = "reset" THEN "uart" ELSE "loop"

WriteOk ==
  /\ core = "write"
  /\ flash' = data.cfg
  /\ IF data.job = "notify"
     THEN acked' = g_board_cfg /\ misread' = FALSE
     ELSE UNCHANGED <<acked, misread>>
  /\ core' = AfterWrite
  /\ UNCHANGED <<g_board_cfg, data, keyVars, evtVars>>

WriteFails ==
  /\ core = "write"
  /\ flash' \in {flash, data.cfg, Bad}
  /\ core' = AfterWrite
  /\ UNCHANGED <<g_board_cfg, data, acked, misread, keyVars, evtVars>>

\* RAM is lost, the key let go.
PowerLoss ==
  /\ core # "off"
  /\ flash' \in IF core = "write" THEN {flash, data.cfg, Bad} ELSE {flash}
  /\ core' = "off"
  /\ g_board_cfg' = NoCfg /\ data' = [job |-> "none", cfg |-> NoCfg]
  /\ pin' = "up" /\ g_gpio_flag' = FALSE /\ g_gpio_age' = LongAge /\ later' = FALSE
  /\ g_key_press' = FALSE /\ g_key_long_press' = FALSE
  /\ presses' = 0 /\ reports' = 0
  /\ UNCHANGED <<acked, misread>>

-----------------------------------------------------------------------------
(* The key                                                                 *)

\* The key goes down: irq_gpiohs.  In the middle of update_key_state the time it
\* stores may be later than the one taken there.
Press ==
  /\ core # "off" /\ pin = "up" /\ presses < MaxPresses
  /\ pin' = "down"
  /\ g_gpio_flag' = TRUE
  /\ g_gpio_age' = 0
  /\ later' \in IF core \in {"key1", "key1set", "key2"} THEN BOOLEAN ELSE {FALSE}
  /\ presses' = presses + 1
  /\ UNCHANGED <<core, evtVars, cfgVars>>

Release ==
  /\ core # "off" /\ pin = "down"
  /\ pin' = "up"
  /\ UNCHANGED <<core, g_gpio_flag, g_gpio_age, later, presses, evtVars, cfgVars>>

Tick ==
  /\ core = "loop"
  /\ g_gpio_age' = Min2(g_gpio_age + 1, LongAge)
  /\ UNCHANGED <<core, pin, g_gpio_flag, later, presses, evtVars, cfgVars>>

\* v_time_now - g_gpio_time, unsigned: a stored time that is later wraps around.
LongerThan(age) == later \/ g_gpio_age >= age

\* update_key_state: g_key_press = 0, and the time is taken.
Key0 ==
  /\ core = "loop"
  /\ g_key_press' = FALSE
  /\ later' = FALSE
  /\ core' = IF g_gpio_flag THEN "key1" ELSE "act"
  /\ UNCHANGED <<pin, g_gpio_flag, g_gpio_age, presses, g_key_long_press, reports, cfgVars>>

\* More than 10 ms ago and the key is up.
Key1 ==
  /\ core = "key1"
  /\ core' = IF LongerThan(1) /\ pin = "up" THEN "key1set" ELSE "key2"
  /\ UNCHANGED <<keyVars, evtVars, cfgVars>>

SlipKey1Set ==                           \* the press is left to be reported again
  /\ core = "key1set"
  /\ g_key_press' = TRUE
  /\ reports' = reports + 1
  /\ core' = "key2"
  /\ UNCHANGED <<keyVars, g_key_long_press, cfgVars>>

Key1Set ==
  /\ core = "key1set"
  /\ g_key_press' = TRUE
  /\ g_gpio_flag' = FALSE
  /\ reports' = reports + 1
  /\ core' = "key2"
  /\ UNCHANGED <<pin, g_gpio_age, later, presses, g_key_long_press, cfgVars>>

\* More than two seconds ago and the key is down.
Key2 ==
  /\ core = "key2"
  /\ core' = "act"
  /\ IF LongerThan(LongAge) /\ pin = "down"
     THEN /\ g_key_long_press' = TRUE
          /\ g_gpio_flag' = FALSE
          /\ reports' = reports + 1
     ELSE UNCHANGED <<g_key_long_press, g_gpio_flag, reports>>
  /\ UNCHANGED <<pin, g_gpio_age, later, presses, g_key_press, cfgVars>>

\* if (g_key_long_press): the defaults are built in a local variable and saved.
Act ==
  /\ core = "act"
  /\ g_key_long_press' = FALSE
  /\ IF g_key_long_press
     THEN /\ data' = [job |-> "reset", cfg |-> flash_cfg_set_default]
          /\ acked' = NoCfg
          /\ core' = "write"
     ELSE /\ core' = "uart"
          /\ UNCHANGED <<data, acked>>
  /\ UNCHANGED <<keyVars, g_key_press, reports, flash, g_board_cfg, misread>>

-----------------------------------------------------------------------------
(* Commands                                                                *)

SlipSetNotify(n) ==                      \* what is saved lacks the new setting
  /\ core = "uart"
  /\ g_board_cfg' = [g_board_cfg EXCEPT !.notify = n]
  /\ data' = [job |-> "notify", cfg |-> g_board_cfg]
  /\ acked' = NoCfg
  /\ core' = "write"
  /\ UNCHANGED <<flash, misread, keyVars, evtVars>>

\* proto_set_notify
SetNotify(n) ==
  /\ core = "uart"
  /\ g_board_cfg' = [g_board_cfg EXCEPT !.notify = n]
  /\ data' = [job |-> "notify", cfg |-> g_board_cfg']
  /\ acked' = NoCfg
  /\ core' = "write"
  /\ UNCHANGED <<flash, misread, keyVars, evtVars>>

NoCommand ==
  /\ core = "uart"
  /\ core' = "loop"
  /\ UNCHANGED <<keyVars, evtVars, cfgVars>>

-----------------------------------------------------------------------------
BoardInit ==
  /\ flash \in Cfgs \cup {Bad}
  /\ g_board_cfg = NoCfg /\ data = [job |-> "none", cfg |-> NoCfg]
  /\ core = "off"
  /\ pin = "up" /\ g_gpio_flag = FALSE /\ g_gpio_age = LongAge /\ later = FALSE
  /\ g_key_press = FALSE /\ g_key_long_press = FALSE
  /\ acked = NoCfg /\ misread = FALSE
  /\ presses = 0 /\ reports = 0

BoardNext ==
  \/ Boot \/ BootFails \/ WriteOk \/ WriteFails \/ PowerLoss
  \/ Press \/ Release \/ Tick
  \/ Key0 \/ Key1 \/ Key1Set \/ Key2 \/ Act
  \/ NoCommand \/ \E n \in Notifies : SetNotify(n)

BoardSpec == BoardInit /\ [][BoardNext]_boardVars

-----------------------------------------------------------------------------
(* Properties                                                              *)

\* Every variable has its type: in particular a device that runs never works on a
\* configuration that failed the checks.
BoardTypeOK ==
  /\ flash \in Cfgs \cup {Bad}
  /\ core \in {"off", "write", "loop", "key1", "key1set", "key2", "act", "uart"}
  /\ IF core = "off" THEN g_board_cfg = NoCfg ELSE g_board_cfg \in Cfgs
  /\ core = "write" => data \in [job : {"boot", "reset", "notify"}, cfg : Cfgs]
  /\ pin \in {"up", "down"} /\ g_gpio_flag \in BOOLEAN /\ later \in BOOLEAN
  /\ g_gpio_age \in 0 .. LongAge
  /\ g_key_press \in BOOLEAN /\ g_key_long_press \in BOOLEAN
  /\ acked \in Cfgs \cup {NoCfg} /\ misread \in BOOLEAN
  /\ presses \in 0 .. MaxPresses

\* Settings that were confirmed to the host are what flash holds and what the
\* device works with, also after any number of power cuts and starts, until the
\* next save begins or a start fails to read them.  The exception is the code's: a
\* read error is treated as a bad record, and the defaults are written over settings
\* that were in order (flash.c 469-493, main.c 254-260).
AckedSettingsLast ==
  acked # NoCfg /\ ~misread => flash = acked /\ (core # "off" => g_board_cfg = acked)

\* No press is reported twice, as two short ones, or as a short and a long one,
\* wherever the interrupt of the next press comes.
OneReportPerPress == reports =< presses

\* A long press is one of more than two seconds ("long press 2s" in board.c).
LongPressIsLong ==
  [][~g_key_long_press /\ g_key_long_press' => g_gpio_age >= LongAge]_boardVars

\* What a long press has reset ("reset factory" in Kconfig) is not saved again with
\* the next change of the notify setting: the save after a reset's has its settings.
ResetIsKept ==
  [][data.job = "reset" /\ data'.job = "notify" => data'.cfg.soft = data.cfg.soft]_boardVars
=============================================================================
