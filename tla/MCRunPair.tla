------------------------------ MODULE MCRunPair ------------------------------
(* An instance of RunPair for TLC.                                            *)
EXTENDS RunPair

PerCycleOf == [slow |-> 3, fast |-> 1]

Handler == <<"ack", "store", "return">>

RomOf(body, flash) == [code |-> Handler \o body, flash |-> flash]

WaitOps == {"load", "status", "flip", "until", "spin", "mask", "undef"}
SideOps == {"count", "store", "ack", "arm", "pause", "sound", "standby", "speed", "stop"}

\* Each program of two instructions in a loop.
LoopRoms ==
    {RomOf(<<a, b, "back">>, flash) :
        a \in WaitOps \cup SideOps, b \in WaitOps \cup SideOps, flash \in {{}, {4, 5, 6}, {4}}}

Timed(m) == [m EXCEPT !.timers["timer0"] = WriteControl(WritePeriod(@, 9), TRUE, 0)]
Enabled(m, lines) == [m EXCEPT !.intc = WriteEnable(@, lines)]

LoopBoots ==
    {Enabled(Timed(Reset), {"timer0", "rtc"}),
     [Enabled(Reset, {"rtc"}) EXCEPT !.dac.on = TRUE],
     Timed(Reset)}

Loops == [roms |-> LoopRoms, boots |-> LoopBoots, lengths |-> {50, 121},
          presses |-> {}, leads |-> {}, reloads |-> FALSE, horizon |-> 60]

\* Waits for an input of the host, some of them with the clock stopped.
InputRoms ==
    {RomOf(<<a, b, c, "back">>, {}) : a \in {"store", "standby"},
        b \in {"load", "stop", "spin"}, c \in {"status", "until", "back", "spin"}}

InputBoots ==
    {Enabled(Reset, {"action", "irda"}),
     Enabled([Reset EXCEPT !.timers["timer2"] = WriteControl(WritePeriod(@, 7), TRUE, 0)],
             {"action", "timer2", "irda"})}

Inputs == [roms |-> InputRoms, boots |-> InputBoots, lengths |-> {11, 60},
           presses |-> {{}, {"action"}}, leads |-> {2, 11}, reloads |-> TRUE,
           horizon |-> 45]

BothScenarios == {Loops, Inputs}
=============================================================================
