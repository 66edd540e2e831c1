------------------------------- MODULE MCEgun -------------------------------
(* The electron gun's own table, and energies at its ends and its bends.   *)
EXTENDS Egun

R(e, s, x, y, f) == [energy |-> e, shift |-> s, xdefl |-> x, ydefl |-> y, focus |-> f]

defaultparams ==
  << R(100, 4, 12, 0, 139), R(200, 4, -36, 0, 98), R(300, 4, -74, 0, 91),
     R(400, 4, -90, 0, 92), R(500, 5, -100, 0, 100), R(1000, 7, -300, 0, 150),
     R(2000, 10, -700, 0, 360), R(3000, 13, -1100, 0, 520),
     R(4000, 17, -1200, -100, 690), R(5000, 20, -1300, -500, 980),
     R(6000, 24, -1500, -100, 1366), R(7000, 27, -1400, -300, 1920),
     R(8000, 30, -1500, -200, 2920), R(9000, 34, -1500, -300, 3090),
     R(10000, 37, -1500, -100, 3390), R(11000, 41, -2200, -400, 3570),
     R(12000, 44, -2600, -200, 3900), R(13000, 48, -2700, -500, 4000),
     R(14000, 51, -2200, -700, 4410), R(15000, 54, -2400, -1000, 4680),
     R(16000, 57, -2700, -1000, 4990) >>

MCEnergies ==
  {99, 100, 104, 203, 505, 5555, 14000, 16000, 16001}

Setting(k, c, v) == [kind |-> k, control |-> c, value |-> v]

MCCommands ==
  {[kind |-> "energy", value |-> e] : e \in MCEnergies}
  \cup {[kind |-> k] : k \in {"quit", "empty", "unreadable"}}
  \cup {Setting("get", Energy, 0), Setting("set", Focus, -12345),
        Setting("raw", Xdefl, 7)}

MCAllControls == Controls
=============================================================================
