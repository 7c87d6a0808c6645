----------------------------- MODULE MC_Collectors -----------------------------
(* TLC's instance of Collectors: two devices, and what the driver may have  *)
(* to say of one GPU, and the host of itself.                               *)
EXTENDS Collectors

CONSTANTS a, b     \* devices

TwoDevices == {<<>>, <<a>>, <<a, b>>, <<b>>}

Links == {<<1, 1>>, <<1, 2>>, <<2, 2>>}
OneGpu ==
    {[util |-> u[1], memUtil |-> u[2], vram |-> v, reasons |-> r, pstate |-> p,
      gen |-> g[1], genMax |-> g[2], width |-> w[1], widthMax |-> w[2]] :
        u \in {<<90, 90>>, <<40, 90>>, <<40, 10>>}, v \in {0, 1024}, p \in {0, 8},
        r \in {{}, {"DISPLAY_CLOCK"}, {"SW_POWER_CAP"},
               {"GPU_IDLE", "SW_THERMAL", "HW_SLOWDOWN"}, {"OTHER"}},
        g \in Links, w \in Links}

OneNode == {[cpuUser |-> 60, iowait |-> 20]}
=============================================================================
