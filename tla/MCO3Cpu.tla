------------------------------- MODULE MCO3Cpu -------------------------------
(* Programs for O3Cpu. *)
EXTENDS O3Cpu, TLC

CONSTANTS x, y, z, r1, r2

MCAddr == {x, y, z}
MCReg == {r1, r2}

Op(src, dst, loads, stores) == [src |-> src, dst |-> dst, loads |-> loads, stores |-> stores]

\* Up to two loads and two stores, but no instruction reads two addresses that
\* another one writes.
Mixed ==
    {Op({}, {r1}, {}, {}), Op({r1}, {r2}, {x}, {}), Op({r1, r2}, {}, {}, {x}),
     Op({}, {r1}, {x, y}, {}), Op({}, {}, {y}, {y, z})}

\* One load at most.
SingleLoads ==
    {Op({}, {r1}, {}, {}), Op({r1}, {r2}, {x}, {}), Op({r2}, {}, {}, {x}),
     Op({}, {r1}, {x}, {x})}

\* An instruction that writes two addresses, one that reads them.
DoubleStores ==
    {Op({}, {}, {}, {x, y}), Op({}, {}, {}, {x}), Op({}, {}, {x, y}, {})}
=============================================================================
