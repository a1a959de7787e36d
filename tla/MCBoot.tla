------------------------------- MODULE MCBoot -------------------------------
EXTENDS Boot

\* Too little memory, memory that entry_pgdir covers, and more than that; a
\* machine without a table, with one processor, with as many as cpus[] holds,
\* with one too many, and with a table that mp_init does not understand.
Memories == {<<3, 0, 0>>, <<3, 11, 0>>, <<3, 12, 0>>, <<3, 13, 0>>,
             <<3, 17, 0>>, <<3, 19, 0>>, <<3, 25, 0>>, <<3, 40, 24>>}

Tables == {NULL, <<"boot">>, <<"bus", "boot", "proc", "proc", "bus">>,
           <<"boot", "proc", "proc", "proc">>, <<"boot", "proc", "unknown", "proc">>}

MCMachines == {[base |-> m[1], ext |-> m[2], ext16 |-> m[3], table |-> t] :
                m \in Memories, t \in Tables}
=============================================================================
