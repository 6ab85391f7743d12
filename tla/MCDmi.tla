------------------------------- MODULE MCDmi -------------------------------
EXTENDS Dmi, TLC

Bios(runtime, rom) == [type |-> 0, length |-> 26, runtime |-> runtime, rom |-> rom]
Other(type, length) == [type |-> type, length |-> length]
Stick(length, form, size, ext, speed, conf, volts) ==
    [type |-> 17, length |-> length, form |-> form, size |-> size, ext |-> ext,
     speed |-> speed, conf |-> conf, volts |-> volts]

\* A usual machine: a module, an empty slot, a module without voltages.
Usual == <<Bios(61440, 255 - 1), Other(2, 15),
           Stick(92, TRUE, 8192, 0, <<3200, 0>>, <<2933, 0>>, <<0, 1350, 1200>>),
           Stick(40, TRUE, 0, 0, <<0, 0>>, <<0, 0>>, <<0, 0, 0>>),
           Stick(40, TRUE, 1536, 0, <<2400, 0>>, <<0, 0>>, <<0, 0, 0>>),
           Other(127, 4)>>

\* Large and odd modules: extended size and speed, a size in kB, an unknown one, short
\* structures, a flash chip of unknown form, another processor, and no end marker.
Odd == <<Bios(57345, 2), Other(4, 48),
         Stick(92, TRUE, UseExt, 2097152, <<Unknown16, 70000>>, <<Unknown16, 0>>,
               <<1100, 0, 1250>>),
         Stick(40, FALSE, 16, 0, <<1, 0>>, <<1, 0>>, <<1, 1, 1>>),
         Stick(27, TRUE, 32768 + 1025, 0, <<Unknown16, 5>>, <<1, 0>>, <<1, 1, 1>>),
         Stick(34, TRUE, Unknown16, 0, <<0, 0>>, <<800, 0>>, <<1, 1, 1>>),
         Other(4, 48)>>

\* Extended sizes of a whole number of GiB and of MiB, a short empty slot, four devices:
\* more than a stick_count of 2 bits can hold.
Full == <<Stick(32, TRUE, UseExt, 65536, <<0, 0>>, <<0, 0>>, <<0, 0, 0>>),
          Stick(92, TRUE, UseExt, 33793, <<4800, 0>>, <<0, 0>>, <<1100, 0, 0>>),
          Stick(21, TRUE, 0, 0, <<0, 0>>, <<0, 0>>, <<0, 0, 0>>),
          Stick(23, TRUE, 512, 0, <<400, 0>>, <<0, 0>>, <<0, 0, 0>>)>>

MCTables == {Usual, Odd, Full}
Symmetry == Permutations(Calls)
=============================================================================
