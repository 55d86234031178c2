------------------------- MODULE MCBluetoothStreamIn -------------------------
(* BluetoothStreamIn with a reading thread and one that puts it to standby. *)
EXTENDS BluetoothStreamIn, TLC

Symmetry == Permutations(Threads)

=============================================================================
