------------------------ MODULE MCBluetoothStreamOut ------------------------
(* BluetoothStreamOut with two threads of the audio service. *)
EXTENDS BluetoothStreamOut, TLC

Symmetry == Permutations(Threads)

=============================================================================
