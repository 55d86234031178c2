----------------------- MODULE MCBluetoothAudioSession -----------------------
(* BluetoothAudioSession with two incarnations of the stack. *)
EXTENDS BluetoothAudioSession, TLC

Symmetry == Permutations(Ports)

=============================================================================
