---------------------------- MODULE MCWorkspace ----------------------------
(* Three of the six payloads: one that x86_64 boots from, one that         *)
(* bootstrap asks for and no image holds, one that aarch64 boots from.     *)
EXTENDS Workspace

SomePayloads == <<"limine-bios.sys", "limine-bios-cd.bin", "BOOTAA64.EFI">>
=============================================================================
