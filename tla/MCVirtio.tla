------------------------------ MODULE MCVirtio ------------------------------
(* Every driver of the system on rings of two slots whose indices wrap.    *)
EXTENDS Virtio

MCDrivers == {"blk", "pci_blk", "gpu", "net", "pci_net", "console", "input"}
=============================================================================
