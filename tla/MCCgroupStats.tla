---------------------------- MODULE MCCgroupStats ----------------------------
(* The host of MCCgroupReader, and two devices on a kernel with the files of *)
(* the throttling policy, or without any of them.                            *)
EXTENDS CgroupStats, MCCgroupReader, TLC

DeviceSymmetry == Permutations(Devices)

MCKernels == {{}, ToSet(Files)}

\* One limit in bytes and one in operations per second.
MCTuned == {"read_bps_device", "write_iops_device"}

=============================================================================
