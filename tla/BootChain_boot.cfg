SPECIFICATION Spec
CONSTANTS
  Scripts = {"forkserver", "fs_fuzzer", "dvkm", "vmcall", "test_agent", "own"}
  OwnScript <- MCOwnScript
  Files = {"forkserver.so", "dvkm.ko", "fuzz_dvkm", "foo", "enoexist"}
  Faults = {"creat", "write", "push", "read", "range", "fs", "harness"}
INVARIANTS TypeOK CampaignHasItsModule
PROPERTIES HostIsTold
