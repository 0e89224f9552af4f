SPECIFICATION Spec
CONSTANTS
  Threads = {t1, t2}
  Ops = {"lock", "try_lock_for"}
  None = None
INVARIANT UnlockFindsFlag
