----------------------------- MODULE HookResults -----------------------------
(* The results that handlers pass on, and the error numbers of the C library  *)
(* that they stand for (capnhook/hook/result.c).                              *)
EXTENDS Functions

SUCCESS == "SUCCESS"
OK == "0"                                  \* errno 0

\* Every error number that has a result of its own.
known ==
  [EINVAL |-> "INVALID_PARAMETER", ENOMEM |-> "OUT_OF_MEMORY",
   EAGAIN |-> "REPEAT_OPERATION", ENOENT |-> "NO_SUCH_FILE_OR_DIR",
   ENOTTY |-> "NOT_TTY", EBUSY |-> "BUSY", EISDIR |-> "IS_A_DIRECTORY",
   EACCES |-> "PERMISSION_DENIED", ENOTEMPTY |-> "DIRECTORY_NOT_EMPTY",
   EPERM |-> "OPERATION_NOT_PERMITTED", ENODEV |-> "NO_SUCH_DEVICE",
   EBADF |-> "BAD_FILE_NUMBER", EBADFD |-> "FILE_DESCRIPTOR_IN_BAD_STATE",
   EOVERFLOW |-> "VALUE_TOO_LARGE_FOR_DEFINED_DATATYPE",
   ENXIO |-> "NO_SUCH_DEVICE_OR_ADDRESS", EPIPE |-> "BROKEN_PIPE",
   ETIME |-> "TIMER_EXPIRED", ENODATA |-> "NO_DATA_AVAILABLE"]

cnh_errno_to_result(errn) ==
  IF errn = OK THEN SUCCESS
  ELSE IF errn \in DOMAIN known THEN known[errn] ELSE "OTHER_ERROR"

\* Mutation: a directory that is not empty was forgotten in one of the two lists.
cnh_result_to_errno_Short(result) ==
  IF result = SUCCESS THEN OK
  ELSE IF result \in Range(known) \ {"DIRECTORY_NOT_EMPTY"}
       THEN AntiFunction(known)[result] ELSE "EIO"

\* A buffer that is too small has no error number of its own either.
cnh_result_to_errno(result) ==
  IF result = SUCCESS THEN OK
  ELSE IF result \in Range(known) THEN AntiFunction(known)[result] ELSE "EIO"
=============================================================================
