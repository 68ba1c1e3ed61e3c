----------------------------- MODULE SessionsMC -----------------------------
(* The handlers called together in the runs of Sessions. *)
EXTENDS Sessions, TLC

Passwords == {"login", "refresh", "logout", "changePassword", "forgotPassword", "resetPassword"}

NewAddress == {"login", "updateMyProfile", "verifyPendingEmailChange"}

Closing == {"login", "refresh", "updateMyProfile", "closeAccount"}

Registration == {"register", "registerAdmin", "resendVerificationOtp", "resendResetPasswordOtp",
                 "verifyEmail", "resetPassword", "login"}

Review == {"requestAdminAccess", "registerAdmin", "approve", "reject", "promote", "SUSPENDED",
           "ACTIVE"}

Directory == {"register", "updateMyProfile", "closeAccount"}

Confirmation == {"updateMyProfile", "verifyPendingEmailChange"}

OpsOfOne == {Passwords, NewAddress, Closing, Registration, Review}

Codes == {"register", "resendVerificationOtp", "verifyEmail", "forgotPassword", "resetPassword"}

OpsOfTwo == {Directory, Confirmation, Codes}

Symmetry == Permutations(Requests) \cup Permutations(Users) \cup Permutations(Addresses)
=============================================================================
