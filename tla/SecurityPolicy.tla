--------------------------- MODULE SecurityPolicy ---------------------------
(* The at-rest security policies, as the outcomes of SealRecord and           *)
(* OpenRecord: which call of the key callback or of the crypto library fails, *)
(* what is told of it, and what the store is told of the record.  A tag is    *)
(* the ideal one: equal for equal content under an equal key.                 *)
EXTENDS Naturals, FiniteSets

AesGcmPolicies == {"OpenSslAesGcmPolicy", "MbedTlsAesGcmPolicy", "WolfSslAesGcmPolicy"}
HmacPolicies == {"OpenSslHmacSha256Policy", "MbedTlsHmacSha256Policy", "WolfSslHmacSha256Policy"}
KeyedPolicies == AesGcmPolicies \cup HmacPolicies
StaticPolicies == {"Crc16Policy", "NullSecurityPolicy"}

TagOf(content, key) == <<content, key>>

\* Seal: from the call that fails to the fault it is told as.
OpenSslAesGcmSeal ==
  [GetKey |-> "KEY_UNAVAILABLE", KeyLength |-> "KEY_UNAVAILABLE", RAND_bytes |-> "NONCE_FAILED",
   EVP_CIPHER_CTX_new |-> "ENCRYPT_FAILED", EVP_EncryptInit_ex |-> "ENCRYPT_FAILED",
   EVP_EncryptUpdate |-> "ENCRYPT_FAILED", EVP_EncryptFinal_ex |-> "ENCRYPT_FAILED",
   EVP_CIPHER_CTX_ctrl |-> "ENCRYPT_FAILED"]
MbedTlsAesGcmSeal ==
  [GetKey |-> "KEY_UNAVAILABLE", KeyLength |-> "KEY_UNAVAILABLE", mbedtls_ctr_drbg_random |-> "NONCE_FAILED",
   mbedtls_gcm_setkey |-> "ENCRYPT_FAILED", mbedtls_gcm_crypt_and_tag |-> "ENCRYPT_FAILED"]
WolfSslAesGcmSeal ==
  [GetKey |-> "KEY_UNAVAILABLE", KeyLength |-> "KEY_UNAVAILABLE", wc_RNG_GenerateBlock |-> "NONCE_FAILED"]
WolfSslGcmEncrypt ==
  [wc_AesInit |-> "ENCRYPT_FAILED", wc_AesGcmSetKey |-> "ENCRYPT_FAILED", wc_AesGcmEncrypt |-> "ENCRYPT_FAILED"]

\* ComputeTag, of Seal and of Open alike
OpenSslComputeTag ==
  [GetKey |-> "KEY_UNAVAILABLE", KeyLength |-> "KEY_TOO_SHORT", HMAC |-> "HMAC_FAILED"]
MbedTlsComputeTag ==
  [GetKey |-> "KEY_UNAVAILABLE", KeyLength |-> "KEY_TOO_SHORT", mbedtls_md_hmac |-> "HMAC_FAILED"]
WolfSslComputeTag == [GetKey |-> "KEY_UNAVAILABLE", KeyLength |-> "KEY_TOO_SHORT"]
WolfSslHmac ==
  [wc_HmacInit |-> "HMAC_FAILED", wc_HmacSetKey |-> "HMAC_FAILED",
   wc_HmacUpdate |-> "HMAC_FAILED", wc_HmacFinal |-> "HMAC_FAILED"]

\* OpenRecord of the AES-GCM policies: the calls before the one that decides,
\* and the result that one's answer is taken for.
OpenSslAesGcmOpen ==
  [GetKey |-> "KEY_UNAVAILABLE", KeyLength |-> "KEY_UNAVAILABLE"]
OpenSslGcmDecrypt ==
  [EVP_CIPHER_CTX_new |-> "DECRYPT_FAILED", EVP_DecryptInit_ex |-> "DECRYPT_FAILED",
   EVP_DecryptUpdate |-> "DECRYPT_FAILED", EVP_CIPHER_CTX_ctrl |-> "DECRYPT_FAILED"]
OpenSslVerdict(answer) == IF answer = "0" THEN "OPENED" ELSE "REJECTED"

MbedTlsAesGcmOpen ==
  [GetKey |-> "KEY_UNAVAILABLE", KeyLength |-> "KEY_UNAVAILABLE", mbedtls_gcm_setkey |-> "DECRYPT_FAILED"]
MbedTlsVerdict(answer) ==
  CASE answer = "0" -> "OPENED" [] answer = "auth" -> "REJECTED" [] OTHER -> "COULD_NOT_RUN"

WolfSslAesGcmOpen ==
  [GetKey |-> "KEY_UNAVAILABLE", KeyLength |-> "KEY_UNAVAILABLE",
   wc_AesInit |-> "DECRYPT_FAILED", wc_AesGcmSetKey |-> "DECRYPT_FAILED"]

\* A mutant: whatever the library will not decrypt is taken for tampering.
WolfSslVerdictOnAnyError(answer) == IF answer = "0" THEN "OPENED" ELSE "REJECTED"

WolfSslVerdict(answer) ==
  CASE answer = "0" -> "OPENED" [] answer = "auth" -> "REJECTED" [] OTHER -> "COULD_NOT_RUN"

\* What the call that decides answers: the libraries', of a genuine record and
\* of another.  EVP_DecryptFinal_ex fails for the tag alone.
Answers(policy, genuine) ==
  {IF genuine THEN "0" ELSE "auth"} \cup (IF policy = "OpenSslAesGcmPolicy" THEN {} ELSE {"error"})

ConstantTimeEquals(a, b) == a = b

-----------------------------------------------------------------------------
Joined(f, g) == [c \in DOMAIN f \cup DOMAIN g |-> IF c \in DOMAIN f THEN f[c] ELSE g[c]]

SealFaults(policy) ==
  CASE policy = "OpenSslAesGcmPolicy" -> OpenSslAesGcmSeal
    [] policy = "MbedTlsAesGcmPolicy" -> MbedTlsAesGcmSeal
    [] policy = "WolfSslAesGcmPolicy" -> Joined(WolfSslAesGcmSeal, WolfSslGcmEncrypt)
    [] policy = "OpenSslHmacSha256Policy" -> OpenSslComputeTag
    [] policy = "MbedTlsHmacSha256Policy" -> MbedTlsComputeTag
    [] policy = "WolfSslHmacSha256Policy" -> Joined(WolfSslComputeTag, WolfSslHmac)

OpenFaults(policy) ==
  CASE policy = "OpenSslAesGcmPolicy" -> Joined(OpenSslAesGcmOpen, OpenSslGcmDecrypt)
    [] policy = "MbedTlsAesGcmPolicy" -> MbedTlsAesGcmOpen
    [] policy = "WolfSslAesGcmPolicy" -> WolfSslAesGcmOpen
    [] OTHER -> SealFaults(policy)

\* The result of a decryption that got as far as its verdict.
GcmResult(policy, answer) ==
  CASE policy = "OpenSslAesGcmPolicy" -> OpenSslVerdict(answer)
    [] policy = "MbedTlsAesGcmPolicy" -> MbedTlsVerdict(answer)
    [] policy = "WolfSslAesGcmPolicy" -> WolfSslVerdict(answer)

\* SealRecord with no call failing: the tag goes into the trailer.
NullSealRecord(content) == [content |-> content, trailer |-> <<>>]
Crc16SealRecord(content) == [content |-> content, trailer |-> TagOf(content, 0)]
SealWith(content, key) == [content |-> content, trailer |-> TagOf(content, key)]

\* OpenRecord with every call before the verdict made: the possible results.
NullOpenRecord == {"OPENED"}
Crc16OpenRecord(r) == {IF r.trailer = TagOf(r.content, 0) THEN "OPENED" ELSE "REJECTED"}
HmacOpenRecord(r, key) ==
  {IF ConstantTimeEquals(TagOf(r.content, key), r.trailer) THEN "OPENED" ELSE "REJECTED"}
AesGcmOpenRecord(policy, r, key) ==
  {GcmResult(policy, a) : a \in Answers(policy, r.trailer = TagOf(r.content, key))}
=============================================================================
