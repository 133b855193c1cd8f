----------------------------- MODULE SdCallsV5 ------------------------------
(*****************************************************************************)
(* API version 5: the sd_ functions, each with the codecs of its request and *)
(* its response.  T has the declaration of the function of the same name.    *)
(*****************************************************************************)
EXTENDS SdApiV5

T == INSTANCE SdFunctionsV5

sd_ble_gap_adv_start ==
    Call(T!sd_ble_gap_adv_start, ble_gap_adv_start_req_enc("p_adv_params", "conn_cfg_tag"),
         ble_gap_adv_start_rsp_dec)
sd_ble_gap_device_name_get ==
    Call(T!sd_ble_gap_device_name_get,
         ble_gap_device_name_get_req_enc("p_dev_name", "p_dev_name_len"),
         ble_gap_device_name_get_rsp_dec("p_dev_name", "p_dev_name_len"))
sd_ble_gap_appearance_get ==
    Call(T!sd_ble_gap_appearance_get, ble_gap_appearance_get_req_enc("p_appearance"),
         ble_gap_appearance_get_rsp_dec("p_appearance"))
sd_ble_gap_device_name_set ==
    Call(T!sd_ble_gap_device_name_set,
         ble_gap_device_name_set_req_enc("p_write_perm", "p_dev_name", "len"),
         ble_gap_device_name_set_rsp_dec)
sd_ble_gap_appearance_set ==
    Call(T!sd_ble_gap_appearance_set, ble_gap_appearance_set_req_enc("appearance"),
         ble_gap_appearance_set_rsp_dec)
sd_ble_gap_ppcp_set ==
    Call(T!sd_ble_gap_ppcp_set, ble_gap_ppcp_set_req_enc("p_conn_params"),
         ble_gap_ppcp_set_rsp_dec)
sd_ble_gap_adv_data_set ==
    Call(T!sd_ble_gap_adv_data_set,
         ble_gap_adv_data_set_req_enc("p_adv_data", "dlen", "p_sr_data", "srdlen"),
         ble_gap_adv_data_set_rsp_dec)
sd_ble_gap_conn_param_update ==
    Call(T!sd_ble_gap_conn_param_update,
         ble_gap_conn_param_update_req_enc("conn_handle", "p_conn_params"),
         ble_gap_conn_param_update_rsp_dec)
sd_ble_gap_disconnect ==
    Call(T!sd_ble_gap_disconnect, ble_gap_disconnect_req_enc("conn_handle", "hci_status_code"),
         ble_gap_disconnect_rsp_dec)
sd_ble_gap_sec_info_reply ==
    Call(T!sd_ble_gap_sec_info_reply,
         ble_gap_sec_info_reply_req_enc("conn_handle", "p_enc_info", "p_id_info",
                                        "p_sign_info"), ble_gap_sec_info_reply_rsp_dec)
sd_ble_gap_ppcp_get ==
    Call(T!sd_ble_gap_ppcp_get, ble_gap_ppcp_get_req_enc("p_conn_params"),
         ble_gap_ppcp_get_rsp_dec("p_conn_params"))
sd_ble_gap_addr_get ==
    Call(T!sd_ble_gap_addr_get, ble_gap_addr_get_req_enc("p_addr"),
         ble_gap_addr_get_rsp_dec("p_addr"))
sd_ble_gap_addr_set ==
    Call(T!sd_ble_gap_addr_set, ble_gap_addr_set_req_enc("p_addr"), ble_gap_addr_set_rsp_dec)
sd_ble_gap_whitelist_set ==
    Call(T!sd_ble_gap_whitelist_set, ble_gap_whitelist_set_req_enc("pp_wl_addrs", "len"),
         ble_gap_whitelist_set_rsp_dec)
sd_ble_gap_device_identities_set ==
    Call(T!sd_ble_gap_device_identities_set,
         ble_gap_device_identities_set_req_enc("pp_id_keys", "pp_local_irks", "len"),
         ble_gap_device_identities_set_rsp_dec)
sd_ble_gap_privacy_set ==
    Call(T!sd_ble_gap_privacy_set, ble_gap_privacy_set_req_enc("p_privacy_params"),
         ble_gap_privacy_set_rsp_dec)
sd_ble_gap_privacy_get ==
    Call(T!sd_ble_gap_privacy_get, ble_gap_privacy_get_req_enc("p_privacy_params"),
         ble_gap_privacy_get_rsp_dec("p_privacy_params"))
sd_ble_gap_adv_stop ==
    Call(T!sd_ble_gap_adv_stop, ble_gap_adv_stop_req_enc, ble_gap_adv_stop_rsp_dec)
sd_ble_gap_auth_key_reply ==
    Call(T!sd_ble_gap_auth_key_reply,
         ble_gap_auth_key_reply_req_enc("conn_handle", "key_type", "p_key"),
         ble_gap_auth_key_reply_rsp_dec)
sd_ble_gap_authenticate ==
    Call(T!sd_ble_gap_authenticate, ble_gap_authenticate_req_enc("conn_handle", "p_sec_params"),
         ble_gap_authenticate_rsp_dec)
sd_ble_gap_conn_sec_get ==
    Call(T!sd_ble_gap_conn_sec_get, ble_gap_conn_sec_get_req_enc("conn_handle", "p_conn_sec"),
         ble_gap_conn_sec_get_rsp_dec("p_conn_sec"))
sd_ble_gap_rssi_start ==
    Call(T!sd_ble_gap_rssi_start,
         ble_gap_rssi_start_req_enc("conn_handle", "threshold_dbm", "skip_count"),
         ble_gap_rssi_start_rsp_dec)
sd_ble_gap_rssi_stop ==
    Call(T!sd_ble_gap_rssi_stop, ble_gap_rssi_stop_req_enc("conn_handle"),
         ble_gap_rssi_stop_rsp_dec)
sd_ble_gap_tx_power_set ==
    Call(T!sd_ble_gap_tx_power_set, ble_gap_tx_power_set_req_enc("tx_power"),
         ble_gap_tx_power_set_rsp_dec)
sd_ble_gap_scan_stop ==
    Call(T!sd_ble_gap_scan_stop, ble_gap_scan_stop_req_enc, ble_gap_scan_stop_rsp_dec)
sd_ble_gap_connect ==
    Call(T!sd_ble_gap_connect,
         ble_gap_connect_req_enc("p_peer_addr", "p_scan_params", "p_conn_params",
                                 "conn_cfg_tag"), ble_gap_connect_rsp_dec)
sd_ble_gap_connect_cancel ==
    Call(T!sd_ble_gap_connect_cancel, ble_gap_connect_cancel_req_enc,
         ble_gap_connect_cancel_rsp_dec)
sd_ble_gap_scan_start ==
    Call(T!sd_ble_gap_scan_start, ble_gap_scan_start_req_enc("p_scan_params"),
         ble_gap_scan_start_rsp_dec)
sd_ble_gap_encrypt ==
    Call(T!sd_ble_gap_encrypt,
         ble_gap_encrypt_req_enc("conn_handle", "p_master_id", "p_enc_info"),
         ble_gap_encrypt_rsp_dec)
sd_ble_gap_rssi_get ==
    Call(T!sd_ble_gap_rssi_get, ble_gap_rssi_get_req_enc("conn_handle", "p_rssi"),
         ble_gap_rssi_get_rsp_dec("p_rssi"))
sd_ble_gap_sec_params_reply ==
    Call(T!sd_ble_gap_sec_params_reply,
         ble_gap_sec_params_reply_req_enc("conn_handle", "sec_status", "p_sec_params",
                                          "p_sec_keyset"),
         ble_gap_sec_params_reply_rsp_dec("p_sec_keyset"))
sd_ble_gap_lesc_oob_data_get ==
    Call(T!sd_ble_gap_lesc_oob_data_get,
         ble_gap_lesc_oob_data_get_req_enc("conn_handle", "p_pk_own", "p_oobd_own"),
         ble_gap_lesc_oob_data_get_rsp_dec("p_oobd_own"))
sd_ble_gap_lesc_oob_data_set ==
    Call(T!sd_ble_gap_lesc_oob_data_set,
         ble_gap_lesc_oob_data_set_req_enc("conn_handle", "p_oobd_own", "p_oobd_peer"),
         ble_gap_lesc_oob_data_set_rsp_dec)
sd_ble_gap_lesc_dhkey_reply ==
    Call(T!sd_ble_gap_lesc_dhkey_reply,
         ble_gap_lesc_dhkey_reply_req_enc("conn_handle", "p_dhkey"),
         ble_gap_lesc_dhkey_reply_rsp_dec)
sd_ble_gap_keypress_notify ==
    Call(T!sd_ble_gap_keypress_notify, ble_gap_keypress_notify_req_enc("conn_handle", "kp_not"),
         ble_gap_keypress_notify_rsp_dec)
sd_ble_gap_phy_update ==
    Call(T!sd_ble_gap_phy_update, ble_gap_phy_update_req_enc("conn_handle", "p_gap_phys"),
         ble_gap_phy_update_rsp_dec)
sd_ble_gap_data_length_update ==
    Call(T!sd_ble_gap_data_length_update,
         ble_gap_data_length_update_req_enc("conn_handle", "p_dl_params", "p_dl_limitation"),
         ble_gap_data_length_update_rsp_dec("p_dl_limitation"))
sd_ble_gattc_primary_services_discover ==
    Call(T!sd_ble_gattc_primary_services_discover,
         ble_gattc_primary_services_discover_req_enc("conn_handle", "start_handle",
                                                     "p_srvc_uuid"),
         ble_gattc_primary_services_discover_rsp_dec)
sd_ble_gattc_relationships_discover ==
    Call(T!sd_ble_gattc_relationships_discover,
         ble_gattc_relationships_discover_req_enc("conn_handle", "p_handle_range"),
         ble_gattc_relationships_discover_rsp_dec)
sd_ble_gattc_characteristics_discover ==
    Call(T!sd_ble_gattc_characteristics_discover,
         ble_gattc_characteristics_discover_req_enc("conn_handle", "p_handle_range"),
         ble_gattc_characteristics_discover_rsp_dec)
sd_ble_gattc_descriptors_discover ==
    Call(T!sd_ble_gattc_descriptors_discover,
         ble_gattc_descriptors_discover_req_enc("conn_handle", "p_handle_range"),
         ble_gattc_descriptors_discover_rsp_dec)
sd_ble_gattc_char_value_by_uuid_read ==
    Call(T!sd_ble_gattc_char_value_by_uuid_read,
         ble_gattc_char_value_by_uuid_read_req_enc("conn_handle", "p_uuid", "p_handle_range"),
         ble_gattc_char_value_by_uuid_read_rsp_dec)
sd_ble_gattc_read ==
    Call(T!sd_ble_gattc_read, ble_gattc_read_req_enc("conn_handle", "handle", "offset"),
         ble_gattc_read_rsp_dec)
sd_ble_gattc_char_values_read ==
    Call(T!sd_ble_gattc_char_values_read,
         ble_gattc_char_values_read_req_enc("conn_handle", "p_handles", "handle_count"),
         ble_gattc_char_values_read_rsp_dec)
sd_ble_gattc_write ==
    Call(T!sd_ble_gattc_write, ble_gattc_write_req_enc("conn_handle", "p_write_params"),
         ble_gattc_write_rsp_dec)
sd_ble_gattc_hv_confirm ==
    Call(T!sd_ble_gattc_hv_confirm, ble_gattc_hv_confirm_req_enc("conn_handle", "handle"),
         ble_gattc_hv_confirm_rsp_dec)
sd_ble_gattc_attr_info_discover ==
    Call(T!sd_ble_gattc_attr_info_discover,
         ble_gattc_attr_info_discover_req_enc("conn_handle", "p_handle_range"),
         ble_gattc_attr_info_discover_rsp_dec)
sd_ble_gattc_exchange_mtu_request ==
    Call(T!sd_ble_gattc_exchange_mtu_request,
         ble_gattc_exchange_mtu_request_req_enc("conn_handle", "client_rx_mtu"),
         ble_gattc_exchange_mtu_request_rsp_dec)
sd_ble_gatts_service_add ==
    Call(T!sd_ble_gatts_service_add,
         ble_gatts_service_add_req_enc("type", "p_uuid", "p_handle"),
         ble_gatts_service_add_rsp_dec("p_handle"))
sd_ble_gatts_include_add ==
    Call(T!sd_ble_gatts_include_add,
         ble_gatts_include_add_req_enc("service_handle", "inc_srvc_handle", "p_include_handle"),
         ble_gatts_include_add_rsp_dec("p_include_handle"))
sd_ble_gatts_characteristic_add ==
    Call(T!sd_ble_gatts_characteristic_add,
         ble_gatts_characteristic_add_req_enc("service_handle", "p_char_md",
                                              "p_attr_char_value", "p_handles"),
         ble_gatts_characteristic_add_rsp_dec("p_handles"))
sd_ble_gatts_descriptor_add ==
    Call(T!sd_ble_gatts_descriptor_add,
         ble_gatts_descriptor_add_req_enc("char_handle", "p_attr", "p_handle"),
         ble_gatts_descriptor_add_rsp_dec("p_handle"))
sd_ble_gatts_value_set ==
    Call(T!sd_ble_gatts_value_set,
         ble_gatts_value_set_req_enc("conn_handle", "handle", "p_value"),
         ble_gatts_value_set_rsp_dec("p_value"))
sd_ble_gatts_value_get ==
    Call(T!sd_ble_gatts_value_get,
         ble_gatts_value_get_req_enc("conn_handle", "handle", "p_value"),
         ble_gatts_value_get_rsp_dec("p_value"))
sd_ble_gatts_hvx ==
    Call(T!sd_ble_gatts_hvx, ble_gatts_hvx_req_enc("conn_handle", "p_hvx_params"),
         Within("p_hvx_params", ble_gatts_hvx_rsp_dec("p_len")))
sd_ble_gatts_service_changed ==
    Call(T!sd_ble_gatts_service_changed,
         ble_gatts_service_changed_req_enc("conn_handle", "start_handle", "end_handle"),
         ble_gatts_service_changed_rsp_dec)
sd_ble_gatts_rw_authorize_reply ==
    Call(T!sd_ble_gatts_rw_authorize_reply,
         ble_gatts_rw_authorize_reply_req_enc("conn_handle", "p_rw_authorize_reply_params"),
         ble_gatts_rw_authorize_reply_rsp_dec)
sd_ble_gatts_sys_attr_set ==
    Call(T!sd_ble_gatts_sys_attr_set,
         ble_gatts_sys_attr_set_req_enc("conn_handle", "p_sys_attr_data", "len", "flags"),
         ble_gatts_sys_attr_set_rsp_dec)
sd_ble_gatts_sys_attr_get ==
    Call(T!sd_ble_gatts_sys_attr_get,
         ble_gatts_sys_attr_get_req_enc("conn_handle", "p_sys_attr_data", "p_sys_attr_data_len",
                                        "flags"),
         ble_gatts_sys_attr_get_rsp_dec("p_sys_attr_data", "p_sys_attr_data_len"))
sd_ble_gatts_initial_user_handle_get ==
    Call(T!sd_ble_gatts_initial_user_handle_get,
         ble_gatts_initial_user_handle_get_req_enc("p_handle"),
         ble_gatts_initial_user_handle_get_rsp_dec("p_handle"))
sd_ble_gatts_attr_get ==
    Call(T!sd_ble_gatts_attr_get, ble_gatts_attr_get_req_enc("handle", "p_uuid", "p_md"),
         ble_gatts_attr_get_rsp_dec("p_uuid", "p_md"))
sd_ble_gatts_exchange_mtu_reply ==
    Call(T!sd_ble_gatts_exchange_mtu_reply,
         ble_gatts_exchange_mtu_reply_req_enc("conn_handle", "server_rx_mtu"),
         ble_gatts_exchange_mtu_reply_rsp_dec)
sd_ble_uuid_encode ==
    Call(T!sd_ble_uuid_encode, ble_uuid_encode_req_enc("p_uuid", "p_uuid_le_len", "p_uuid_le"),
         ble_uuid_encode_rsp_dec("p_uuid_le_len", "p_uuid_le"))
sd_ble_uuid_vs_add ==
    Call(T!sd_ble_uuid_vs_add, ble_uuid_vs_add_req_enc("p_vs_uuid", "p_uuid_type"),
         ble_uuid_vs_add_rsp_dec("p_uuid_type"))
sd_ble_uuid_decode ==
    Call(T!sd_ble_uuid_decode, ble_uuid_decode_req_enc("uuid_le_len", "p_uuid_le", "p_uuid"),
         ble_uuid_decode_rsp_dec("p_uuid"))
sd_ble_version_get ==
    Call(T!sd_ble_version_get, ble_version_get_req_enc("p_version"),
         ble_version_get_rsp_dec("p_version"))
sd_ble_opt_get ==
    Call(T!sd_ble_opt_get, ble_opt_get_req_enc("opt_id", "p_opt"),
         ble_opt_get_rsp_dec("opt_id", "p_opt"))
sd_ble_opt_set ==
    Call(T!sd_ble_opt_set, ble_opt_set_req_enc("opt_id", "p_opt"), ble_opt_set_rsp_dec)
sd_ble_cfg_set ==
    Call(T!sd_ble_cfg_set, ble_cfg_set_req_enc("cfg_id", "p_cfg"), ble_cfg_set_rsp_dec)
sd_ble_enable == Call(T!sd_ble_enable, ble_enable_req_enc, ble_enable_rsp_dec)
sd_ble_user_mem_reply ==
    Call(T!sd_ble_user_mem_reply,
         Refusing("p_block", ble_user_mem_reply_req_enc("conn_handle", "p_block")),
         ble_user_mem_reply_rsp_dec)

(* The functions a program can call. *)
Calls ==
    [sd_ble_gap_adv_start |-> sd_ble_gap_adv_start,
     sd_ble_gap_device_name_get |-> sd_ble_gap_device_name_get,
     sd_ble_gap_appearance_get |-> sd_ble_gap_appearance_get,
     sd_ble_gap_device_name_set |-> sd_ble_gap_device_name_set,
     sd_ble_gap_appearance_set |-> sd_ble_gap_appearance_set,
     sd_ble_gap_ppcp_set |-> sd_ble_gap_ppcp_set,
     sd_ble_gap_adv_data_set |-> sd_ble_gap_adv_data_set,
     sd_ble_gap_conn_param_update |-> sd_ble_gap_conn_param_update,
     sd_ble_gap_disconnect |-> sd_ble_gap_disconnect,
     sd_ble_gap_sec_info_reply |-> sd_ble_gap_sec_info_reply,
     sd_ble_gap_ppcp_get |-> sd_ble_gap_ppcp_get,
     sd_ble_gap_addr_get |-> sd_ble_gap_addr_get,
     sd_ble_gap_addr_set |-> sd_ble_gap_addr_set,
     sd_ble_gap_whitelist_set |-> sd_ble_gap_whitelist_set,
     sd_ble_gap_device_identities_set |-> sd_ble_gap_device_identities_set,
     sd_ble_gap_privacy_set |-> sd_ble_gap_privacy_set,
     sd_ble_gap_privacy_get |-> sd_ble_gap_privacy_get,
     sd_ble_gap_adv_stop |-> sd_ble_gap_adv_stop,
     sd_ble_gap_auth_key_reply |-> sd_ble_gap_auth_key_reply,
     sd_ble_gap_authenticate |-> sd_ble_gap_authenticate,
     sd_ble_gap_conn_sec_get |-> sd_ble_gap_conn_sec_get,
     sd_ble_gap_rssi_start |-> sd_ble_gap_rssi_start,
     sd_ble_gap_rssi_stop |-> sd_ble_gap_rssi_stop,
     sd_ble_gap_tx_power_set |-> sd_ble_gap_tx_power_set,
     sd_ble_gap_scan_stop |-> sd_ble_gap_scan_stop,
     sd_ble_gap_connect |-> sd_ble_gap_connect,
     sd_ble_gap_connect_cancel |-> sd_ble_gap_connect_cancel,
     sd_ble_gap_scan_start |-> sd_ble_gap_scan_start,
     sd_ble_gap_encrypt |-> sd_ble_gap_encrypt,
     sd_ble_gap_rssi_get |-> sd_ble_gap_rssi_get,
     sd_ble_gap_sec_params_reply |-> sd_ble_gap_sec_params_reply,
     sd_ble_gap_lesc_oob_data_get |-> sd_ble_gap_lesc_oob_data_get,
     sd_ble_gap_lesc_oob_data_set |-> sd_ble_gap_lesc_oob_data_set,
     sd_ble_gap_lesc_dhkey_reply |-> sd_ble_gap_lesc_dhkey_reply,
     sd_ble_gap_keypress_notify |-> sd_ble_gap_keypress_notify,
     sd_ble_gap_phy_update |-> sd_ble_gap_phy_update,
     sd_ble_gap_data_length_update |-> sd_ble_gap_data_length_update,
     sd_ble_gattc_primary_services_discover |-> sd_ble_gattc_primary_services_discover,
     sd_ble_gattc_relationships_discover |-> sd_ble_gattc_relationships_discover,
     sd_ble_gattc_characteristics_discover |-> sd_ble_gattc_characteristics_discover,
     sd_ble_gattc_descriptors_discover |-> sd_ble_gattc_descriptors_discover,
     sd_ble_gattc_char_value_by_uuid_read |-> sd_ble_gattc_char_value_by_uuid_read,
     sd_ble_gattc_read |-> sd_ble_gattc_read,
     sd_ble_gattc_char_values_read |-> sd_ble_gattc_char_values_read,
     sd_ble_gattc_write |-> sd_ble_gattc_write,
     sd_ble_gattc_hv_confirm |-> sd_ble_gattc_hv_confirm,
     sd_ble_gattc_attr_info_discover |-> sd_ble_gattc_attr_info_discover,
     sd_ble_gattc_exchange_mtu_request |-> sd_ble_gattc_exchange_mtu_request,
     sd_ble_gatts_service_add |-> sd_ble_gatts_service_add,
     sd_ble_gatts_include_add |-> sd_ble_gatts_include_add,
     sd_ble_gatts_characteristic_add |-> sd_ble_gatts_characteristic_add,
     sd_ble_gatts_descriptor_add |-> sd_ble_gatts_descriptor_add,
     sd_ble_gatts_value_set |-> sd_ble_gatts_value_set,
     sd_ble_gatts_value_get |-> sd_ble_gatts_value_get,
     sd_ble_gatts_hvx |-> sd_ble_gatts_hvx,
     sd_ble_gatts_service_changed |-> sd_ble_gatts_service_changed,
     sd_ble_gatts_rw_authorize_reply |-> sd_ble_gatts_rw_authorize_reply,
     sd_ble_gatts_sys_attr_set |-> sd_ble_gatts_sys_attr_set,
     sd_ble_gatts_sys_attr_get |-> sd_ble_gatts_sys_attr_get,
     sd_ble_gatts_initial_user_handle_get |-> sd_ble_gatts_initial_user_handle_get,
     sd_ble_gatts_attr_get |-> sd_ble_gatts_attr_get,
     sd_ble_gatts_exchange_mtu_reply |-> sd_ble_gatts_exchange_mtu_reply,
     sd_ble_uuid_encode |-> sd_ble_uuid_encode,
     sd_ble_uuid_vs_add |-> sd_ble_uuid_vs_add,
     sd_ble_uuid_decode |-> sd_ble_uuid_decode,
     sd_ble_version_get |-> sd_ble_version_get,
     sd_ble_opt_get |-> sd_ble_opt_get,
     sd_ble_opt_set |-> sd_ble_opt_set,
     sd_ble_cfg_set |-> sd_ble_cfg_set,
     sd_ble_enable |-> sd_ble_enable,
     sd_ble_user_mem_reply |-> sd_ble_user_mem_reply]

Numbers == T!BLE_COMMON_SVCS @@ T!BLE_GAP_SVCS @@ T!BLE_GATTC_SVCS @@ T!BLE_GATTS_SVCS @@ T!BLE_L2CAP_SVCS
Events == T!BLE_COMMON_EVTS @@ T!BLE_GAP_EVTS @@ T!BLE_GATTC_EVTS @@ T!BLE_GATTS_EVTS @@ T!BLE_L2CAP_EVTS
EventTypes == [common |-> T!ble_common_evt_t, gap |-> T!ble_gap_evt_t, gattc |-> T!ble_gattc_evt_t, gatts |-> T!ble_gatts_evt_t, l2cap |-> T!ble_l2cap_evt_t]
=============================================================================
